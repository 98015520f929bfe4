--------------------------- MODULE AdminDoorInvariant ---------------------------
(***************************************************************************)
(* What signing in promises, and the inductive invariant it rests on.       *)
(***************************************************************************)
EXTENDS AdminDoor

\* Every variable holds a value its column, its cookie or its request may hold.
SignInTypeOK ==
  /\ isAdmin \in [Accounts -> BOOLEAN]
  /\ row \in [Rows -> RowRecords]
  /\ cookie \in [Browsers -> Cookies]
  /\ challenges \subseteq Links
  /\ session \in [SessionIds -> SessionRecords]
  /\ pc \in [Requests -> PCs]
  /\ job \in [Requests -> Jobs]
  /\ enrolment \in [Accounts -> Tokens \cup {None}]
  /\ lapsed \subseteq Tokens
  /\ cli \in [Tokens -> {"away", "printed", "claimed", "enrolled", "quit"}]
  /\ owner \in [Tokens -> Accounts \cup {None}]
  /\ newest \in [Accounts -> Tokens \cup {None}]
  /\ factor \in [Accounts -> Factors \cup {None}]
  /\ vpc \in [Verifiers -> {"idle", "submitted", "matched", "accepted"}]
  /\ vjob \in [Verifiers -> VerifyJobs]
  /\ \A v \in Verifiers : vpc[v] = "idle" => vjob[v] = NoVerify

Opened == {s \in SessionIds : session[s].state # "unused"}

\* A backup code is spent by a session, or by a request about to open one.
SpentBySession(s, t, c) == s \in Opened /\ session[s].token = t /\ session[s].code = c
SpentByRequest(v, t, c) == vpc[v] = "accepted" /\ vjob[v].token = t /\ vjob[v].code = c
-----------------------------------------------------------------------------
(* Properties *)

\* How long a session lives is what she answered about that device when she asked
\* for the link, or started at Google: the row that carried the answer is gone by
\* then, other links and another start may have followed, and an Admin's eight
\* hours depend on neither (sign-in-attempt.ts:196-204, auth/config.ts:1011-1039).
AnswerReachesSession ==
  \A s \in Opened :
    session[s].life = LifeOf(session[s].method, row[session[s].origin].shared)

\* A request that came after the grant opens no session by a public door, however
\* its steps fall against the transaction that grants (auth/config.ts:829-908).
AdminsHaveOneDoor ==
  \A s \in Opened : session[s].method # "link_totp" => ~session[s].granted

\* What passes the Admin's gate was opened behind a consumed link of that Account
\* and a code of a factor enrolled for it: a session that is older than the grant
\* does not pass (admin/actor.ts:75-81).
AuthorityNeedsBothFactors ==
  \A s \in SessionIds :
    RequireAdminSession(s) =>
      LET o == session[s] IN
      /\ o.origin \in Links
      /\ row[o.origin].state = "gone"
      /\ row[o.origin].account = o.account
      /\ o.token # None
      /\ owner[o.token] = o.account
      /\ cli[o.token] = "enrolled"

\* A backup code opens one session, whoever spends it or another one meanwhile
\* (admin/door.ts:156-184).
EachCodeOpensOnce ==
  \A s, o \in Opened :
    s # o /\ session[s].code \in Codes =>
      <<session[s].token, session[s].code>> # <<session[o].token, session[o].code>>

\* "Consuming one is a rewrite of this value with that member gone, inside the
\* transaction that establishes the session" (schema.ts:376-378): a code that
\* left its factor opened a session, or its request is about to.
SpentCodesOpened ==
  \A a \in Accounts : factor[a] # None =>
    \A c \in Codes \ factor[a].codes :
      \/ \E s \in SessionIds : SpentBySession(s, factor[a].token, c)
      \/ \E v \in Verifiers : SpentByRequest(v, factor[a].token, c)

\* Whoever is told she is signed out is (auth/index.ts:444-517).
SignOutIsTrue ==
  \A r \in Requests : pc[r] = "signedOut" => ~IsLive(job[r].session)

\* Whoever is told she is signed out everywhere has no session left of those that
\* were open when she asked, but the one she asked with (auth/index.ts:706-803).
SignedOutEverywhereIsTrue ==
  \A r \in Requests : pc[r] = "everywhere" => \A s \in job[r].listed : ~IsLive(s)

\* "The earlier link stops working at the moment this one is printed" (admin/
\* enrolment.ts:149): what is installed is the last link printed for the Account.
NewestLinkStands ==
  [][\A t \in Tokens : cli[t] = "claimed" /\ cli'[t] = "enrolled" => newest[owner[t]] = t]_vars
-----------------------------------------------------------------------------
(* The inductive invariant *)

\* A row that is known is somebody's; one that was consumed never opens again.
RowsAreHers ==
  /\ \A l \in Links : row[l].state # "unsent" => row[l].account # None
  /\ \A l \in Rows : row[l].mailed => row[l].state # "unsent"
  /\ \A b \in Browsers :
       LET f == cookie[b].flow IN
       f # None => row[f].state # "unsent" /\ cookie[b].shared = row[f].shared

\* What an opening request carries is what its row said, while that row is live.
JobsCarryTheAnswer ==
  \A r \in Requests : pc[r] \in OpeningPCs =>
    LET j == job[r] IN
    /\ j.origin # None /\ j.account # None
    /\ row[j.origin].state # "unsent"
    /\ j.origin \in Links => row[j.origin].account = j.account
    /\ pc[r] = "opening" /\ row[j.origin].state = "live" => j.shared = row[j.origin].shared
    /\ pc[r] # "opening" => j.shared = row[j.origin].shared /\ row[j.origin].state = "gone"
    /\ j.granted => isAdmin[j.account]
    /\ pc[r] = "creating" => ~j.granted

ClosingKnowsItsSession ==
  \A r \in Requests :
    /\ pc[r] \in {"leaving", "left", "signedOut", "counting", "counted", "revoked"} =>
         job[r].session # None /\ job[r].session \in Opened
    /\ pc[r] \in {"counted", "revoked", "everywhere"} => job[r].listed \subseteq Opened
    /\ pc[r] \in {"counted", "revoked"} =>
         \A s \in job[r].listed : session[s].account = job[r].account /\ s # job[r].session

\* A session keeps what it was opened with; an Admin's shows both factors.
SessionsAreExplained ==
  \A s \in Opened :
    LET o == session[s] IN
    /\ o.origin # None
    /\ row[o.origin].state = "gone"
    /\ o.method = "link_totp" =>
         /\ o.origin \in Links
         /\ row[o.origin].account = o.account
         /\ o.token # None
         /\ owner[o.token] = o.account
         /\ cli[o.token] = "enrolled"
    /\ o.method # "link_totp" => o.token = None /\ o.code = None

ChallengesAreEarned ==
  \A l \in challenges : row[l].state = "gone"

\* A factor is the Account's own enrolment, and there is none without the grant.
FactorsAreEnrolled ==
  /\ \A t \in Tokens : cli[t] # "away" => owner[t] # None
  /\ \A a \in Accounts :
       factor[a] # None => owner[factor[a].token] = a /\ cli[factor[a].token] = "enrolled"

CodesAreRead ==
  \A v \in Verifiers : vpc[v] # "idle" =>
    /\ vjob[v].link # None /\ vjob[v].token # None /\ vjob[v].code # None
    /\ row[vjob[v].link].state = "gone"
    /\ vpc[v] \in {"matched", "accepted"} =>
         owner[vjob[v].token] = AccountOf(v) /\ cli[vjob[v].token] = "enrolled"
    /\ vpc[v] = "matched" => vjob[v].code \in vjob[v].read

\* A spent code is in no factor, and is spent once.
CodesAreSpentOnce ==
  \A t \in Tokens, c \in Codes :
    /\ (\E s \in SessionIds : SpentBySession(s, t, c)) \/ (\E v \in Verifiers : SpentByRequest(v, t, c)) =>
         \A a \in Accounts : factor[a] # None /\ factor[a].token = t => c \notin factor[a].codes
    /\ \A s, o \in SessionIds : SpentBySession(s, t, c) /\ SpentBySession(o, t, c) => s = o
    /\ \A v, w \in Verifiers : SpentByRequest(v, t, c) /\ SpentByRequest(w, t, c) => v = w
    /\ \A s \in SessionIds, v \in Verifiers : ~(SpentBySession(s, t, c) /\ SpentByRequest(v, t, c))

\* A consumed row is one request's until its session is open or its door refused, and
\* it is no challenge while it is.
Holds(r, l) == pc[r] \in {"consumed", "creating"} /\ job[r].origin = l
Earned(l) == l \in challenges \/ \E v \in Verifiers : vpc[v] # "idle" /\ vjob[v].link = l

RowsAreHeldOnce ==
  \A r \in Requests, l \in Rows : Holds(r, l) =>
    /\ \A q \in Requests : Holds(q, l) => q = r
    /\ ~Earned(l)

SignInInv ==
  /\ SignInTypeOK
  /\ RowsAreHers /\ JobsCarryTheAnswer /\ ClosingKnowsItsSession
  /\ SessionsAreExplained /\ ChallengesAreEarned
  /\ FactorsAreEnrolled /\ CodesAreRead /\ CodesAreSpentOnce /\ RowsAreHeldOnce
  /\ AnswerReachesSession /\ AdminsHaveOneDoor
  /\ SignOutIsTrue /\ SignedOutEverywhereIsTrue
-----------------------------------------------------------------------------
(* The promise.  A row is good while it is live, or while the one request    *)
(* that consumed it has not opened a session yet; earned while its challenge, *)
(* or a code submitted to it, is in flight.  A code may open a session while  *)
(* a factor holds it, or the request that spent it does.                      *)

Standing(l) ==
  IF row[l].state = "unsent" THEN "unasked"
  ELSE IF row[l].state = "live" \/ \E r \in Requests : Holds(r, l) THEN "good"
  ELSE IF Earned(l) THEN "earned"
  ELSE "used"
Standings == [l \in Rows |-> Standing(l)]
SharedAnswers == [l \in Rows |-> row[l].shared]
AskedBy == [l \in Links |-> row[l].account]

EnrolledFor == [t \in Tokens |-> IF cli[t] = "enrolled" THEN owner[t] ELSE None]

MayOpen(t, c) ==
  \/ \E a \in Accounts : factor[a] # None /\ factor[a].token = t /\ c \in factor[a].codes
  \/ \E v \in Verifiers : SpentByRequest(v, t, c)
UsableCodes == [t \in Tokens |-> {c \in Codes : MayOpen(t, c)}]

AsOpened(s) ==
  [state |-> IF session[s].state \in {"expired", "gone"} THEN "closed" ELSE session[s].state,
   account |-> session[s].account, method |-> session[s].method, life |-> session[s].life,
   origin |-> session[s].origin, token |-> session[s].token, code |-> session[s].code]
OpenedSessions == [s \in SessionIds |-> AsOpened(s)]

Promise == INSTANCE SignInPromise WITH
  granted <- isAdmin, proof <- Standings, shared <- SharedAnswers, asker <- AskedBy,
  enrolled <- EnrolledFor, codes <- UsableCodes, opened <- OpenedSessions

\* Hooks that run between other requests' steps, a code swapped into its list and the
\* session it opens a statement later, and requests that die in between amount to what
\* SignInPromise says in one step each (auth/config.ts:829-1039, admin/door.ts:136-184,
\* auth/admin-door.ts:181-224).
SignInPromiseSpec == Promise!Spec
=============================================================================
