------------------------------ MODULE SignIn_proofs ------------------------------
(***************************************************************************)
(* SignInInv is an invariant of AdminDoor, for any Accounts, links, flows,   *)
(* browsers, sessions, setup links, codes and requests in flight.           *)
(***************************************************************************)
EXTENDS AdminDoorInvariant, TLAPS

-----------------------------------------------------------------------------
(* Types *)

LEMMA SignInInitInv == Init => SignInInv
<1> SUFFICES ASSUME Init PROVE SignInInv
  OBVIOUS
<1> USE DEF Init, SessionsInit
<1>1. SignInTypeOK
  <2>1. NoRow \in RowRecords /\ NoCookie \in Cookies
    BY DEF NoRow, RowRecords, RowStates, NoCookie, Cookies
  <2>2. NoSession \in SessionRecords
    BY DEF NoSession, SessionRecords
  <2>3. NoJob \in Jobs /\ NoVerify \in VerifyJobs
    BY DEF NoJob, Jobs, NoVerify, VerifyJobs
  <2>4. "idle" \in PCs
    BY DEF PCs
  <2> QED BY <2>1, <2>2, <2>3, <2>4 DEF SignInTypeOK
<1>2. Opened = {} /\ \A s \in SessionIds : session[s].token = None
  BY DEF Opened, NoSession
<1>3. RowsAreHers
  BY DEF RowsAreHers, NoRow, NoCookie, Rows
<1>4. JobsCarryTheAnswer /\ ClosingKnowsItsSession
  BY DEF JobsCarryTheAnswer, ClosingKnowsItsSession, OpeningPCs
<1>5. SessionsAreExplained /\ ChallengesAreEarned /\ FactorsAreEnrolled /\ CodesAreRead
  BY <1>2 DEF SessionsAreExplained, ChallengesAreEarned, FactorsAreEnrolled, CodesAreRead
<1>6. CodesAreSpentOnce
  BY <1>2 DEF CodesAreSpentOnce, SpentBySession, SpentByRequest
<1>6a. RowsAreHeldOnce
  BY DEF RowsAreHeldOnce, Holds
<1>7. AnswerReachesSession /\ AdminsHaveOneDoor /\ SignOutIsTrue /\ SignedOutEverywhereIsTrue
  BY <1>2 DEF AnswerReachesSession, AdminsHaveOneDoor, SignOutIsTrue, SignedOutEverywhereIsTrue
<1> QED BY <1>1, <1>3, <1>4, <1>5, <1>6, <1>6a, <1>7 DEF SignInInv

LEMMA NoJobIsAJob == NoJob \in Jobs
BY DEF NoJob, Jobs

LEMMA SweptKeeps ==
  ASSUME row \in [Rows -> RowRecords]
  PROVE  /\ Swept \in [Rows -> RowRecords]
         /\ \A l \in Rows :
              /\ Swept[l].account = row[l].account /\ Swept[l].shared = row[l].shared
              /\ Swept[l].mailed = row[l].mailed
              /\ Swept[l].state = row[l].state \/ (row[l].state = "expired" /\ Swept[l].state = "gone")
<1>1. ASSUME NEW l \in Rows PROVE
        LET gone == [row[l] EXCEPT !.state = "gone"] IN
        /\ gone \in RowRecords
        /\ gone.account = row[l].account /\ gone.shared = row[l].shared
        /\ gone.mailed = row[l].mailed /\ gone.state = "gone"
  BY DEF RowRecords, RowStates
<1> QED BY <1>1 DEF Swept

\* The records a step may write.
LEMMA OpeningJobIsAJob ==
  ASSUME SignInTypeOK, NEW l \in Rows, NEW a \in Accounts, NEW shared \in BOOLEAN
  PROVE  OpeningJob(l, a, shared) \in Jobs
<1>1. isAdmin[a] \in BOOLEAN
  BY DEF SignInTypeOK
<1> QED BY <1>1 DEF OpeningJob, Jobs

LEMMA JobNaming ==
  ASSUME NEW s \in SessionIds \cup {None}, NEW a \in Accounts \cup {None}
  PROVE  LET j == [NoJob EXCEPT !.session = s, !.account = a]
             k == [NoJob EXCEPT !.session = s]
             i == [NoJob EXCEPT !.account = a]
         IN
         /\ j \in Jobs /\ j.session = s /\ j.account = a /\ j.listed = {}
         /\ k \in Jobs /\ k.session = s /\ k.listed = {}
         /\ i \in Jobs /\ i.account = a /\ i.listed = {}
BY DEF NoJob, Jobs

LEMMA RowUpdated ==
  ASSUME NEW v \in RowRecords, NEW state \in RowStates, NEW a \in Accounts \cup {None}
  PROVE  LET u == [v EXCEPT !.state = state, !.account = a]
             e == [v EXCEPT !.state = state]
             m == [v EXCEPT !.mailed = TRUE]
         IN
         /\ u \in RowRecords /\ u.state = state /\ u.account = a /\ u.shared = v.shared /\ u.mailed = v.mailed
         /\ e \in RowRecords /\ e.state = state /\ e.account = v.account /\ e.shared = v.shared /\ e.mailed = v.mailed
         /\ m \in RowRecords /\ m.state = v.state /\ m.account = v.account /\ m.shared = v.shared
BY DEF RowRecords

LEMMA NewSession ==
  ASSUME SignInTypeOK, NEW a \in Accounts \cup {None}, NEW method \in Methods, NEW shared \in BOOLEAN,
         NEW origin \in Rows \cup {None}, NEW granted \in BOOLEAN,
         NEW token \in Tokens \cup {None}, NEW code \in Typed \cup {None}
  PROVE  [state |-> "live", account |-> a, method |-> method, life |-> LifeOf(method, shared),
          origin |-> origin, granted |-> granted, token |-> token, code |-> code] \in SessionRecords
<1>1. LifeOf(method, shared) \in Lives
  BY DEF LifeOf, Lives
<1> QED BY <1>1 DEF SessionRecords

LEMMA SessionClosed ==
  ASSUME NEW v \in SessionRecords, NEW state \in {"gone", "expired"}
  PROVE  LET u == [v EXCEPT !.state = state] IN
         /\ u \in SessionRecords /\ u.state = state /\ u.account = v.account /\ u.method = v.method
         /\ u.life = v.life /\ u.origin = v.origin /\ u.granted = v.granted
         /\ u.token = v.token /\ u.code = v.code
BY DEF SessionRecords

\* Opening and closing, as they change the session rows.
SameSession(s) ==
  /\ session'[s].account = session[s].account /\ session'[s].method = session[s].method
  /\ session'[s].life = session[s].life /\ session'[s].origin = session[s].origin
  /\ session'[s].granted = session[s].granted
  /\ session'[s].token = session[s].token /\ session'[s].code = session[s].code

LEMMA Closed ==
  ASSUME SignInTypeOK, NEW gone, Close(gone)
  PROVE  /\ session' \in [SessionIds -> SessionRecords]
         /\ \A s \in SessionIds :
              SameSession(s) /\ session'[s].state = IF s \in gone THEN "gone" ELSE session[s].state
<1>1. ASSUME NEW s \in SessionIds
      PROVE  LET u == [session[s] EXCEPT !.state = "gone"] IN
             /\ u \in SessionRecords /\ u.state = "gone" /\ u.account = session[s].account
             /\ u.method = session[s].method /\ u.life = session[s].life /\ u.origin = session[s].origin
             /\ u.granted = session[s].granted /\ u.token = session[s].token /\ u.code = session[s].code
  <2>1. session[s] \in SessionRecords
    BY DEF SignInTypeOK
  <2> QED BY <2>1, SessionClosed
<1>2. ASSUME NEW s \in SessionIds, s \in gone
      PROVE  session'[s] \in SessionRecords /\ SameSession(s) /\ session'[s].state = "gone"
  BY <1>1, <1>2 DEF Close, SameSession
<1>3. ASSUME NEW s \in SessionIds, s \notin gone
      PROVE  session'[s] \in SessionRecords /\ SameSession(s) /\ session'[s].state = session[s].state
  <2>1. session'[s] = session[s]
    BY <1>3 DEF Close
  <2> QED BY <2>1 DEF SameSession, SignInTypeOK
<1>4. session' = [s \in SessionIds |-> session'[s]]
  BY DEF Close
<1> QED BY <1>2, <1>3, <1>4

LEMMA Inserted ==
  ASSUME SignInTypeOK, NEW s \in SessionIds, NEW a \in Accounts, NEW method \in Methods, NEW j,
         j.shared \in BOOLEAN, j.origin \in Rows \cup {None}, j.granted \in BOOLEAN,
         NEW token \in Tokens \cup {None}, NEW code \in Typed \cup {None},
         InsertSession(s, a, method, j, token, code)
  PROVE  /\ session' \in [SessionIds -> SessionRecords]
         /\ session[s].state = "unused"
         /\ session'[s].state = "live" /\ session'[s].account = a /\ session'[s].method = method
         /\ session'[s].life = LifeOf(method, j.shared) /\ session'[s].origin = j.origin
         /\ session'[s].granted = j.granted /\ session'[s].token = token /\ session'[s].code = code
         /\ \A o \in SessionIds \ {s} : session'[o] = session[o]
<1> DEFINE new == [state |-> "live", account |-> a, method |-> method, life |-> LifeOf(method, j.shared),
                   origin |-> j.origin, granted |-> j.granted, token |-> token, code |-> code]
<1>1. new \in SessionRecords
  BY NewSession
<1>2. /\ new.state = "live" /\ new.account = a /\ new.method = method
      /\ new.life = LifeOf(method, j.shared) /\ new.origin = j.origin
      /\ new.granted = j.granted /\ new.token = token /\ new.code = code
  OBVIOUS
<1>3. session[s].state = "unused" /\ session' = [session EXCEPT ![s] = new]
  BY DEF InsertSession
<1> HIDE DEF new
<1>4. /\ session' \in [SessionIds -> SessionRecords] /\ session'[s] = new
      /\ \A o \in SessionIds \ {s} : session'[o] = session[o]
  BY <1>1, <1>3 DEF SignInTypeOK
<1> QED BY <1>2, <1>3, <1>4, Zenon

-----------------------------------------------------------------------------
(* Who a request is *)

LEMMA OpeningIsSomebodys ==
  ASSUME SignInInv, NEW r \in Requests, pc[r] \in OpeningPCs
  PROVE  /\ job[r].origin \in Rows /\ job[r].account \in Accounts
         /\ job[r].shared \in BOOLEAN /\ job[r].granted \in BOOLEAN
         /\ MethodOf(job[r].origin) \in {"magic_link", "google"}
<1>1. job[r] \in Jobs /\ job[r].origin # None /\ job[r].account # None
  BY DEF SignInInv, SignInTypeOK, JobsCarryTheAnswer
<1> QED BY <1>1 DEF Jobs, MethodOf

LEMMA LinkIsSomebodys ==
  ASSUME SignInInv, NEW l \in Links, row[l].state # "unsent"
  PROVE  l \in Rows /\ row[l].account \in Accounts
<1>1. l \in Rows /\ row[l] \in RowRecords /\ row[l].account # None
  BY DEF SignInInv, SignInTypeOK, RowsAreHers, Rows
<1> QED BY <1>1 DEF RowRecords

LEMMA CodeIsSomebodys ==
  ASSUME SignInInv, NEW v \in Verifiers, vpc[v] # "idle"
  PROVE  /\ vjob[v].link \in Links /\ vjob[v].link \in Rows /\ AccountOf(v) \in Accounts
         /\ vjob[v].token \in Tokens /\ vjob[v].code \in Typed \cup {None} /\ vjob[v].read \subseteq Codes
         /\ row[vjob[v].link].state = "gone"
<1>1. /\ vjob[v] \in VerifyJobs /\ vjob[v].link # None /\ vjob[v].token # None
      /\ row[vjob[v].link].state = "gone"
  BY DEF SignInInv, SignInTypeOK, CodesAreRead
<1>2. vjob[v].link \in Links /\ vjob[v].token \in Tokens /\ vjob[v].code \in Typed \cup {None} /\ vjob[v].read \subseteq Codes
  BY <1>1 DEF VerifyJobs
<1> QED BY <1>1, <1>2, LinkIsSomebodys DEF AccountOf

LEMMA TokenIsSomebodys ==
  ASSUME SignInInv, NEW t \in Tokens, cli[t] # "away"
  PROVE  owner[t] \in Accounts
BY DEF SignInInv, SignInTypeOK, FactorsAreEnrolled

LEMMA FactorIsAFactor ==
  ASSUME SignInTypeOK, NEW a \in Accounts, factor[a] # None
  PROVE  factor[a] \in Factors /\ factor[a].token \in Tokens /\ factor[a].codes \subseteq Codes
BY DEF SignInTypeOK, Factors

\* What the session opened by a code carries.
LEMMA AdminSessionInserted ==
  ASSUME SignInInv, NEW v \in Verifiers, NEW s \in SessionIds, OpenAdminSession(v, s)
  PROVE  /\ session' \in [SessionIds -> SessionRecords]
         /\ session[s].state = "unused"
         /\ session'[s].state = "live" /\ session'[s].account = AccountOf(v)
         /\ session'[s].method = "link_totp" /\ session'[s].life = "admin"
         /\ session'[s].origin = vjob[v].link
         /\ session'[s].token = vjob[v].token /\ session'[s].code = vjob[v].code
         /\ \A o \in SessionIds \ {s} : session'[o] = session[o]
<1> DEFINE carried == [origin |-> vjob[v].link, shared |-> FALSE, granted |-> isAdmin[AccountOf(v)]]
<1>1. vpc[v] # "idle" /\ SignInTypeOK
  BY DEF OpenAdminSession, SignInInv
<1>2. /\ AccountOf(v) \in Accounts /\ vjob[v].link \in Rows
      /\ vjob[v].token \in Tokens /\ vjob[v].code \in Typed \cup {None}
  BY <1>1, CodeIsSomebodys
<1>3. isAdmin[AccountOf(v)] \in BOOLEAN
  BY <1>1, <1>2 DEF SignInTypeOK
<1>4. carried.shared \in BOOLEAN /\ carried.origin \in Rows \cup {None} /\ carried.granted \in BOOLEAN
      /\ carried.origin = vjob[v].link
  BY <1>2, <1>3
<1>5. InsertSession(s, AccountOf(v), "link_totp", carried, vjob[v].token, vjob[v].code)
  BY DEF OpenAdminSession
<1>6. "link_totp" \in Methods /\ LifeOf("link_totp", carried.shared) = "admin"
  BY DEF Methods, LifeOf
<1> HIDE DEF carried
<1>7. /\ session' \in [SessionIds -> SessionRecords]
      /\ session[s].state = "unused"
      /\ session'[s].state = "live" /\ session'[s].account = AccountOf(v) /\ session'[s].method = "link_totp"
      /\ session'[s].life = LifeOf("link_totp", carried.shared) /\ session'[s].origin = carried.origin
      /\ session'[s].token = vjob[v].token /\ session'[s].code = vjob[v].code
      /\ \A o \in SessionIds \ {s} : session'[o] = session[o]
  BY <1>1, <1>2, <1>4, <1>5, <1>6, Inserted
<1> QED BY <1>4, <1>6, <1>7

\* And by a link or by Google.
LEMMA PublicSessionInserted ==
  ASSUME SignInInv, NEW r \in Requests, NEW s \in SessionIds, CreateSession(r, s)
  PROVE  /\ session' \in [SessionIds -> SessionRecords]
         /\ session[s].state = "unused"
         /\ session'[s].state = "live" /\ session'[s].account = job[r].account
         /\ session'[s].method = MethodOf(job[r].origin) /\ session'[s].method # "link_totp"
         /\ session'[s].life = LifeOf(MethodOf(job[r].origin), job[r].shared)
         /\ session'[s].origin = job[r].origin /\ session'[s].granted = job[r].granted
         /\ session'[s].token = None /\ session'[s].code = None
         /\ \A o \in SessionIds \ {s} : session'[o] = session[o]
<1>1. pc[r] \in OpeningPCs /\ SignInTypeOK
  BY DEF CreateSession, OpeningPCs, SignInInv
<1>2. /\ job[r].origin \in Rows /\ job[r].account \in Accounts
      /\ job[r].shared \in BOOLEAN /\ job[r].granted \in BOOLEAN
      /\ MethodOf(job[r].origin) \in {"magic_link", "google"}
  BY <1>1, OpeningIsSomebodys
<1> DEFINE j == job[r]
           method == MethodOf(job[r].origin)
           token == None
           code == None
<1>3. InsertSession(s, j.account, method, j, token, code)
  BY DEF CreateSession
<1>4. method \in Methods /\ j.origin \in Rows \cup {None}
  BY <1>2 DEF Methods
<1>5. token \in Tokens \cup {None} /\ code \in Typed \cup {None}
  OBVIOUS
<1>6. j.account \in Accounts /\ j.shared \in BOOLEAN /\ j.granted \in BOOLEAN
  BY <1>2
<1> HIDE DEF j, method, token, code
<1>7. /\ session' \in [SessionIds -> SessionRecords]
      /\ session[s].state = "unused"
      /\ session'[s].state = "live" /\ session'[s].account = j.account
      /\ session'[s].method = method
      /\ session'[s].life = LifeOf(method, j.shared)
      /\ session'[s].origin = j.origin /\ session'[s].granted = j.granted
      /\ session'[s].token = token /\ session'[s].code = code
      /\ \A o \in SessionIds \ {s} : session'[o] = session[o]
  BY <1>1, <1>3, <1>4, <1>5, <1>6, Inserted
<1> QED BY <1>2, <1>7 DEF j, method, token, code

-----------------------------------------------------------------------------
(* Every step keeps the types *)

LEMMA PublicTypeStep == SignInInv /\ SessionsNext /\ UNCHANGED doorVars => SignInTypeOK'
<1> SUFFICES ASSUME SignInInv, SessionsNext, UNCHANGED doorVars PROVE SignInTypeOK'
  OBVIOUS
<1>0. SignInTypeOK
  BY DEF SignInInv
<1>a. /\ enrolment' \in [Accounts -> Tokens \cup {None}]
      /\ lapsed' \subseteq Tokens
      /\ cli' \in [Tokens -> {"away", "printed", "claimed", "enrolled", "quit"}]
      /\ owner' \in [Tokens -> Accounts \cup {None}]
      /\ newest' \in [Accounts -> Tokens \cup {None}]
      /\ factor' \in [Accounts -> Factors \cup {None}]
      /\ vpc' \in [Verifiers -> {"idle", "submitted", "matched", "accepted"}]
      /\ vjob' \in [Verifiers -> VerifyJobs]
      /\ \A v \in Verifiers : vpc'[v] = "idle" => vjob'[v] = NoVerify
  BY <1>0 DEF SignInTypeOK, doorVars, enrolVars
<1> DEFINE Rest == /\ isAdmin' \in [Accounts -> BOOLEAN] /\ row' \in [Rows -> RowRecords]
                   /\ cookie' \in [Browsers -> Cookies] /\ challenges' \subseteq Links
                   /\ session' \in [SessionIds -> SessionRecords]
                   /\ pc' \in [Requests -> PCs] /\ job' \in [Requests -> Jobs]
<1>b. /\ isAdmin \in [Accounts -> BOOLEAN] /\ row \in [Rows -> RowRecords]
      /\ cookie \in [Browsers -> Cookies] /\ challenges \subseteq Links
      /\ session \in [SessionIds -> SessionRecords]
      /\ pc \in [Requests -> PCs] /\ job \in [Requests -> Jobs]
  BY <1>0 DEF SignInTypeOK
<1> USE DEF PCs, OpeningPCs, ClosingPCs
<1>c. ASSUME NEW r \in Requests, NEW to \in PCs, Goto(r, to) PROVE pc' \in [Requests -> PCs]
  BY <1>b, <1>c DEF Goto
<1>d. ASSUME NEW r \in Requests, NEW j \in Jobs, Carry(r, j) PROVE job' \in [Requests -> Jobs]
  BY <1>b, <1>d DEF Carry
<1>e. ASSUME NEW r \in Requests, Finish(r) PROVE pc' \in [Requests -> PCs] /\ job' \in [Requests -> Jobs]
  BY <1>b, <1>e, NoJobIsAJob DEF Finish, Goto, Carry
<1>1. ASSUME NEW l \in Links, NEW a \in Accounts, NEW shared \in BOOLEAN, StoreLink(l, a, shared) PROVE Rest
  <2>1. [state |-> "live", account |-> a, shared |-> shared, mailed |-> FALSE] \in RowRecords
    BY DEF RowRecords, RowStates
  <2> QED BY <1>b, <1>1, <2>1 DEF StoreLink
<1>2. ASSUME NEW l \in Links, MailLink(l) PROVE Rest
  <2>1. l \in Rows /\ Swept \in [Rows -> RowRecords]
    BY <1>b, SweptKeeps DEF Rows
  <2>2. Swept[l] \in RowRecords
    BY <2>1
  <2>3. [Swept[l] EXCEPT !.mailed = TRUE] \in RowRecords
    BY <2>2 DEF RowRecords
  <2>4. row' = [Swept EXCEPT ![l] = [Swept[l] EXCEPT !.mailed = TRUE]]
    BY <1>2 DEF MailLink
  <2>5. row' \in [Rows -> RowRecords]
    BY <2>1, <2>3, <2>4
  <2> QED BY <1>b, <1>2, <2>5 DEF MailLink
<1>3. ASSUME NEW f \in Flows, NEW b \in Browsers, NEW shared \in BOOLEAN, StartGoogle(f, b, shared) PROVE Rest
  <2>1. [state |-> "live", account |-> None, shared |-> shared, mailed |-> FALSE] \in RowRecords
    BY DEF RowRecords, RowStates
  <2>2. Swept \in [Rows -> RowRecords]
    BY <1>b, SweptKeeps
  <2>3. [flow |-> f, shared |-> shared] \in Cookies
    BY DEF Cookies
  <2>4. row' \in [Rows -> RowRecords] /\ cookie' \in [Browsers -> Cookies]
    BY <1>b, <1>3, <2>1, <2>2, <2>3 DEF StartGoogle
  <2> QED BY <1>b, <1>3, <2>4 DEF StartGoogle
<1>4. ASSUME NEW l \in Rows, ExpireRow(l) PROVE Rest
  <2>1. [row[l] EXCEPT !.state = "expired"] \in RowRecords
    BY <1>b DEF RowRecords, RowStates
  <2> QED BY <1>b, <1>4, <2>1 DEF ExpireRow
<1>5. ASSUME NEW r \in Requests, NEW l \in Links, OpenLink(r, l) PROVE Rest
  <2>1. l \in Rows /\ row[l].account \in Accounts
    BY <1>5, LinkIsSomebodys DEF OpenLink, SignInInv, RowsAreHers, Rows
  <2>2. AnswerOf(l) \in BOOLEAN
    BY <1>b, <2>1 DEF AnswerOf, RowRecords
  <2>3. OpeningJob(l, row[l].account, AnswerOf(l)) \in Jobs
    BY <1>0, <2>1, <2>2, OpeningJobIsAJob
  <2>4. pc' \in [Requests -> PCs] /\ job' \in [Requests -> Jobs]
    BY <1>c, <1>d, <1>5, <2>3 DEF OpenLink
  <2> QED BY <1>b, <1>5, <2>4 DEF OpenLink
<1>6. ASSUME NEW r \in Requests, NEW b \in Browsers, NEW a \in Accounts, GoogleCallback(r, b, a) PROVE Rest
  <2>1. cookie[b].flow \in Rows /\ cookie[b].shared \in BOOLEAN
    BY <1>b, <1>6 DEF GoogleCallback, Cookies, Rows
  <2>2. OpeningJob(cookie[b].flow, a, cookie[b].shared) \in Jobs
    BY <1>0, <2>1, OpeningJobIsAJob
  <2>3. pc' \in [Requests -> PCs] /\ job' \in [Requests -> Jobs]
    BY <1>c, <1>d, <1>6, <2>2 DEF GoogleCallback
  <2> QED BY <1>b, <1>6, <2>3 DEF GoogleCallback
<1>7. ASSUME NEW r \in Requests, Consume(r) PROVE Rest
  <2>1. job[r].origin \in Rows /\ job[r].account \in Accounts
    BY <1>7, OpeningIsSomebodys DEF Consume
  <2>2. [row[job[r].origin] EXCEPT !.state = "gone", !.account = job[r].account] \in RowRecords
    <3>1. row[job[r].origin] \in RowRecords /\ "gone" \in RowStates /\ job[r].account \in Accounts \cup {None}
      BY <1>b, <2>1 DEF RowStates
    <3> QED BY <3>1, RowUpdated
  <2>3. row' = [row EXCEPT ![job[r].origin] =
                  [row[job[r].origin] EXCEPT !.state = "gone", !.account = job[r].account]]
    BY <1>7 DEF Consume
  <2>4. row' \in [Rows -> RowRecords]
    BY <1>b, <2>1, <2>2, <2>3
  <2>5. pc' \in [Requests -> PCs]
    BY <1>c, <1>7 DEF Consume
  <2> QED BY <1>b, <1>7, <2>4, <2>5 DEF Consume
<1>8. ASSUME NEW r \in Requests, PassTheDoor(r) PROVE Rest
  BY <1>b, <1>8, <1>c DEF PassTheDoor
<1>9. ASSUME NEW r \in Requests, RefuseTheDoor(r) PROVE Rest
  <2>1. challenges' \subseteq Links
    BY <1>b, <1>9 DEF RefuseTheDoor
  <2> QED BY <1>b, <1>e, <1>9, <2>1 DEF RefuseTheDoor
<1>10. ASSUME NEW r \in Requests, NEW s \in SessionIds, CreateSession(r, s) PROVE Rest
  <2>1. session' \in [SessionIds -> SessionRecords]
    BY <1>10, PublicSessionInserted
  <2> QED BY <1>b, <1>e, <1>10, <2>1 DEF CreateSession
<1>11. ASSUME NEW r \in Requests, NEW s \in SessionIds, SignOut(r, s) PROVE Rest
  <2>1. [NoJob EXCEPT !.session = s] \in Jobs
    BY DEF NoJob, Jobs
  <2> QED BY <1>b, <1>c, <1>d, <1>11, <2>1 DEF SignOut
<1>12. ASSUME NEW r \in Requests, LibrarySignOut(r) PROVE Rest
  <2>1. session' \in [SessionIds -> SessionRecords]
    BY <1>0, <1>12, Closed DEF LibrarySignOut
  <2> QED BY <1>b, <1>c, <1>12, <2>1 DEF LibrarySignOut
<1>13. ASSUME NEW r \in Requests, ConfirmSignOut(r) \/ CountAfter(r) PROVE Rest
  BY <1>b, <1>13, <1>c DEF ConfirmSignOut, CountAfter
<1>14. ASSUME NEW r \in Requests, NEW s \in SessionIds, SignOutEverywhere(r, s) PROVE Rest
  <2>1. session[s].account \in Accounts \cup {None}
    BY <1>b DEF SessionRecords
  <2>2. [NoJob EXCEPT !.session = s, !.account = session[s].account] \in Jobs
    BY <2>1 DEF NoJob, Jobs
  <2> QED BY <1>b, <1>c, <1>d, <1>14, <2>2 DEF SignOutEverywhere
<1>15. ASSUME NEW r \in Requests, CountBefore(r) PROVE Rest
  <2>1. OthersOf(job[r].account, job[r].session) \subseteq SessionIds
    BY DEF OthersOf
  <2>2. [job[r] EXCEPT !.listed = OthersOf(job[r].account, job[r].session)] \in Jobs
    BY <1>b, <2>1 DEF Jobs
  <2> QED BY <1>b, <1>c, <1>d, <1>15, <2>2 DEF CountBefore
<1>16. ASSUME NEW r \in Requests, RevokeOtherSessions(r) PROVE Rest
  <2>1. session' \in [SessionIds -> SessionRecords]
    BY <1>0, <1>16, Closed DEF RevokeOtherSessions
  <2> QED BY <1>b, <1>c, <1>16, <2>1 DEF RevokeOtherSessions
<1>17. ASSUME NEW s \in SessionIds, ExpireSession(s) PROVE Rest
  <2>1. [session[s] EXCEPT !.state = "expired"] \in SessionRecords
    BY <1>b DEF SessionRecords
  <2> QED BY <1>b, <1>17, <2>1 DEF ExpireSession
<1>18. ASSUME NEW r \in Requests, Leave(r) PROVE Rest
  BY <1>b, <1>e, <1>18 DEF Leave
<1>19. ASSUME NEW r \in Requests, NEW s \in SessionIds, NEW a \in Accounts, AuthoriseRevoke(r, s, a) PROVE Rest
  <2>1. [NoJob EXCEPT !.account = a] \in Jobs
    BY DEF NoJob, Jobs
  <2> QED BY <1>b, <1>c, <1>d, <1>19, <2>1 DEF AuthoriseRevoke
<1>20. ASSUME NEW r \in Requests, RevokeSessions(r) PROVE Rest
  <2>1. session' \in [SessionIds -> SessionRecords]
    BY <1>0, <1>20, Closed DEF RevokeSessions
  <2> QED BY <1>b, <1>e, <1>20, <2>1 DEF RevokeSessions
<1>21. Rest
  BY <1>1, <1>2, <1>3, <1>4, <1>5, <1>6, <1>7, <1>8, <1>9, <1>10, <1>11, <1>12, <1>13, <1>14, <1>15,
     <1>16, <1>17, <1>18, <1>19, <1>20
  DEF SessionsNext, Ask, Open, CloseOne, CloseMany
<1> QED BY <1>a, <1>21 DEF SignInTypeOK

LEMMA DoorTypeStep ==
  SignInInv /\ ((\E t \in Tokens : Enrol(t)) \/ (\E l \in Links : ExpireChallenge(l)) \/ (\E v \in Verifiers : Verify(v)))
    => SignInTypeOK'
<1> SUFFICES ASSUME SignInInv,
                    \/ \E t \in Tokens : Enrol(t)
                    \/ \E l \in Links : ExpireChallenge(l)
                    \/ \E v \in Verifiers : Verify(v)
    PROVE SignInTypeOK'
  OBVIOUS
<1>0. SignInTypeOK
  BY DEF SignInInv
<1> USE DEF SignInTypeOK, sessionVars, enrolVars, doorVars
<1>1. ASSUME NEW t \in Tokens, NEW a \in Accounts, Mint(t, a) PROVE SignInTypeOK'
  BY <1>0, <1>1 DEF Mint
<1>2. ASSUME NEW t \in Tokens, ExpireEnrolment(t) PROVE SignInTypeOK'
  BY <1>0, <1>2 DEF ExpireEnrolment
<1>3. ASSUME NEW t \in Tokens, Claim(t) \/ Quit(t) PROVE SignInTypeOK'
  BY <1>0, <1>3 DEF Claim, Quit
<1>4. ASSUME NEW t \in Tokens, Install(t) PROVE SignInTypeOK'
  <2>1. owner[t] \in Accounts
    BY <1>4, TokenIsSomebodys DEF Install
  <2>2. [token |-> t, codes |-> Codes] \in Factors
    BY DEF Factors
  <2>3. factor' \in [Accounts -> Factors \cup {None}] /\ isAdmin' \in [Accounts -> BOOLEAN]
    BY <1>0, <1>4, <2>1, <2>2 DEF Install
  <2>4. enrolment' \in [Accounts -> Tokens \cup {None}]
    BY <1>0, <1>4, <2>1 DEF Install
  <2>5. cli' \in [Tokens -> {"away", "printed", "claimed", "enrolled", "quit"}]
    BY <1>0, <1>4 DEF Install
  <2> QED BY <1>0, <1>4, <2>3, <2>4, <2>5 DEF Install
<1>5. ASSUME NEW l \in Links, ExpireChallenge(l) PROVE SignInTypeOK'
  BY <1>0, <1>5 DEF ExpireChallenge
<1>6. ASSUME NEW v \in Verifiers, NEW l \in Links, NEW t \in Tokens, NEW c \in Typed, SubmitCode(v, l, t, c)
      PROVE  SignInTypeOK'
  <2>1. [link |-> l, token |-> t, code |-> c, read |-> {}] \in VerifyJobs
    BY DEF VerifyJobs
  <2>2. /\ vjob' \in [Verifiers -> VerifyJobs]
        /\ vpc' \in [Verifiers -> {"idle", "submitted", "matched", "accepted"}]
        /\ \A w \in Verifiers : vpc'[w] = "idle" => vjob'[w] = NoVerify
    BY <1>0, <1>6, <2>1 DEF SubmitCode, VGoto
  <2> QED BY <1>0, <1>6, <2>2 DEF SubmitCode
<1>7. ASSUME NEW v \in Verifiers, AcceptTotp(v) PROVE SignInTypeOK'
  BY <1>0, <1>7 DEF AcceptTotp, VGoto
<1>8. ASSUME NEW v \in Verifiers, MatchBackupCode(v) PROVE SignInTypeOK'
  <2>1. factor[AccountOf(v)].codes \subseteq Codes
    BY <1>0, <1>8, CodeIsSomebodys, FactorIsAFactor DEF MatchBackupCode, FactorTakes
  <2>2. vjob[v] \in VerifyJobs
    BY <1>0
  <2>3. [vjob[v] EXCEPT !.read = factor[AccountOf(v)].codes] \in VerifyJobs
    BY <2>1, <2>2 DEF VerifyJobs
  <2>4. /\ vjob' \in [Verifiers -> VerifyJobs]
        /\ vpc' \in [Verifiers -> {"idle", "submitted", "matched", "accepted"}]
        /\ \A w \in Verifiers : vpc'[w] = "idle" => vjob'[w] = NoVerify
    BY <1>0, <1>8, <2>3 DEF MatchBackupCode, VGoto
  <2> QED BY <1>0, <1>8, <2>4 DEF MatchBackupCode
<1>9. ASSUME NEW v \in Verifiers, SpendBackupCode(v) PROVE SignInTypeOK'
  <2> DEFINE a == AccountOf(v)
  <2>1. a \in Accounts /\ vjob[v].token \in Tokens /\ vjob[v].read \subseteq Codes
    BY <1>9, CodeIsSomebodys DEF SpendBackupCode
  <2>2. factor[a] \in Factors
    BY <2>1, <1>9 DEF SpendBackupCode, StillAsRead, Factors
  <2>3. [factor[a] EXCEPT !.codes = Remaining(v)] \in Factors
    BY <2>1, <2>2 DEF Factors, Remaining
  <2>4. factor' \in [Accounts -> Factors \cup {None}]
    BY <1>0, <1>9, <2>1, <2>3 DEF SpendBackupCode
  <2>5. /\ vpc' \in [Verifiers -> {"idle", "submitted", "matched", "accepted"}]
        /\ \A w \in Verifiers : vpc'[w] = "idle" => vjob'[w] = NoVerify
    BY <1>0, <1>9 DEF SpendBackupCode, VGoto
  <2> QED BY <1>0, <1>9, <2>4, <2>5 DEF SpendBackupCode
<1>a. NoVerify \in VerifyJobs
  BY DEF NoVerify, VerifyJobs
<1>b. ASSUME NEW v \in Verifiers, VFinish(v)
      PROVE  /\ vjob' \in [Verifiers -> VerifyJobs]
             /\ vpc' \in [Verifiers -> {"idle", "submitted", "matched", "accepted"}]
             /\ \A w \in Verifiers : vpc'[w] = "idle" => vjob'[w] = NoVerify
  BY <1>0, <1>a, <1>b DEF VFinish, VGoto
<1>10. ASSUME NEW v \in Verifiers, NEW s \in SessionIds, OpenAdminSession(v, s) PROVE SignInTypeOK'
  <2>1. session' \in [SessionIds -> SessionRecords]
    BY <1>10, AdminSessionInserted
  <2>2. challenges' \subseteq Links /\ VFinish(v)
    BY <1>0, <1>10 DEF OpenAdminSession
  <2> QED BY <1>0, <1>b, <1>10, <2>1, <2>2 DEF OpenAdminSession
<1>11. ASSUME NEW v \in Verifiers, GiveUp(v) PROVE SignInTypeOK'
  BY <1>0, <1>b, <1>11 DEF GiveUp
<1> QED BY <1>1, <1>2, <1>3, <1>4, <1>5, <1>6, <1>7, <1>8, <1>9, <1>10, <1>11 DEF Enrol, Verify

LEMMA SignInTypeStep == SignInInv /\ [Next]_vars => SignInTypeOK'
<1>1. SignInInv /\ UNCHANGED vars => SignInTypeOK'
  BY DEF SignInInv, SignInTypeOK, vars, sessionVars, doorVars, enrolVars
<1> QED BY <1>1, PublicTypeStep, DoorTypeStep DEF Next

-----------------------------------------------------------------------------
(* What no step undoes *)

\* A row keeps its answer, a link its Account, and what is gone stays gone.
RowGoesOn(l) ==
  row[l].state # "unsent" =>
    /\ row'[l].state # "unsent" /\ row'[l].shared = row[l].shared
    /\ l \in Links => row'[l].account = row[l].account
    /\ row'[l].state = "live" => row[l].state = "live"
    /\ row[l].state = "gone" => row'[l].state = "gone"

LEMMA RowsGoOn == SignInInv /\ [Next]_vars => \A l \in Rows : RowGoesOn(l)
<1> SUFFICES ASSUME SignInInv, [Next]_vars, NEW k \in Rows PROVE RowGoesOn(k)
  OBVIOUS
<1>0. SignInTypeOK /\ row \in [Rows -> RowRecords]
  BY DEF SignInInv, SignInTypeOK
<1>1. CASE UNCHANGED row
  BY <1>1 DEF RowGoesOn
<1>2. ASSUME NEW l \in Links, NEW a \in Accounts, NEW shared \in BOOLEAN, StoreLink(l, a, shared)
      PROVE  RowGoesOn(k)
  BY <1>0, <1>2 DEF StoreLink, RowGoesOn, Rows
<1>3. ASSUME NEW l \in Links, MailLink(l) PROVE RowGoesOn(k)
  <2>1. /\ Swept[k].account = row[k].account /\ Swept[k].shared = row[k].shared
        /\ Swept[k].state = row[k].state \/ (row[k].state = "expired" /\ Swept[k].state = "gone")
        /\ Swept \in [Rows -> RowRecords]
    BY <1>0, SweptKeeps
  <2>2. row' = [Swept EXCEPT ![l] = [Swept[l] EXCEPT !.mailed = TRUE]] /\ l \in Rows
    BY <1>3 DEF MailLink, Rows
  <2>3. /\ [Swept[k] EXCEPT !.mailed = TRUE].state = Swept[k].state
        /\ [Swept[k] EXCEPT !.mailed = TRUE].account = Swept[k].account
        /\ [Swept[k] EXCEPT !.mailed = TRUE].shared = Swept[k].shared
    BY <2>1 DEF RowRecords
  <2>4. /\ row'[k].state = Swept[k].state /\ row'[k].account = Swept[k].account
        /\ row'[k].shared = Swept[k].shared
    BY <2>1, <2>2, <2>3
  <2> QED BY <2>1, <2>4 DEF RowGoesOn
<1>4. ASSUME NEW f \in Flows, NEW b \in Browsers, NEW shared \in BOOLEAN, StartGoogle(f, b, shared)
      PROVE  RowGoesOn(k)
  <2>1. /\ Swept[k].account = row[k].account /\ Swept[k].shared = row[k].shared
        /\ Swept[k].state = row[k].state \/ (row[k].state = "expired" /\ Swept[k].state = "gone")
        /\ Swept \in [Rows -> RowRecords]
    BY <1>0, SweptKeeps
  <2>2. row[k].state # "unsent" => row'[k] = Swept[k]
    BY <1>4, <2>1 DEF StartGoogle
  <2> QED BY <2>1, <2>2 DEF RowGoesOn
<1>5. ASSUME NEW l \in Rows, ExpireRow(l) PROVE RowGoesOn(k)
  <2>1. /\ [row[l] EXCEPT !.state = "expired"].state = "expired"
        /\ [row[l] EXCEPT !.state = "expired"].account = row[l].account
        /\ [row[l] EXCEPT !.state = "expired"].shared = row[l].shared
    BY <1>0 DEF RowRecords
  <2>2. /\ row'[k].account = row[k].account /\ row'[k].shared = row[k].shared
        /\ row'[k].state = IF k = l THEN "expired" ELSE row[k].state
        /\ row[l].state = "live"
    BY <1>0, <1>5, <2>1 DEF ExpireRow
  <2> QED BY <2>2 DEF RowGoesOn
<1>6. ASSUME NEW r \in Requests, Consume(r) PROVE RowGoesOn(k)
  <2> DEFINE l == job[r].origin
             u == [row[l] EXCEPT !.state = "gone", !.account = job[r].account]
  <2>1. l \in Rows /\ job[r].account \in Accounts /\ row[l].state = "live" /\ row' = [row EXCEPT ![l] = u]
    BY <1>6, OpeningIsSomebodys DEF Consume, OpeningPCs
  <2>2. l \in Links => row[l].account = job[r].account
    BY <1>6 DEF Consume, OpeningPCs, SignInInv, JobsCarryTheAnswer
  <2>3. u.state = "gone" /\ u.account = job[r].account /\ u.shared = row[l].shared
    <3>1. row[l] \in RowRecords /\ "gone" \in RowStates /\ job[r].account \in Accounts \cup {None}
      BY <1>0, <2>1 DEF RowStates
    <3> HIDE DEF l
    <3> QED BY <3>1 DEF RowRecords, u
  <2> HIDE DEF u, l
  <2>4. row'[k] = IF k = l THEN u ELSE row[k]
    BY <1>0, <2>1
  <2> QED BY <2>1, <2>2, <2>3, <2>4 DEF RowGoesOn
<1> QED
  BY <1>1, <1>2, <1>3, <1>4, <1>5, <1>6
  DEF Next, SessionsNext, Ask, Open, CloseOne, CloseMany, OpenLink, GoogleCallback, PassTheDoor, RefuseTheDoor,
      CreateSession, SignOut, LibrarySignOut, ConfirmSignOut, SignOutEverywhere, CountBefore,
      RevokeOtherSessions, CountAfter, ExpireSession, Leave, AuthoriseRevoke, RevokeSessions,
      Enrol, Mint, ExpireEnrolment, Claim, Install, Quit, ExpireChallenge, Verify, SubmitCode, AcceptTotp,
      MatchBackupCode, SpendBackupCode, OpenAdminSession, GiveUp, vars, sessionVars

\* A setup link keeps its Account; who was granted, stays granted.
LEMMA EnrolmentGoesOn ==
  SignInInv /\ [Next]_vars =>
    /\ \A t \in Tokens : /\ cli[t] # "away" => cli'[t] # "away" /\ owner'[t] = owner[t]
                         /\ cli[t] = "enrolled" => cli'[t] = "enrolled"
    /\ \A a \in Accounts : isAdmin[a] => isAdmin'[a]
<1> SUFFICES ASSUME SignInInv, [Next]_vars
    PROVE /\ \A t \in Tokens : /\ cli[t] # "away" => cli'[t] # "away" /\ owner'[t] = owner[t]
                               /\ cli[t] = "enrolled" => cli'[t] = "enrolled"
          /\ \A a \in Accounts : isAdmin[a] => isAdmin'[a]
  OBVIOUS
<1> DEFINE Goal == /\ \A t \in Tokens : /\ cli[t] # "away" => cli'[t] # "away" /\ owner'[t] = owner[t]
                                        /\ cli[t] = "enrolled" => cli'[t] = "enrolled"
                   /\ \A a \in Accounts : isAdmin[a] => isAdmin'[a]
<1>0. SignInTypeOK
  BY DEF SignInInv
<1>1. CASE UNCHANGED <<isAdmin, cli, owner>>
  BY <1>1
<1>2. ASSUME NEW t \in Tokens, NEW a \in Accounts, Mint(t, a) PROVE Goal
  BY <1>0, <1>2 DEF Mint, SignInTypeOK, sessionVars
<1>3. ASSUME NEW t \in Tokens, Claim(t) \/ Quit(t) PROVE Goal
  BY <1>0, <1>3 DEF Claim, Quit, SignInTypeOK, sessionVars
<1>4. ASSUME NEW t \in Tokens, Install(t) PROVE Goal
  BY <1>0, <1>4 DEF Install, SignInTypeOK
<1> QED
  BY <1>1, <1>2, <1>3, <1>4
  DEF Next, SessionsNext, Ask, Open, CloseOne, CloseMany, StoreLink, MailLink, StartGoogle, ExpireRow, OpenLink,
      GoogleCallback, Consume, PassTheDoor, RefuseTheDoor,
      CreateSession, SignOut, LibrarySignOut, ConfirmSignOut, SignOutEverywhere, CountBefore,
      RevokeOtherSessions, CountAfter, ExpireSession, Leave, AuthoriseRevoke, RevokeSessions,
      Enrol, ExpireEnrolment, ExpireChallenge, Verify, SubmitCode, AcceptTotp,
      MatchBackupCode, SpendBackupCode, OpenAdminSession, GiveUp, vars, sessionVars, doorVars, enrolVars

\* A session that was opened keeps what it was opened with and never comes back
\* to life; only the two doors open one.
SessionGoesOn(s) ==
  /\ session[s].state # "unused" =>
       SameSession(s) /\ session'[s].state # "unused" /\ (session'[s].state = "live" => session[s].state = "live")
  /\ session[s].state = "unused" /\ session'[s].state # "unused" =>
       \/ \E r \in Requests : CreateSession(r, s)
       \/ \E v \in Verifiers : OpenAdminSession(v, s)

LEMMA SessionsGoOn == SignInInv /\ [Next]_vars => \A s \in SessionIds : SessionGoesOn(s)
<1> SUFFICES ASSUME SignInInv, [Next]_vars, NEW k \in SessionIds PROVE SessionGoesOn(k)
  OBVIOUS
<1>0. SignInTypeOK
  BY DEF SignInInv
<1>1. CASE UNCHANGED session
  BY <1>1 DEF SessionGoesOn, SameSession
<1>2. ASSUME NEW gone, gone \subseteq Opened, Close(gone) PROVE SessionGoesOn(k)
  <2>1. SameSession(k) /\ session'[k].state = IF k \in gone THEN "gone" ELSE session[k].state
    BY <1>0, <1>2, Closed
  <2>2. k \in gone => session[k].state # "unused"
    BY <1>2 DEF Opened
  <2> QED BY <2>1, <2>2 DEF SessionGoesOn
<1>3. ASSUME NEW s \in SessionIds, ExpireSession(s) PROVE SessionGoesOn(k)
  <2> DEFINE u == [session[s] EXCEPT !.state = "expired"]
  <2>1. /\ u.state = "expired" /\ u.account = session[s].account
        /\ u.method = session[s].method /\ u.life = session[s].life /\ u.origin = session[s].origin
        /\ u.granted = session[s].granted /\ u.token = session[s].token /\ u.code = session[s].code
    <3>1. session[s] \in SessionRecords
      BY <1>0 DEF SignInTypeOK
    <3> QED BY <3>1, SessionClosed
  <2>2. session[s].state = "live" /\ session' = [session EXCEPT ![s] = u]
    BY <1>3 DEF ExpireSession, IsLive
  <2> HIDE DEF u
  <2>3. session'[k] = IF k = s THEN u ELSE session[k]
    BY <1>0, <2>2 DEF SignInTypeOK
  <2>4. CASE k = s
    BY <2>1, <2>2, <2>3, <2>4 DEF SessionGoesOn, SameSession
  <2>5. CASE k # s
    BY <2>3, <2>5 DEF SessionGoesOn, SameSession
  <2> QED BY <2>4, <2>5
<1>4. ASSUME NEW r \in Requests, NEW s \in SessionIds, CreateSession(r, s) PROVE SessionGoesOn(k)
  <2>1. session[s].state = "unused" /\ \A o \in SessionIds \ {s} : session'[o] = session[o]
    BY <1>4, PublicSessionInserted
  <2>2. CASE k = s
    BY <1>4, <2>1, <2>2 DEF SessionGoesOn
  <2>3. CASE k # s
    BY <2>1, <2>3 DEF SessionGoesOn, SameSession
  <2> QED BY <2>2, <2>3
<1>5. ASSUME NEW v \in Verifiers, NEW s \in SessionIds, OpenAdminSession(v, s) PROVE SessionGoesOn(k)
  <2>1. session[s].state = "unused" /\ \A o \in SessionIds \ {s} : session'[o] = session[o]
    BY <1>5, AdminSessionInserted
  <2>2. CASE k = s
    BY <1>5, <2>1, <2>2 DEF SessionGoesOn
  <2>3. CASE k # s
    BY <2>1, <2>3 DEF SessionGoesOn, SameSession
  <2> QED BY <2>2, <2>3
<1>6. ASSUME NEW r \in Requests, LibrarySignOut(r) PROVE SessionGoesOn(k)
  <2>1. job[r].session \in Opened
    BY <1>6 DEF LibrarySignOut, SignInInv, ClosingKnowsItsSession
  <2> QED BY <1>2, <1>6, <2>1 DEF LibrarySignOut
<1>7. ASSUME NEW r \in Requests, RevokeOtherSessions(r) PROVE SessionGoesOn(k)
  <2>1. OthersOf(job[r].account, job[r].session) \subseteq Opened
    BY DEF OthersOf, IsLive, Opened
  <2> QED BY <1>2, <1>7, <2>1 DEF RevokeOtherSessions
<1>8. ASSUME NEW r \in Requests, RevokeSessions(r) PROVE SessionGoesOn(k)
  <2>1. {s \in SessionIds : session[s].state # "unused" /\ session[s].account = job[r].account} \subseteq Opened
    BY DEF Opened
  <2> QED BY <1>2, <1>8, <2>1 DEF RevokeSessions
<1> QED
  BY <1>1, <1>3, <1>4, <1>5, <1>6, <1>7, <1>8
  DEF Next, SessionsNext, Ask, Open, CloseOne, CloseMany, StoreLink, MailLink, StartGoogle, ExpireRow, OpenLink,
      GoogleCallback, Consume, PassTheDoor, RefuseTheDoor,
      SignOut, ConfirmSignOut, SignOutEverywhere, CountBefore, CountAfter, Leave, AuthoriseRevoke,
      Enrol, Mint, ExpireEnrolment, Claim, Install, Quit, ExpireChallenge, Verify, SubmitCode, AcceptTotp,
      MatchBackupCode, SpendBackupCode, GiveUp, vars, sessionVars

LEMMA OpenedStay == SignInInv /\ [Next]_vars => Opened \subseteq Opened'
BY SessionsGoOn DEF SessionGoesOn, Opened
-----------------------------------------------------------------------------
(* Sessions *)

\* A session says how it was opened, for as long as it is there.
Explained(s) ==
  /\ session[s].origin # None
  /\ row[session[s].origin].state = "gone"
  /\ session[s].method = "link_totp" =>
       /\ session[s].origin \in Links
       /\ row[session[s].origin].account = session[s].account
       /\ session[s].token # None
       /\ owner[session[s].token] = session[s].account
       /\ cli[session[s].token] = "enrolled"
  /\ session[s].method # "link_totp" => session[s].token = None /\ session[s].code = None

Answered(s) == session[s].life = LifeOf(session[s].method, row[session[s].origin].shared)

LEMMA OldSessionStep ==
  ASSUME SignInInv, [Next]_vars, NEW s \in Opened
  PROVE  Explained(s)' /\ Answered(s)' /\ (session'[s].method # "link_totp" => ~session'[s].granted)
<1> DEFINE o == session[s]
<1>1. /\ s \in SessionIds /\ SameSession(s) /\ Explained(s) /\ Answered(s)
      /\ session[s].method # "link_totp" => ~session[s].granted
      /\ session[s] \in SessionRecords
  BY SessionsGoOn
  DEF Opened, SessionGoesOn, SignInInv, SignInTypeOK, SessionsAreExplained, Explained, AnswerReachesSession,
      Answered, AdminsHaveOneDoor
<1>2. session[s].origin \in Rows /\ session[s].token \in Tokens \cup {None}
  BY <1>1 DEF Explained, SessionRecords
<1>3. RowGoesOn(session[s].origin)
  BY <1>2, RowsGoOn
<1>4. session[s].token # None => /\ cli[session[s].token] # "away" => owner'[session[s].token] = owner[session[s].token]
                                 /\ cli[session[s].token] = "enrolled" => cli'[session[s].token] = "enrolled"
  BY <1>2, EnrolmentGoesOn
<1>5. Explained(s)'
  BY <1>1, <1>3, <1>4 DEF Explained, RowGoesOn, SameSession
<1>6. Answered(s)'
  BY <1>1, <1>3 DEF Answered, Explained, RowGoesOn, SameSession
<1>7. session'[s].method # "link_totp" => ~session'[s].granted
  <2>1. session'[s].method = session[s].method /\ session'[s].granted = session[s].granted
    BY <1>1 DEF SameSession
  <2> QED BY <1>1, <2>1, Zenon
<1> QED BY <1>5, <1>6, <1>7

LEMMA PublicSessionStep ==
  ASSUME SignInInv, NEW r \in Requests, NEW s \in SessionIds, CreateSession(r, s)
  PROVE  Explained(s)' /\ Answered(s)' /\ (session'[s].method # "link_totp" => ~session'[s].granted)
<1>1. /\ session'[s].method = MethodOf(job[r].origin) /\ session'[s].method # "link_totp"
      /\ session'[s].life = LifeOf(MethodOf(job[r].origin), job[r].shared)
      /\ session'[s].origin = job[r].origin /\ session'[s].granted = job[r].granted
      /\ session'[s].token = None /\ session'[s].code = None
  BY PublicSessionInserted
<1>2. /\ job[r].origin # None /\ row[job[r].origin].state = "gone" /\ job[r].shared = row[job[r].origin].shared
      /\ row' = row
  BY DEF CreateSession, SignInInv, JobsCarryTheAnswer, OpeningPCs
<1>3. ~job[r].granted
  BY DEF CreateSession, SignInInv, JobsCarryTheAnswer, OpeningPCs
<1>4. Explained(s)' /\ Answered(s)'
  BY <1>1, <1>2 DEF Explained, Answered
<1>5. ~session'[s].granted
  BY <1>1, <1>3, Zenon
<1> QED BY <1>4, <1>5

LEMMA AdminSessionStep ==
  ASSUME SignInInv, NEW v \in Verifiers, NEW s \in SessionIds, OpenAdminSession(v, s)
  PROVE  Explained(s)' /\ Answered(s)' /\ (session'[s].method # "link_totp" => ~session'[s].granted)
<1>1. /\ session'[s].account = AccountOf(v)
      /\ session'[s].method = "link_totp" /\ session'[s].life = "admin"
      /\ session'[s].origin = vjob[v].link /\ session'[s].token = vjob[v].token
  BY AdminSessionInserted
<1>2. vpc[v] = "accepted" /\ UNCHANGED <<row, owner, cli>>
  BY DEF OpenAdminSession, enrolVars
<1>3. /\ vjob[v].link \in Links /\ vjob[v].token \in Tokens /\ row[vjob[v].link].state = "gone"
      /\ AccountOf(v) = row[vjob[v].link].account
  BY <1>2, CodeIsSomebodys DEF AccountOf
<1>4. owner[vjob[v].token] = AccountOf(v) /\ cli[vjob[v].token] = "enrolled"
  BY <1>2 DEF SignInInv, CodesAreRead
<1>5. Explained(s)'
  BY <1>1, <1>2, <1>3, <1>4, SessionsNone DEF Explained, Rows
<1>6. Answered(s)'
  BY <1>1 DEF Answered, LifeOf
<1> QED BY <1>1, <1>5, <1>6

LEMMA SessionsStep ==
  SignInInv /\ [Next]_vars => SessionsAreExplained' /\ AnswerReachesSession' /\ AdminsHaveOneDoor'
<1> SUFFICES ASSUME SignInInv, [Next]_vars, NEW s \in Opened'
    PROVE  Explained(s)' /\ Answered(s)' /\ (session'[s].method # "link_totp" => ~session'[s].granted)
  BY DEF SessionsAreExplained, Explained, AnswerReachesSession, Answered, AdminsHaveOneDoor
<1>1. CASE s \in Opened
  BY <1>1, OldSessionStep
<1>2. CASE s \notin Opened
  <2>1. s \in SessionIds /\ session[s].state = "unused" /\ session'[s].state # "unused"
    BY <1>2 DEF Opened
  <2>2. (\E r \in Requests : CreateSession(r, s)) \/ (\E v \in Verifiers : OpenAdminSession(v, s))
    BY <2>1, SessionsGoOn DEF SessionGoesOn
  <2> QED BY <2>1, <2>2, PublicSessionStep, AdminSessionStep
<1> QED BY <1>1, <1>2

-----------------------------------------------------------------------------
(* Rows, and what an opening request carries *)

LEMMA RowsStep == SignInInv /\ [Next]_vars => RowsAreHers' /\ ChallengesAreEarned'
<1> SUFFICES ASSUME SignInInv, [Next]_vars PROVE RowsAreHers' /\ ChallengesAreEarned'
  OBVIOUS
<1> DEFINE Goal == RowsAreHers' /\ ChallengesAreEarned'
<1>0. /\ SignInTypeOK /\ row \in [Rows -> RowRecords] /\ Links \subseteq Rows /\ Flows \subseteq Rows
      /\ RowsAreHers /\ ChallengesAreEarned /\ challenges \subseteq Links
      /\ \A l \in Rows : RowGoesOn(l)
      /\ \A b \in Browsers : cookie[b].flow \in Flows \cup {None}
  <2>1. SignInTypeOK /\ \A b \in Browsers : cookie[b].flow \in Flows \cup {None}
    BY DEF SignInInv, SignInTypeOK, Cookies
  <2> QED BY <2>1, RowsGoOn DEF SignInInv, SignInTypeOK, Rows
\* Flows are no links, so a step that leaves cookies and mail alone keeps the rest.
<1>1. ASSUME UNCHANGED cookie, challenges' \subseteq Links,
             \A l \in challenges' : row'[l].state = "gone",
             \A l \in Rows : row'[l].mailed => row'[l].state # "unsent",
             \A l \in Links : row[l].state = "unsent" /\ row'[l].state # "unsent" => row'[l].account # None
      PROVE  Goal
  BY <1>0, <1>1 DEF RowsAreHers, ChallengesAreEarned, RowGoesOn
<1>2. CASE UNCHANGED <<row, cookie>> /\ challenges' \subseteq challenges
  BY <1>0, <1>2 DEF RowsAreHers, ChallengesAreEarned
<1>3. ASSUME NEW l \in Links, NEW a \in Accounts, NEW shared \in BOOLEAN, StoreLink(l, a, shared) PROVE Goal
  <2>1. /\ row' = [row EXCEPT ![l] = [state |-> "live", account |-> a, shared |-> shared, mailed |-> FALSE]]
        /\ UNCHANGED <<cookie, challenges>>
    BY <1>3 DEF StoreLink
  <2>2. \A k \in Rows : row'[k].mailed => row'[k].state # "unsent"
    BY <1>0, <2>1 DEF RowsAreHers
  <2>3. \A k \in Links : row[k].state = "unsent" /\ row'[k].state # "unsent" => row'[k].account # None
    BY <1>0, <2>1, SessionsNone
  <2>4. \A k \in challenges' : row'[k].state = "gone"
    BY <1>0, <2>1 DEF ChallengesAreEarned, RowGoesOn
  <2> QED BY <1>0, <1>1, <2>1, <2>2, <2>3, <2>4
<1>4. ASSUME NEW l \in Links, MailLink(l) PROVE Goal
  <2>1. /\ row' = [Swept EXCEPT ![l] = [Swept[l] EXCEPT !.mailed = TRUE]]
        /\ UNCHANGED <<cookie, challenges>> /\ row[l].state # "unsent"
    BY <1>4 DEF MailLink
  <2>2. Swept \in [Rows -> RowRecords] /\ \A k \in Rows : Swept[k].mailed = row[k].mailed
    BY <1>0, SweptKeeps
  <2>3. \A k \in Rows \ {l} : row'[k] = Swept[k]
    BY <2>1, <2>2
  <2>4. ASSUME NEW k \in Rows, row'[k].mailed PROVE row'[k].state # "unsent"
    <3>1. CASE k = l
      BY <1>0, <2>1, <3>1 DEF RowGoesOn
    <3>2. CASE k # l
      <4>1. row[k].mailed
        BY <2>2, <2>3, <2>4, <3>2
      <4> QED BY <1>0, <4>1 DEF RowsAreHers, RowGoesOn
    <3> QED BY <3>1, <3>2
  <2>5. \A k \in Rows : row[k].state = "unsent" => row'[k].state = "unsent"
    BY <1>0, <2>1, <2>2, <2>3, SweptKeeps
  <2>6. \A k \in challenges' : row'[k].state = "gone"
    BY <1>0, <2>1 DEF ChallengesAreEarned, RowGoesOn
  <2> QED BY <1>0, <1>1, <2>1, <2>4, <2>5, <2>6
<1>5. ASSUME NEW f \in Flows, NEW b \in Browsers, NEW shared \in BOOLEAN, StartGoogle(f, b, shared) PROVE Goal
  <2> DEFINE new == [state |-> "live", account |-> None, shared |-> shared, mailed |-> FALSE]
  <2>1. /\ row' = [Swept EXCEPT ![f] = new]
        /\ cookie' = [cookie EXCEPT ![b] = [flow |-> f, shared |-> shared]]
        /\ UNCHANGED challenges
    BY <1>5 DEF StartGoogle
  <2>2. /\ Swept \in [Rows -> RowRecords]
        /\ \A k \in Rows : /\ Swept[k].mailed = row[k].mailed
                           /\ row[k].state = "unsent" => Swept[k].state = "unsent"
    BY <1>0, SweptKeeps
  <2>3. row'[f] = new /\ \A k \in Rows \ {f} : row'[k] = Swept[k]
    BY <1>0, <2>1, <2>2
  <2>4. new.state = "live" /\ new.shared = shared /\ ~new.mailed
    OBVIOUS
  <2>5. ASSUME NEW k \in Rows, row'[k].mailed PROVE row'[k].state # "unsent"
    <3>1. CASE k = f
      BY <2>3, <2>4, <3>1
    <3>2. CASE k # f
      <4>1. row[k].mailed
        BY <2>2, <2>3, <2>5, <3>2
      <4> QED BY <1>0, <4>1 DEF RowsAreHers, RowGoesOn
    <3> QED BY <3>1, <3>2
  <2>6. ASSUME NEW k \in Links, row'[k].state # "unsent" PROVE row'[k].account # None
    <3>1. k # f /\ k \in Rows
      BY <1>0, DoorsAreTwo
    <3>2. row[k].state # "unsent"
      BY <2>2, <2>3, <2>6, <3>1
    <3> QED BY <1>0, <3>1, <3>2 DEF RowGoesOn, RowsAreHers
  <2>7. ASSUME NEW c \in Browsers, cookie'[c].flow # None
        PROVE  row'[cookie'[c].flow].state # "unsent" /\ cookie'[c].shared = row'[cookie'[c].flow].shared
    <3>1. CASE c = b
      <4>1. cookie'[c].flow = f /\ cookie'[c].shared = shared
        BY <1>0, <2>1, <3>1 DEF SignInTypeOK
      <4> QED BY <2>3, <2>4, <4>1
    <3>2. CASE c # b
      <4>1. cookie'[c] = cookie[c]
        BY <1>0, <2>1, <3>2 DEF SignInTypeOK
      <4> QED BY <1>0, <2>7, <4>1 DEF RowsAreHers, RowGoesOn
    <3> QED BY <3>1, <3>2
  <2>8. \A k \in challenges' : row'[k].state = "gone"
    BY <1>0, <2>1 DEF ChallengesAreEarned, RowGoesOn
  <2> HIDE DEF new
  <2> QED BY <2>5, <2>6, <2>7, <2>8 DEF RowsAreHers, ChallengesAreEarned
<1>6. ASSUME NEW l \in Rows, ExpireRow(l) PROVE Goal
  <2>1. /\ row' = [row EXCEPT ![l] = [row[l] EXCEPT !.state = "expired"]]
        /\ UNCHANGED <<cookie, challenges>> /\ row[l].state = "live"
    BY <1>6 DEF ExpireRow
  <2>2. \A k \in Rows : row'[k].state = IF k = l THEN "expired" ELSE row[k].state
    BY <1>0, <2>1 DEF RowRecords
  <2>3. \A k \in Rows : row'[k].mailed = row[k].mailed
    BY <1>0, <2>1 DEF RowRecords
  <2>4. \A k \in Rows : row'[k].mailed => row'[k].state # "unsent"
    BY <1>0, <2>2, <2>3 DEF RowsAreHers
  <2>5. \A k \in Links : row[k].state = "unsent" => row'[k].state = "unsent"
    BY <1>0, <2>1, <2>2
  <2>6. \A k \in challenges' : row'[k].state = "gone"
    BY <1>0, <2>1 DEF ChallengesAreEarned, RowGoesOn
  <2> QED BY <1>0, <1>1, <2>1, <2>4, <2>5, <2>6
<1>7. ASSUME NEW r \in Requests, Consume(r) PROVE Goal
  <2> DEFINE l == job[r].origin
             u == [row[l] EXCEPT !.state = "gone", !.account = job[r].account]
  <2>1. l \in Rows /\ row' = [row EXCEPT ![l] = u] /\ UNCHANGED <<cookie, challenges>> /\ row[l].state = "live"
    BY <1>7, OpeningIsSomebodys DEF Consume, OpeningPCs
  <2>2. u.state = "gone"
    <3>1. row[l] \in RowRecords
      BY <1>0, <2>1
    <3> HIDE DEF l
    <3> QED BY <3>1 DEF RowRecords, u
  <2> HIDE DEF l, u
  <2>3. row'[l] = u /\ \A k \in Rows \ {l} : row'[k] = row[k]
    BY <1>0, <2>1
  <2>4. \A k \in Rows : row'[k].mailed => row'[k].state # "unsent"
    BY <1>0, <2>1, <2>2, <2>3 DEF RowsAreHers
  <2>5. \A k \in Links : row[k].state = "unsent" => row'[k].state = "unsent"
    BY <1>0, <2>1, <2>3
  <2>6. \A k \in challenges' : row'[k].state = "gone"
    BY <1>0, <2>1 DEF ChallengesAreEarned, RowGoesOn
  <2> QED BY <1>0, <1>1, <2>1, <2>4, <2>5, <2>6
<1>8. ASSUME NEW r \in Requests, RefuseTheDoor(r) PROVE Goal
  <2>1. row[job[r].origin].state = "gone"
    BY <1>8 DEF RefuseTheDoor, SignInInv, JobsCarryTheAnswer, OpeningPCs
  <2>2. UNCHANGED <<row, cookie>> /\ challenges' \subseteq challenges \cup {job[r].origin}
    BY <1>8 DEF RefuseTheDoor
  <2> QED BY <1>0, <2>1, <2>2 DEF RowsAreHers, ChallengesAreEarned
<1> QED
  BY <1>2, <1>3, <1>4, <1>5, <1>6, <1>7, <1>8
  DEF Next, SessionsNext, Ask, Open, CloseOne, CloseMany, OpenLink, GoogleCallback, PassTheDoor,
      CreateSession, SignOut, LibrarySignOut, ConfirmSignOut, SignOutEverywhere, CountBefore,
      RevokeOtherSessions, CountAfter, ExpireSession, Leave, AuthoriseRevoke, RevokeSessions,
      Enrol, Mint, ExpireEnrolment, Claim, Install, Quit, ExpireChallenge, Verify, SubmitCode, AcceptTotp,
      MatchBackupCode, SpendBackupCode, OpenAdminSession, GiveUp, vars, sessionVars

Carries(r) ==
  pc[r] \in OpeningPCs =>
    LET j == job[r] IN
    /\ j.origin # None /\ j.account # None
    /\ row[j.origin].state # "unsent"
    /\ j.origin \in Links => row[j.origin].account = j.account
    /\ pc[r] = "opening" /\ row[j.origin].state = "live" => j.shared = row[j.origin].shared
    /\ pc[r] # "opening" => j.shared = row[j.origin].shared /\ row[j.origin].state = "gone"
    /\ j.granted => isAdmin[j.account]
    /\ pc[r] = "creating" => ~j.granted

\* A request that waits goes on carrying it, whoever else does what.
LEMMA WaitingCarries ==
  ASSUME SignInInv, [Next]_vars, NEW r \in Requests, pc'[r] = pc[r], job'[r] = job[r]
  PROVE  Carries(r)'
<1> SUFFICES ASSUME pc[r] \in OpeningPCs PROVE Carries(r)'
  BY DEF Carries
<1>1. Carries(r)
  BY DEF SignInInv, JobsCarryTheAnswer, Carries
<1>2. /\ job[r].origin \in Rows /\ job[r].account \in Accounts
  BY OpeningIsSomebodys
<1>3. RowGoesOn(job[r].origin) /\ (isAdmin[job[r].account] => isAdmin'[job[r].account])
  BY <1>2, RowsGoOn, EnrolmentGoesOn
<1>4. (job[r].granted => isAdmin'[job[r].account]) /\ (pc[r] = "creating" => ~job[r].granted)
  BY <1>1, <1>3 DEF Carries
<1>5. /\ job[r].origin # None /\ job[r].account # None
      /\ row'[job[r].origin].state # "unsent"
      /\ job[r].origin \in Links => row'[job[r].origin].account = job[r].account
      /\ pc[r] = "opening" /\ row'[job[r].origin].state = "live" => job[r].shared = row'[job[r].origin].shared
      /\ pc[r] # "opening" => job[r].shared = row'[job[r].origin].shared /\ row'[job[r].origin].state = "gone"
  BY <1>1, <1>3 DEF Carries, RowGoesOn
<1> QED BY <1>4, <1>5 DEF Carries

LEMMA OpeningJobSays ==
  ASSUME NEW l, NEW a, NEW shared
  PROVE  /\ OpeningJob(l, a, shared).origin = l /\ OpeningJob(l, a, shared).account = a
         /\ OpeningJob(l, a, shared).shared = shared /\ OpeningJob(l, a, shared).granted = isAdmin[a]
BY DEF OpeningJob

LEMMA OpenLinkCarries ==
  ASSUME SignInInv, NEW r \in Requests, NEW l \in Links, OpenLink(r, l)
  PROVE  Carries(r)'
<1>1. /\ l \in Rows /\ row[l].state # "unsent" /\ row[l].account \in Accounts
      /\ UNCHANGED <<row, isAdmin>> /\ SignInTypeOK
  <2>1. l \in Rows /\ row[l].state # "unsent" /\ UNCHANGED <<row, isAdmin>> /\ SignInTypeOK
    BY DEF OpenLink, SignInInv, RowsAreHers, Rows
  <2> QED BY <2>1, LinkIsSomebodys
<1>2. row[l].state = "live" => AnswerOf(l) = row[l].shared
  <2>1. row[l].shared \in BOOLEAN
    BY <1>1 DEF SignInTypeOK, RowRecords
  <2> QED BY <2>1 DEF AnswerOf
<1> DEFINE j == OpeningJob(l, row[l].account, AnswerOf(l))
<1>3. pc'[r] = "opening" /\ job'[r] = j
  BY <1>1 DEF OpenLink, Goto, Carry, SignInTypeOK
<1>4. /\ j.origin = l /\ j.account = row[l].account
      /\ j.shared = AnswerOf(l) /\ j.granted = isAdmin[row[l].account]
  <2> DEFINE shared == AnswerOf(l)
             a == row[l].account
  <2> HIDE DEF shared, a
  <2>1. /\ OpeningJob(l, a, shared).origin = l /\ OpeningJob(l, a, shared).account = a
        /\ OpeningJob(l, a, shared).shared = shared /\ OpeningJob(l, a, shared).granted = isAdmin[a]
    BY OpeningJobSays
  <2> QED BY <2>1, Zenon DEF shared, a
<1> HIDE DEF j
<1>5. j.granted => isAdmin'[j.account]
  <2>1. isAdmin' = isAdmin
    BY <1>1
  <2> QED BY <1>4, <2>1, Zenon
<1>6. row[l].state = "live" => j.shared = row[l].shared
  BY <1>2, <1>4, Zenon
<1>7. /\ j.origin # None /\ j.account # None /\ row'[j.origin].state # "unsent"
      /\ j.origin \in Links => row'[j.origin].account = j.account
      /\ row'[j.origin].state = "live" => j.shared = row'[j.origin].shared
  BY <1>1, <1>4, <1>6, SessionsNone DEF Rows
<1> QED BY <1>3, <1>5, <1>7 DEF Carries

LEMMA CallbackCarries ==
  ASSUME SignInInv, NEW r \in Requests, NEW b \in Browsers, NEW a \in Accounts, GoogleCallback(r, b, a)
  PROVE  Carries(r)'
<1> DEFINE f == cookie[b].flow
           j == OpeningJob(f, a, cookie[b].shared)
<1>1. /\ f \in Flows /\ f \in Rows /\ f \notin Links /\ f # None
      /\ row[f].state # "unsent" /\ cookie[b].shared = row[f].shared
      /\ UNCHANGED <<row, isAdmin>> /\ SignInTypeOK
  <2>1. f # None /\ f \in Flows /\ SignInTypeOK /\ UNCHANGED <<row, isAdmin>>
    BY DEF GoogleCallback, SignInInv, SignInTypeOK, Cookies
  <2>2. row[f].state # "unsent" /\ cookie[b].shared = row[f].shared
    BY <2>1 DEF SignInInv, RowsAreHers
  <2> QED BY <2>1, <2>2, DoorsAreTwo DEF Rows
<1>2. pc'[r] = "opening" /\ job'[r] = j
  BY <1>1 DEF GoogleCallback, Goto, Carry, SignInTypeOK
<1>3. j.origin = f /\ j.account = a /\ j.shared = cookie[b].shared /\ j.granted = isAdmin[a]
  BY OpeningJobSays
<1> HIDE DEF j, f
<1>4. j.granted => isAdmin'[j.account]
  <2>1. isAdmin' = isAdmin
    BY <1>1
  <2> QED BY <1>3, <2>1, Zenon
<1>5. /\ j.origin # None /\ j.account # None /\ row'[j.origin].state # "unsent"
      /\ j.origin \notin Links
      /\ j.shared = row'[j.origin].shared
  BY <1>1, <1>3, SessionsNone
<1> QED BY <1>2, <1>4, <1>5 DEF Carries

LEMMA ConsumedCarries ==
  ASSUME SignInInv, [Next]_vars, NEW r \in Requests, Consume(r)
  PROVE  Carries(r)'
<1> DEFINE l == job[r].origin
           u == [row[l] EXCEPT !.state = "gone", !.account = job[r].account]
<1>1. /\ pc[r] = "opening" /\ row[l].state = "live" /\ l \in Rows /\ job[r].account \in Accounts
      /\ UNCHANGED <<job, isAdmin>> /\ SignInTypeOK
  BY OpeningIsSomebodys DEF Consume, OpeningPCs, SignInInv
<1>2. Carries(r)
  BY DEF SignInInv, JobsCarryTheAnswer, Carries
<1>3. pc'[r] = "consumed" /\ row' = [row EXCEPT ![l] = u]
  BY <1>1 DEF Consume, Goto, SignInTypeOK
<1>4. u.state = "gone" /\ u.account = job[r].account /\ u.shared = row[l].shared
  <2>1. row[l] \in RowRecords
    BY <1>1 DEF SignInTypeOK
  <2> HIDE DEF l
  <2> QED BY <2>1 DEF RowRecords, u
<1>5. row'[l] = u
  BY <1>1, <1>3 DEF SignInTypeOK
<1> HIDE DEF u
<1>6. job[r].granted => isAdmin'[job[r].account]
  BY <1>1, <1>2 DEF Carries, OpeningPCs
<1>7. /\ l # None /\ job[r].account # None /\ row'[l].state = "gone"
      /\ row'[l].account = job[r].account /\ job[r].shared = row'[l].shared
  BY <1>1, <1>2, <1>4, <1>5 DEF Carries, OpeningPCs
<1>8. job'[r] = job[r]
  BY <1>1
<1> QED BY <1>3, <1>6, <1>7, <1>8 DEF Carries

LEMMA PassedCarries ==
  ASSUME SignInInv, NEW r \in Requests, PassTheDoor(r)
  PROVE  Carries(r)'
<1>1. /\ pc[r] = "consumed" /\ ~isAdmin[job[r].account] /\ UNCHANGED <<job, isAdmin, row>> /\ pc'[r] = "creating"
  BY DEF PassTheDoor, Refused, Goto, SignInInv, SignInTypeOK
<1>2. Carries(r)
  BY DEF SignInInv, JobsCarryTheAnswer, Carries
<1>3. ~job[r].granted
  BY <1>1, <1>2 DEF Carries, OpeningPCs
<1>4. /\ job[r].origin # None /\ job[r].account # None
      /\ row[job[r].origin].state = "gone"
      /\ job[r].origin \in Links => row[job[r].origin].account = job[r].account
      /\ job[r].shared = row[job[r].origin].shared
  BY <1>1, <1>2 DEF Carries, OpeningPCs
<1>5. job'[r] = job[r] /\ row' = row
  BY <1>1
<1> QED BY <1>1, <1>3, <1>4, <1>5 DEF Carries

LEMMA JobsStep == SignInInv /\ [Next]_vars => JobsCarryTheAnswer'
<1> SUFFICES ASSUME SignInInv, [Next]_vars, NEW r \in Requests PROVE Carries(r)'
  BY DEF JobsCarryTheAnswer, Carries
<1>0. SignInTypeOK
  BY DEF SignInInv
<1>1. CASE UNCHANGED <<pc, job>>
  BY <1>1, WaitingCarries
\* What another request does, and what takes this one elsewhere.
<1>2. ASSUME NEW q \in Requests, NEW to \in PCs, Goto(q, to), r # q \/ to \notin OpeningPCs,
             \A o \in Requests \ {q} : job'[o] = job[o]
      PROVE  Carries(r)'
  <2>1. CASE r = q
    <3>1. pc'[r] = to
      BY <1>0, <1>2, <2>1 DEF Goto, SignInTypeOK
    <3> QED BY <1>2, <2>1, <3>1 DEF Carries
  <2>2. CASE r # q
    <3>1. pc'[r] = pc[r] /\ job'[r] = job[r]
      BY <1>0, <1>2, <2>2 DEF Goto, SignInTypeOK
    <3> QED BY <3>1, WaitingCarries
  <2> QED BY <2>1, <2>2
<1>3. ASSUME NEW q \in Requests, NEW j, Carry(q, j) PROVE \A o \in Requests \ {q} : job'[o] = job[o]
  BY <1>0, <1>3 DEF Carry, SignInTypeOK
<1>4. ASSUME NEW q \in Requests, Finish(q) PROVE Carries(r)'
  <2>1. Goto(q, "idle") /\ "idle" \in PCs /\ "idle" \notin OpeningPCs
    BY <1>4 DEF Finish, PCs, OpeningPCs
  <2>2. \A o \in Requests \ {q} : job'[o] = job[o]
    BY <1>3, <1>4 DEF Finish
  <2> QED BY <1>2, <2>1, <2>2
<1>5. ASSUME NEW q \in Requests, NEW l \in Links, OpenLink(q, l) PROVE Carries(r)'
  <2>1. CASE r = q
    BY <1>5, <2>1, OpenLinkCarries
  <2>2. CASE r # q
    BY <1>2, <1>3, <1>5, <2>2 DEF OpenLink, PCs, OpeningPCs
  <2> QED BY <2>1, <2>2
<1>6. ASSUME NEW q \in Requests, NEW b \in Browsers, NEW a \in Accounts, GoogleCallback(q, b, a) PROVE Carries(r)'
  <2>1. CASE r = q
    BY <1>6, <2>1, CallbackCarries
  <2>2. CASE r # q
    BY <1>2, <1>3, <1>6, <2>2 DEF GoogleCallback, PCs, OpeningPCs
  <2> QED BY <2>1, <2>2
<1>7. ASSUME NEW q \in Requests, Consume(q) PROVE Carries(r)'
  <2>1. CASE r = q
    BY <1>7, <2>1, ConsumedCarries
  <2>2. CASE r # q
    BY <1>2, <1>7, <2>2 DEF Consume, PCs, OpeningPCs
  <2> QED BY <2>1, <2>2
<1>8. ASSUME NEW q \in Requests, PassTheDoor(q) PROVE Carries(r)'
  <2>1. CASE r = q
    BY <1>8, <2>1, PassedCarries
  <2>2. CASE r # q
    BY <1>2, <1>8, <2>2 DEF PassTheDoor, PCs, OpeningPCs
  <2> QED BY <2>1, <2>2
<1>9. ASSUME NEW q \in Requests,
             \/ LibrarySignOut(q) \/ ConfirmSignOut(q) \/ CountBefore(q) \/ RevokeOtherSessions(q) \/ CountAfter(q)
      PROVE  Carries(r)'
  <2>1. \E to \in PCs \ OpeningPCs : Goto(q, to)
    BY <1>9 DEF LibrarySignOut, ConfirmSignOut, CountBefore, RevokeOtherSessions, CountAfter,
                PCs, OpeningPCs, ClosingPCs
  <2>2. \A o \in Requests \ {q} : job'[o] = job[o]
    BY <1>3, <1>9 DEF LibrarySignOut, ConfirmSignOut, CountBefore, RevokeOtherSessions, CountAfter
  <2> QED BY <1>2, <2>1, <2>2
<1>10. ASSUME NEW q \in Requests, NEW s \in SessionIds, NEW a \in Accounts,
              SignOut(q, s) \/ SignOutEverywhere(q, s) \/ AuthoriseRevoke(q, s, a)
       PROVE  Carries(r)'
  <2>1. \E to \in PCs \ OpeningPCs : Goto(q, to)
    BY <1>10 DEF SignOut, SignOutEverywhere, AuthoriseRevoke, PCs, OpeningPCs, ClosingPCs
  <2>2. \A o \in Requests \ {q} : job'[o] = job[o]
    BY <1>3, <1>10 DEF SignOut, SignOutEverywhere, AuthoriseRevoke
  <2> QED BY <1>2, <2>1, <2>2
<1>11. ASSUME NEW q \in Requests, NEW s \in SessionIds,
              RefuseTheDoor(q) \/ CreateSession(q, s) \/ Leave(q) \/ RevokeSessions(q)
       PROVE  Carries(r)'
  BY <1>4, <1>11 DEF RefuseTheDoor, CreateSession, Leave, RevokeSessions
<1>12. ASSUME NEW q \in Requests, RefuseTheDoor(q) \/ Leave(q) \/ RevokeSessions(q) PROVE Carries(r)'
  BY <1>4, <1>12 DEF RefuseTheDoor, Leave, RevokeSessions
<1>13. ASSUME NEW q \in Requests, NEW s \in SessionIds, SignOut(q, s) \/ SignOutEverywhere(q, s) PROVE Carries(r)'
  <2>1. \E to \in PCs \ OpeningPCs : Goto(q, to)
    BY <1>13 DEF SignOut, SignOutEverywhere, PCs, OpeningPCs, ClosingPCs
  <2>2. \A o \in Requests \ {q} : job'[o] = job[o]
    BY <1>3, <1>13 DEF SignOut, SignOutEverywhere
  <2> QED BY <1>2, <2>1, <2>2
<1>14. CASE SessionsNext
  <2>1. CASE Ask \/ \E s \in SessionIds : ExpireSession(s)
    BY <1>1, <2>1 DEF Ask, StoreLink, MailLink, StartGoogle, ExpireRow, ExpireSession
  <2>2. ASSUME NEW q \in Requests, Open(q) PROVE Carries(r)'
    BY <1>5, <1>6, <1>7, <1>8, <1>11, <1>12, <2>2 DEF Open
  <2>3. ASSUME NEW q \in Requests, CloseOne(q) \/ CloseMany(q) \/ Leave(q) PROVE Carries(r)'
    BY <1>9, <1>10, <1>12, <1>13, <2>3 DEF CloseOne, CloseMany
  <2> QED BY <1>14, <2>1, <2>2, <2>3 DEF SessionsNext
<1> QED
  BY <1>1, <1>14
  DEF Next, Enrol, Mint, ExpireEnrolment, Claim, Install, Quit, ExpireChallenge, Verify, SubmitCode, AcceptTotp,
      MatchBackupCode, SpendBackupCode, OpenAdminSession, GiveUp, vars, sessionVars

-----------------------------------------------------------------------------
(* Signing out *)

ClosesHers(r) ==
  /\ pc[r] \in {"leaving", "left", "signedOut", "counting", "counted", "revoked"} =>
       job[r].session # None /\ job[r].session \in Opened
  /\ pc[r] \in {"counted", "revoked", "everywhere"} => job[r].listed \subseteq Opened
  /\ pc[r] \in {"counted", "revoked"} =>
       \A s \in job[r].listed : session[s].account = job[r].account /\ s # job[r].session
  /\ pc[r] = "signedOut" => ~IsLive(job[r].session)
  /\ pc[r] = "everywhere" => \A s \in job[r].listed : ~IsLive(s)

LEMMA HeldClosing == SignInInv => \A r \in Requests : ClosesHers(r)
BY DEF SignInInv, ClosingKnowsItsSession, SignOutIsTrue, SignedOutEverywhereIsTrue, ClosesHers

\* A session that was closed stays closed, and one that was counted stays hers.
LEMMA WaitingCloses ==
  ASSUME SignInInv, [Next]_vars, NEW r \in Requests, pc'[r] = pc[r], job'[r] = job[r]
  PROVE  ClosesHers(r)'
<1>1. ClosesHers(r)
  BY HeldClosing
<1>2. \A s \in Opened : /\ s \in Opened' /\ session'[s].account = session[s].account
                        /\ ~IsLive(s) => ~IsLive(s)'
  BY SessionsGoOn DEF Opened, SessionGoesOn, SameSession, IsLive
<1>3. Opened \subseteq Opened'
  BY <1>2
<1> QED BY <1>1, <1>2, <1>3 DEF ClosesHers

LEMMA ClosingStep ==
  SignInInv /\ [Next]_vars => ClosingKnowsItsSession' /\ SignOutIsTrue' /\ SignedOutEverywhereIsTrue'
<1> SUFFICES ASSUME SignInInv, [Next]_vars, NEW r \in Requests PROVE ClosesHers(r)'
  BY DEF ClosingKnowsItsSession, SignOutIsTrue, SignedOutEverywhereIsTrue, ClosesHers
<1>0. SignInTypeOK /\ ClosesHers(r) /\ Opened \subseteq Opened'
  BY HeldClosing, OpenedStay DEF SignInInv
<1>1. CASE UNCHANGED <<pc, job>>
  BY <1>1, WaitingCloses
<1> USE DEF PCs, OpeningPCs, ClosingPCs
\* What takes a request where nothing is asked of it.
<1>2. ASSUME NEW q \in Requests, NEW to \in {"idle", "authorised"} \cup OpeningPCs, Goto(q, to),
             \A o \in Requests \ {q} : job'[o] = job[o]
      PROVE  ClosesHers(r)'
  <2>1. CASE r = q
    <3>1. pc'[r] = to
      BY <1>0, <1>2, <2>1 DEF Goto, SignInTypeOK
    <3> QED BY <1>2, <3>1 DEF ClosesHers
  <2>2. CASE r # q
    <3>1. pc'[r] = pc[r] /\ job'[r] = job[r]
      BY <1>0, <1>2, <2>2 DEF Goto, SignInTypeOK
    <3> QED BY <3>1, WaitingCloses
  <2> QED BY <2>1, <2>2
<1>3. ASSUME NEW q \in Requests, NEW j, Carry(q, j) PROVE \A o \in Requests \ {q} : job'[o] = job[o]
  BY <1>0, <1>3 DEF Carry, SignInTypeOK
<1>4. ASSUME NEW q \in Requests, Finish(q) PROVE ClosesHers(r)'
  <2>1. Goto(q, "idle") /\ \A o \in Requests \ {q} : job'[o] = job[o]
    BY <1>3, <1>4 DEF Finish
  <2> QED BY <1>2, <2>1
<1>5. ASSUME NEW q \in Requests, NEW to, Goto(q, to), r # q, \A o \in Requests \ {q} : job'[o] = job[o]
      PROVE  ClosesHers(r)'
  <2>1. pc'[r] = pc[r] /\ job'[r] = job[r]
    BY <1>0, <1>5 DEF Goto, SignInTypeOK
  <2> QED BY <2>1, WaitingCloses
<1>7. ASSUME NEW q \in Requests, Open(q) PROVE ClosesHers(r)'
  <2>1. ASSUME NEW l \in Links, OpenLink(q, l) PROVE ClosesHers(r)'
    BY <1>2, <1>3, <2>1 DEF OpenLink
  <2>2. ASSUME NEW b \in Browsers, NEW a \in Accounts, GoogleCallback(q, b, a) PROVE ClosesHers(r)'
    BY <1>2, <1>3, <2>2 DEF GoogleCallback
  <2>3. CASE Consume(q) \/ PassTheDoor(q)
    BY <1>2, <2>3 DEF Consume, PassTheDoor
  <2>4. ASSUME NEW s \in SessionIds, CreateSession(q, s) PROVE ClosesHers(r)'
    BY <1>4, <2>4 DEF CreateSession
  <2>5. CASE RefuseTheDoor(q)
    BY <1>4, <2>5 DEF RefuseTheDoor
  <2> QED BY <1>7, <2>1, <2>2, <2>3, <2>4, <2>5 DEF Open
<1>8. ASSUME NEW q \in Requests, NEW s \in SessionIds, SignOut(q, s) \/ SignOutEverywhere(q, s) PROVE ClosesHers(r)'
  <2>1. /\ \E to \in {"leaving", "counting"} : Goto(q, to)
        /\ \A o \in Requests \ {q} : job'[o] = job[o]
        /\ session[s].state # "unused" /\ session' = session
    BY <1>3, <1>8 DEF SignOut, SignOutEverywhere, IsLive
  <2>2. CASE r = q
    <3>1. pc'[r] \in {"leaving", "counting"}
      BY <1>0, <2>1, <2>2 DEF Goto, SignInTypeOK
    <3>2. job'[r].session = s
      <4>1. session[s].account \in Accounts \cup {None}
        BY <1>0 DEF SignInTypeOK, SessionRecords
      <4>2. CASE SignOut(q, s)
        BY <1>0, <2>2, <4>2 DEF SignOut, Carry, SignInTypeOK, NoJob
      <4>3. CASE SignOutEverywhere(q, s)
        BY <1>0, <2>2, <4>1, <4>3 DEF SignOutEverywhere, Carry, SignInTypeOK, NoJob
      <4> QED BY <1>8, <4>2, <4>3
    <3>3. s # None /\ s \in Opened'
      BY <1>0, <2>1, SessionsNone DEF Opened
    <3> QED BY <3>1, <3>2, <3>3 DEF ClosesHers
  <2>3. CASE r # q
    BY <1>5, <2>1, <2>3
  <2> QED BY <2>2, <2>3
<1>9. ASSUME NEW q \in Requests, LibrarySignOut(q) \/ RevokeOtherSessions(q) \/ ConfirmSignOut(q) \/ CountAfter(q)
      PROVE  ClosesHers(r)'
  <2>1. job' = job /\ \E to : Goto(q, to)
    BY <1>9 DEF LibrarySignOut, RevokeOtherSessions, ConfirmSignOut, CountAfter
  <2>2. CASE r # q
    BY <1>5, <2>1, <2>2
  <2>3. \A s \in Opened : s \in Opened' /\ session'[s].account = session[s].account
    BY SessionsGoOn DEF Opened, SessionGoesOn, SameSession
  <2>4. CASE r = q /\ LibrarySignOut(q)
    <3>1. pc[r] = "leaving" /\ pc'[r] = "left"
      BY <1>0, <2>4 DEF LibrarySignOut, Goto, SignInTypeOK
    <3> QED BY <1>0, <2>1, <2>3, <3>1 DEF ClosesHers
  <2>5. CASE r = q /\ RevokeOtherSessions(q)
    <3>1. pc[r] = "counted" /\ pc'[r] = "revoked"
      BY <1>0, <2>5 DEF RevokeOtherSessions, Goto, SignInTypeOK
    <3>2. /\ job[r].session # None /\ job[r].session \in Opened' /\ job[r].listed \subseteq Opened'
          /\ \A s \in job[r].listed : session'[s].account = job[r].account /\ s # job[r].session
      BY <1>0, <2>3, <3>1 DEF ClosesHers
    <3> QED BY <2>1, <3>1, <3>2 DEF ClosesHers
  <2>6. CASE r = q /\ ConfirmSignOut(q)
    <3>1. pc[r] = "left" /\ pc'[r] = "signedOut" /\ ~IsLive(job[r].session) /\ session' = session
      BY <1>0, <2>6 DEF ConfirmSignOut, Goto, SignInTypeOK
    <3> QED BY <1>0, <2>1, <3>1 DEF ClosesHers, IsLive, Opened
  <2>7. CASE r = q /\ CountAfter(q)
    <3>1. /\ pc[r] = "revoked" /\ pc'[r] = "everywhere" /\ session' = session
          /\ OthersOf(job[r].account, job[r].session) = {}
      BY <1>0, <2>7 DEF CountAfter, Goto, SignInTypeOK
    <3>2. job[r].listed \subseteq Opened
          /\ \A s \in job[r].listed : session[s].account = job[r].account /\ s # job[r].session
      BY <1>0, <3>1 DEF ClosesHers
    <3>3. \A s \in job[r].listed : ~IsLive(s)
      BY <3>1, <3>2 DEF OthersOf, Opened
    <3> QED BY <2>1, <3>1, <3>2, <3>3 DEF ClosesHers, IsLive, Opened
  <2> QED BY <1>9, <2>2, <2>4, <2>5, <2>6, <2>7
<1>10. ASSUME NEW q \in Requests, CountBefore(q) PROVE ClosesHers(r)'
  <2>1. /\ \E to : Goto(q, to)
        /\ \A o \in Requests \ {q} : job'[o] = job[o]
    BY <1>3, <1>10 DEF CountBefore
  <2>2. CASE r # q
    BY <1>5, <2>1, <2>2
  <2>3. CASE r = q
    <3> DEFINE listed == OthersOf(job[r].account, job[r].session)
    <3>1. pc[r] = "counting" /\ pc'[r] = "counted" /\ session' = session /\ job[r] \in Jobs
      BY <1>0, <1>10, <2>3 DEF CountBefore, Goto, SignInTypeOK
    <3>2. job'[r] = [job[r] EXCEPT !.listed = listed]
      BY <1>0, <1>10, <2>3 DEF CountBefore, Carry, SignInTypeOK
    <3>3. listed \subseteq Opened /\ \A s \in listed : session[s].account = job[r].account /\ s # job[r].session
      BY DEF OthersOf, IsLive, Opened
    <3> HIDE DEF listed
    <3>4. job'[r].listed = listed /\ job'[r].session = job[r].session /\ job'[r].account = job[r].account
      BY <3>1, <3>2 DEF Jobs
    <3> QED BY <1>0, <3>1, <3>3, <3>4 DEF ClosesHers, Opened
  <2> QED BY <2>2, <2>3
<1>11. ASSUME NEW q \in Requests, NEW s \in SessionIds, NEW a \in Accounts, AuthoriseRevoke(q, s, a)
       PROVE  ClosesHers(r)'
  BY <1>2, <1>3, <1>11 DEF AuthoriseRevoke
<1>12. ASSUME NEW q \in Requests, Leave(q) \/ RevokeSessions(q) PROVE ClosesHers(r)'
  BY <1>4, <1>12 DEF Leave, RevokeSessions
<1>13. CASE SessionsNext
  <2>1. CASE Ask \/ \E s \in SessionIds : ExpireSession(s)
    BY <1>1, <2>1 DEF Ask, StoreLink, MailLink, StartGoogle, ExpireRow, ExpireSession
  <2>2. ASSUME NEW q \in Requests, CloseOne(q) \/ CloseMany(q) \/ Leave(q) PROVE ClosesHers(r)'
    BY <1>8, <1>9, <1>10, <1>11, <1>12, <2>2 DEF CloseOne, CloseMany
  <2> QED BY <1>7, <1>13, <2>1, <2>2 DEF SessionsNext
<1> QED
  BY <1>1, <1>13
  DEF Next, Enrol, Mint, ExpireEnrolment, Claim, Install, Quit, ExpireChallenge, Verify, SubmitCode, AcceptTotp,
      MatchBackupCode, SpendBackupCode, OpenAdminSession, GiveUp, vars, sessionVars

-----------------------------------------------------------------------------
(* The second factor *)

LEMMA FactorsStep == SignInInv /\ [Next]_vars => FactorsAreEnrolled'
<1> SUFFICES ASSUME SignInInv, [Next]_vars PROVE FactorsAreEnrolled'
  OBVIOUS
<1>0. /\ SignInTypeOK /\ FactorsAreEnrolled
      /\ \A t \in Tokens : /\ cli[t] # "away" => cli'[t] # "away" /\ owner'[t] = owner[t]
                           /\ cli[t] = "enrolled" => cli'[t] = "enrolled"
  BY EnrolmentGoesOn DEF SignInInv
<1>1. \A t \in Tokens : cli'[t] # "away" => owner'[t] # None
  <2>1. CASE UNCHANGED <<cli, owner>>
    BY <1>0, <2>1 DEF FactorsAreEnrolled
  <2>2. ASSUME NEW t \in Tokens, NEW a \in Accounts, Mint(t, a)
        PROVE  \A u \in Tokens : cli'[u] # "away" => owner'[u] # None
    BY <1>0, <2>2, SessionsNone DEF Mint, SignInTypeOK, FactorsAreEnrolled
  <2>3. ASSUME NEW t \in Tokens, Claim(t) \/ Install(t) \/ Quit(t)
        PROVE  \A u \in Tokens : cli'[u] # "away" => owner'[u] # None
    BY <1>0, <2>3 DEF Claim, Install, Quit, SignInTypeOK, FactorsAreEnrolled
  <2> QED
    BY <2>1, <2>2, <2>3
    DEF Next, Enrol, ExpireEnrolment, ExpireChallenge, Verify, SubmitCode, AcceptTotp,
        MatchBackupCode, SpendBackupCode, OpenAdminSession, GiveUp, vars, sessionVars, doorVars, enrolVars
<1> DEFINE Enrolled(a) == factor'[a] # None =>
             /\ factor'[a].token \in Tokens
             /\ owner'[factor'[a].token] = a /\ cli'[factor'[a].token] = "enrolled"
<1>2. ASSUME NEW a \in Accounts, factor'[a] = factor[a] PROVE Enrolled(a)
  <2>1. factor[a] # None =>
          /\ factor[a].token \in Tokens /\ owner[factor[a].token] = a /\ cli[factor[a].token] = "enrolled"
    BY <1>0, FactorIsAFactor DEF FactorsAreEnrolled
  <2> QED BY <1>0, <1>2, <2>1
<1>3. \A a \in Accounts : Enrolled(a)
  <2>1. CASE UNCHANGED factor
    BY <1>2, <2>1
  <2>2. ASSUME NEW t \in Tokens, Install(t), NEW a \in Accounts PROVE Enrolled(a)
    <3>1. CASE a = owner[t]
      <4>1. factor'[a] = [token |-> t, codes |-> Codes] /\ owner' = owner /\ cli'[t] = "enrolled"
        BY <1>0, <2>2, <3>1 DEF Install, SignInTypeOK
      <4> QED BY <3>1, <4>1
    <3>2. CASE a # owner[t]
      <4>1. factor'[a] = factor[a]
        BY <1>0, <2>2, <3>2 DEF Install, SignInTypeOK
      <4> QED BY <1>2, <4>1
    <3> QED BY <3>1, <3>2
  <2>3. ASSUME NEW v \in Verifiers, SpendBackupCode(v), NEW a \in Accounts PROVE Enrolled(a)
    <3>1. CASE a = AccountOf(v)
      <4>1. /\ vpc[v] = "matched" /\ vjob[v].token \in Tokens
            /\ owner[vjob[v].token] = a /\ cli[vjob[v].token] = "enrolled"
        BY <2>3, <3>1, CodeIsSomebodys DEF SpendBackupCode, SignInInv, CodesAreRead
      <4>2. factor[a] = [token |-> vjob[v].token, codes |-> vjob[v].read]
        BY <2>3, <3>1 DEF SpendBackupCode, StillAsRead
      <4>3. factor'[a] = [factor[a] EXCEPT !.codes = Remaining(v)]
        BY <1>0, <2>3, <3>1 DEF SpendBackupCode, SignInTypeOK
      <4>4. factor'[a].token = vjob[v].token
        BY <4>2, <4>3
      <4> QED BY <1>0, <4>1, <4>4
    <3>2. CASE a # AccountOf(v)
      <4>1. factor'[a] = factor[a]
        BY <1>0, <2>3, <3>2 DEF SpendBackupCode, SignInTypeOK
      <4> QED BY <1>2, <4>1
    <3> QED BY <3>1, <3>2
  <2> QED
    BY <2>1, <2>2, <2>3
    DEF Next, Enrol, Mint, ExpireEnrolment, Claim, Quit, ExpireChallenge, Verify, SubmitCode, AcceptTotp,
        MatchBackupCode, OpenAdminSession, GiveUp, vars, sessionVars, doorVars, enrolVars
<1> QED BY <1>1, <1>3 DEF FactorsAreEnrolled

ReadHers(v) ==
  vpc[v] # "idle" =>
    /\ vjob[v].link # None /\ vjob[v].token # None /\ vjob[v].code # None
    /\ row[vjob[v].link].state = "gone"
    /\ vpc[v] \in {"matched", "accepted"} =>
         owner[vjob[v].token] = AccountOf(v) /\ cli[vjob[v].token] = "enrolled"
    /\ vpc[v] = "matched" => vjob[v].code \in vjob[v].read

LEMMA WaitingReads ==
  ASSUME SignInInv, [Next]_vars, NEW v \in Verifiers, vpc'[v] = vpc[v], vjob'[v] = vjob[v]
  PROVE  ReadHers(v)'
<1> SUFFICES ASSUME vpc[v] # "idle" PROVE ReadHers(v)'
  BY DEF ReadHers
<1>1. ReadHers(v)
  BY DEF SignInInv, CodesAreRead, ReadHers
<1>2. /\ vjob[v].link \in Links /\ vjob[v].link \in Rows /\ vjob[v].token \in Tokens
      /\ row[vjob[v].link].state = "gone"
  BY CodeIsSomebodys
<1>3. row'[vjob[v].link].state = "gone" /\ row'[vjob[v].link].account = row[vjob[v].link].account
  BY <1>2, RowsGoOn DEF RowGoesOn
<1>4. cli[vjob[v].token] = "enrolled" =>
        cli'[vjob[v].token] = "enrolled" /\ owner'[vjob[v].token] = owner[vjob[v].token]
  BY <1>2, EnrolmentGoesOn
<1> QED BY <1>1, <1>3, <1>4 DEF ReadHers, AccountOf

LEMMA TakenIsEnrolled ==
  ASSUME SignInInv, NEW a \in Accounts, NEW t, FactorTakes(a, t)
  PROVE  owner[t] = a /\ cli[t] = "enrolled"
BY DEF FactorTakes, SignInInv, FactorsAreEnrolled

LEMMA CodesReadStep == SignInInv /\ [Next]_vars => CodesAreRead'
<1> SUFFICES ASSUME SignInInv, [Next]_vars, NEW v \in Verifiers PROVE ReadHers(v)'
  BY DEF CodesAreRead, ReadHers
<1>0. SignInTypeOK /\ ReadHers(v)
  BY DEF SignInInv, CodesAreRead, ReadHers
<1>1. CASE UNCHANGED <<vpc, vjob>>
  BY <1>1, WaitingReads
<1>2. ASSUME NEW w \in Verifiers, NEW to, VGoto(w, to), v # w, \A o \in Verifiers \ {w} : vjob'[o] = vjob[o]
      PROVE  ReadHers(v)'
  <2>1. vpc'[v] = vpc[v] /\ vjob'[v] = vjob[v]
    BY <1>0, <1>2 DEF VGoto, SignInTypeOK
  <2> QED BY <2>1, WaitingReads
<1>3. ASSUME NEW w \in Verifiers, VFinish(w) PROVE ReadHers(v)'
  <2>1. CASE v = w
    <3>1. vpc'[v] = "idle"
      BY <1>0, <1>3, <2>1 DEF VFinish, VGoto, SignInTypeOK
    <3> QED BY <3>1 DEF ReadHers
  <2>2. CASE v # w
    <3>1. VGoto(w, "idle") /\ \A o \in Verifiers \ {w} : vjob'[o] = vjob[o]
      BY <1>0, <1>3 DEF VFinish, SignInTypeOK
    <3> QED BY <1>2, <2>2, <3>1
  <2> QED BY <2>1, <2>2
<1>4. ASSUME NEW w \in Verifiers, NEW l \in Links, NEW t \in Tokens, NEW c \in Typed, SubmitCode(w, l, t, c)
      PROVE  ReadHers(v)'
  <2> DEFINE new == [link |-> l, token |-> t, code |-> c, read |-> {}]
  <2>1. VGoto(w, "submitted") /\ vjob' = [vjob EXCEPT ![w] = new] /\ row' = row /\ row[l].state = "gone"
    BY <1>4 DEF SubmitCode, sessionVars, SignInInv, ChallengesAreEarned
  <2>2. new.link = l /\ new.token = t /\ new.code = c
    OBVIOUS
  <2> HIDE DEF new
  <2>3. CASE v = w
    <3>1. vpc'[v] = "submitted" /\ vjob'[v] = new
      BY <1>0, <2>1, <2>3 DEF VGoto, SignInTypeOK
    <3> QED BY <2>1, <2>2, <3>1, SessionsNone DEF ReadHers, Rows
  <2>4. CASE v # w
    BY <1>0, <1>2, <2>1, <2>4 DEF SignInTypeOK
  <2> QED BY <2>3, <2>4
<1>5. ASSUME NEW w \in Verifiers, AcceptTotp(w) PROVE ReadHers(v)'
  <2>1. VGoto(w, "accepted") /\ UNCHANGED <<vjob, row, owner, cli>> /\ vpc[w] = "submitted"
    BY <1>5 DEF AcceptTotp, sessionVars, enrolVars
  <2>2. CASE v = w
    <3>1. AccountOf(v) \in Accounts /\ vpc'[v] = "accepted"
      BY <1>0, <2>1, <2>2, CodeIsSomebodys DEF VGoto, SignInTypeOK
    <3>2. owner[vjob[v].token] = AccountOf(v) /\ cli[vjob[v].token] = "enrolled"
      BY <1>5, <2>2, <3>1, TakenIsEnrolled DEF AcceptTotp
    <3> QED BY <1>0, <2>1, <2>2, <3>1, <3>2 DEF ReadHers, AccountOf
  <2>3. CASE v # w
    BY <1>2, <2>1, <2>3
  <2> QED BY <2>2, <2>3
<1>6. ASSUME NEW w \in Verifiers, MatchBackupCode(w) PROVE ReadHers(v)'
  <2> DEFINE codes == factor[AccountOf(w)].codes
  <2>1. /\ VGoto(w, "matched") /\ vjob' = [vjob EXCEPT ![w] = [vjob[w] EXCEPT !.read = codes]]
        /\ UNCHANGED <<row, owner, cli>> /\ vpc[w] = "submitted" /\ vjob[w].code \in codes
    BY <1>6 DEF MatchBackupCode, sessionVars, enrolVars
  <2> HIDE DEF codes
  <2>2. CASE v = w
    <3>1. AccountOf(v) \in Accounts /\ vpc'[v] = "matched"
      BY <1>0, <2>1, <2>2, CodeIsSomebodys DEF VGoto, SignInTypeOK
    <3>2. owner[vjob[v].token] = AccountOf(v) /\ cli[vjob[v].token] = "enrolled"
      BY <1>6, <2>2, <3>1, TakenIsEnrolled DEF MatchBackupCode
    <3>3. vjob[v] \in VerifyJobs /\ vjob'[v] = [vjob[v] EXCEPT !.read = codes]
      BY <1>0, <2>1, <2>2 DEF SignInTypeOK
    <3>4. /\ vjob'[v].link = vjob[v].link /\ vjob'[v].token = vjob[v].token
          /\ vjob'[v].code = vjob[v].code /\ vjob'[v].read = codes
      BY <3>3 DEF VerifyJobs
    <3> QED BY <1>0, <2>1, <2>2, <3>1, <3>2, <3>4 DEF ReadHers, AccountOf
  <2>3. CASE v # w
    BY <1>0, <1>2, <2>1, <2>3 DEF SignInTypeOK
  <2> QED BY <2>2, <2>3
<1>7. ASSUME NEW w \in Verifiers, SpendBackupCode(w) PROVE ReadHers(v)'
  <2>1. VGoto(w, "accepted") /\ UNCHANGED <<vjob, row, owner, cli>> /\ vpc[w] = "matched"
    BY <1>7 DEF SpendBackupCode, sessionVars, enrolVars
  <2>2. CASE v = w
    <3>1. vpc'[v] = "accepted"
      BY <1>0, <2>1, <2>2 DEF VGoto, SignInTypeOK
    <3> QED BY <1>0, <2>1, <2>2, <3>1 DEF ReadHers, AccountOf
  <2>3. CASE v # w
    BY <1>2, <2>1, <2>3
  <2> QED BY <2>2, <2>3
<1>8. ASSUME NEW w \in Verifiers, Verify(w) PROVE ReadHers(v)'
  BY <1>3, <1>4, <1>5, <1>6, <1>7, <1>8 DEF Verify, OpenAdminSession, GiveUp
<1> QED
  BY <1>1, <1>8
  DEF Next, Enrol, Mint, ExpireEnrolment, Claim, Install, Quit, ExpireChallenge, vars, sessionVars, doorVars, enrolVars

-----------------------------------------------------------------------------
(* A code is spent once *)

SpentOnce(t, c) ==
  /\ (\E s \in SessionIds : SpentBySession(s, t, c)) \/ (\E v \in Verifiers : SpentByRequest(v, t, c)) =>
       \A a \in Accounts : factor[a] # None /\ factor[a].token = t => c \notin factor[a].codes
  /\ \A s, o \in SessionIds : SpentBySession(s, t, c) /\ SpentBySession(o, t, c) => s = o
  /\ \A v, w \in Verifiers : SpentByRequest(v, t, c) /\ SpentByRequest(w, t, c) => v = w
  /\ \A s \in SessionIds, v \in Verifiers : ~(SpentBySession(s, t, c) /\ SpentByRequest(v, t, c))

\* A step that spends nothing more, and gives no spent code back.
LEMMA NothingSpent ==
  ASSUME SignInInv, NEW t \in Tokens, NEW c \in Codes,
         \A s \in SessionIds : SpentBySession(s, t, c)' => SpentBySession(s, t, c),
         \A v \in Verifiers : SpentByRequest(v, t, c)' => SpentByRequest(v, t, c),
         \/ /\ \A s \in SessionIds : ~SpentBySession(s, t, c)
            /\ \A v \in Verifiers : ~SpentByRequest(v, t, c)
         \/ \A a \in Accounts :
              factor'[a] # None /\ factor'[a].token = t /\ c \in factor'[a].codes =>
                factor[a] # None /\ factor[a].token = t /\ c \in factor[a].codes
  PROVE  SpentOnce(t, c)'
<1>1. SpentOnce(t, c)
  BY DEF SignInInv, CodesAreSpentOnce, SpentOnce
<1>2. (\E s \in SessionIds : SpentBySession(s, t, c)') \/ (\E v \in Verifiers : SpentByRequest(v, t, c)') =>
        \A a \in Accounts : factor'[a] # None /\ factor'[a].token = t => c \notin factor'[a].codes
  BY <1>1 DEF SpentOnce
<1>3. /\ \A s, o \in SessionIds : SpentBySession(s, t, c)' /\ SpentBySession(o, t, c)' => s = o
      /\ \A v, w \in Verifiers : SpentByRequest(v, t, c)' /\ SpentByRequest(w, t, c)' => v = w
      /\ \A s \in SessionIds, v \in Verifiers : ~(SpentBySession(s, t, c)' /\ SpentByRequest(v, t, c)')
  BY <1>1 DEF SpentOnce
<1> QED BY <1>2, <1>3 DEF SpentOnce

\* No session appears as spent but through the Admin's door.
LEMMA SessionsSpendNothing ==
  ASSUME SignInInv, [Next]_vars, NEW t \in Tokens, NEW c \in Codes, NEW s \in SessionIds,
         \A v \in Verifiers : ~OpenAdminSession(v, s)
  PROVE  SpentBySession(s, t, c)' => SpentBySession(s, t, c)
<1> SUFFICES ASSUME session'[s].state # "unused", session'[s].token = t, session'[s].code = c
    PROVE  SpentBySession(s, t, c)
  BY DEF SpentBySession, Opened
<1>1. CASE session[s].state # "unused"
  BY <1>1, SessionsGoOn DEF SessionGoesOn, SameSession, SpentBySession, Opened
<1>2. CASE session[s].state = "unused"
  <2>1. PICK r \in Requests : CreateSession(r, s)
    BY <1>2, SessionsGoOn DEF SessionGoesOn
  <2>2. session'[s].token = None
    BY <2>1, PublicSessionInserted
  <2> QED BY <2>2, SessionsNone
<1> QED BY <1>1, <1>2

\* A code that was spent belongs to an enrolment that was finished.
LEMMA SpentIsEnrolled ==
  ASSUME SignInInv, NEW t \in Tokens, NEW c \in Codes,
         (\E s \in SessionIds : SpentBySession(s, t, c)) \/ (\E v \in Verifiers : SpentByRequest(v, t, c))
  PROVE  cli[t] = "enrolled"
<1>1. ASSUME NEW s \in SessionIds, SpentBySession(s, t, c) PROVE cli[t] = "enrolled"
  BY <1>1, SessionsNone DEF SpentBySession, SignInInv, SessionsAreExplained
<1>2. ASSUME NEW v \in Verifiers, SpentByRequest(v, t, c) PROVE cli[t] = "enrolled"
  BY <1>2 DEF SpentByRequest, SignInInv, CodesAreRead
<1> QED BY <1>1, <1>2

LEMMA SpentStep == SignInInv /\ [Next]_vars => CodesAreSpentOnce'
<1> SUFFICES ASSUME SignInInv, [Next]_vars, NEW t \in Tokens, NEW c \in Codes PROVE SpentOnce(t, c)'
  BY DEF CodesAreSpentOnce, SpentOnce
<1>0. SignInTypeOK /\ SpentOnce(t, c)
  BY DEF SignInInv, CodesAreSpentOnce, SpentOnce
<1>1. ASSUME UNCHANGED <<vpc, vjob>>, \A v \in Verifiers, s \in SessionIds : ~OpenAdminSession(v, s)
      PROVE  /\ \A s \in SessionIds : SpentBySession(s, t, c)' => SpentBySession(s, t, c)
             /\ \A v \in Verifiers : SpentByRequest(v, t, c)' => SpentByRequest(v, t, c)
  BY <1>1, SessionsSpendNothing DEF SpentByRequest
\* Opening takes the request back to where it started.
<1>2. ASSUME NEW v \in Verifiers, NEW s \in SessionIds, OpenAdminSession(v, s)
      PROVE  vpc[v] = "accepted" /\ vpc'[v] = "idle" /\ UNCHANGED factor
  BY <1>0, <1>2 DEF OpenAdminSession, VFinish, VGoto, SignInTypeOK
<1>3. CASE UNCHANGED <<vpc, vjob, factor>>
  <2>1. \A v \in Verifiers, s \in SessionIds : ~OpenAdminSession(v, s)
    BY <1>2, <1>3
  <2> QED BY <1>1, <1>3, <2>1, NothingSpent
<1>4. ASSUME NEW u \in Tokens, Install(u) PROVE SpentOnce(t, c)'
  <2>1. UNCHANGED <<vpc, vjob>> /\ cli[u] = "claimed"
    BY <1>4 DEF Install
  <2>2. \A v \in Verifiers, s \in SessionIds : ~OpenAdminSession(v, s)
    BY <1>2, <2>1
  <2>3. CASE t = u
    <3>1. /\ \A s \in SessionIds : ~SpentBySession(s, t, c)
          /\ \A v \in Verifiers : ~SpentByRequest(v, t, c)
      BY <2>1, <2>3, SpentIsEnrolled
    <3> QED BY <1>1, <2>1, <2>2, <3>1, NothingSpent
  <2>4. CASE t # u
    <3>1. ASSUME NEW a \in Accounts, factor'[a] # None, factor'[a].token = t PROVE factor'[a] = factor[a]
      <4>1. CASE a = owner[u]
        <5>1. factor'[a] = [token |-> u, codes |-> Codes]
          BY <1>0, <1>4, <4>1 DEF Install, SignInTypeOK
        <5> QED BY <2>4, <3>1, <5>1
      <4>2. CASE a # owner[u]
        BY <1>0, <1>4, <4>2 DEF Install, SignInTypeOK
      <4> QED BY <4>1, <4>2
    <3>2. \A a \in Accounts :
            factor'[a] # None /\ factor'[a].token = t /\ c \in factor'[a].codes =>
              factor[a] # None /\ factor[a].token = t /\ c \in factor[a].codes
      BY <3>1
    <3> QED BY <1>1, <2>1, <2>2, <3>2, NothingSpent
  <2> QED BY <2>3, <2>4
\* A code that is not accepted, or no backup code, spends nothing.
<1>5. ASSUME UNCHANGED factor, \A v \in Verifiers, s \in SessionIds : ~OpenAdminSession(v, s),
             \A v \in Verifiers : SpentByRequest(v, t, c)' => SpentByRequest(v, t, c)
      PROVE  SpentOnce(t, c)'
  BY <1>5, SessionsSpendNothing, NothingSpent
<1>6. ASSUME NEW v \in Verifiers, vpc' = [vpc EXCEPT ![v] = vpc'[v]], vpc'[v] # "accepted",
             vjob' = [vjob EXCEPT ![v] = vjob'[v]]
      PROVE  \A w \in Verifiers : SpentByRequest(w, t, c)' => SpentByRequest(w, t, c)
  <2>1. \A w \in Verifiers \ {v} : vpc'[w] = vpc[w] /\ vjob'[w] = vjob[w]
    BY <1>0, <1>6 DEF SignInTypeOK
  <2> QED BY <1>6, <2>1 DEF SpentByRequest
<1>7. ASSUME NEW v \in Verifiers, NEW l \in Links, NEW u \in Tokens, NEW d \in Typed, SubmitCode(v, l, u, d)
      PROVE  SpentOnce(t, c)'
  <2>1. /\ vpc' = [vpc EXCEPT ![v] = "submitted"] /\ UNCHANGED factor
        /\ \E new : vjob' = [vjob EXCEPT ![v] = new]
    BY <1>7 DEF SubmitCode, VGoto
  <2>2. vpc'[v] = "submitted" /\ vjob' = [vjob EXCEPT ![v] = vjob'[v]]
    BY <1>0, <2>1 DEF SignInTypeOK
  <2>3. session' = session
    BY <1>7 DEF SubmitCode, sessionVars
  <2>4. \A w \in Verifiers, s \in SessionIds : ~OpenAdminSession(w, s)
    BY <2>3, AdminSessionInserted
  <2> QED BY <1>5, <1>6, <2>1, <2>2, <2>4
<1>8. ASSUME NEW v \in Verifiers, AcceptTotp(v) PROVE SpentOnce(t, c)'
  <2>1. /\ vpc' = [vpc EXCEPT ![v] = "accepted"] /\ UNCHANGED <<factor, vjob>> /\ vjob[v].code = "totp"
        /\ session' = session
    BY <1>8 DEF AcceptTotp, VGoto, sessionVars
  <2>2. \A w \in Verifiers : SpentByRequest(w, t, c)' => SpentByRequest(w, t, c)
    BY <1>0, <2>1, TotpIsNoBackupCode DEF SpentByRequest, SignInTypeOK
  <2>3. \A w \in Verifiers, s \in SessionIds : ~OpenAdminSession(w, s)
    BY <2>1, AdminSessionInserted
  <2> QED BY <1>5, <2>1, <2>2, <2>3
<1>9. ASSUME NEW v \in Verifiers, MatchBackupCode(v) PROVE SpentOnce(t, c)'
  <2>1. /\ vpc' = [vpc EXCEPT ![v] = "matched"] /\ UNCHANGED factor
        /\ \E new : vjob' = [vjob EXCEPT ![v] = new]
        /\ session' = session
    BY <1>9 DEF MatchBackupCode, VGoto, sessionVars
  <2>2. vpc'[v] = "matched" /\ vjob' = [vjob EXCEPT ![v] = vjob'[v]]
    BY <1>0, <2>1 DEF SignInTypeOK
  <2>3. \A w \in Verifiers, s \in SessionIds : ~OpenAdminSession(w, s)
    BY <2>1, AdminSessionInserted
  <2> QED BY <1>5, <1>6, <2>1, <2>2, <2>3
<1>10. ASSUME NEW v \in Verifiers, GiveUp(v) PROVE SpentOnce(t, c)'
  <2>1. /\ vpc' = [vpc EXCEPT ![v] = "idle"] /\ vjob' = [vjob EXCEPT ![v] = NoVerify] /\ UNCHANGED factor
        /\ session' = session
    BY <1>10 DEF GiveUp, VFinish, VGoto, sessionVars
  <2>2. vpc'[v] = "idle" /\ vjob' = [vjob EXCEPT ![v] = vjob'[v]]
    BY <1>0, <2>1 DEF SignInTypeOK
  <2>3. \A w \in Verifiers, s \in SessionIds : ~OpenAdminSession(w, s)
    BY <2>1, AdminSessionInserted
  <2> QED BY <1>5, <1>6, <2>1, <2>2, <2>3
\* The one step that spends: what it read is what it writes over.
<1>11. ASSUME NEW v \in Verifiers, SpendBackupCode(v) PROVE SpentOnce(t, c)'
  <2> DEFINE a == AccountOf(v)
             T == vjob[v].token
             R == vjob[v].read
             C == vjob[v].code
  <2>1. /\ vpc[v] = "matched" /\ vpc' = [vpc EXCEPT ![v] = "accepted"]
        /\ factor[a] = [token |-> T, codes |-> R]
        /\ factor' = [factor EXCEPT ![a] = [factor[a] EXCEPT !.codes = R \ {C}]]
        /\ UNCHANGED vjob /\ session' = session
    BY <1>11 DEF SpendBackupCode, VGoto, StillAsRead, Remaining, sessionVars
  <2>2. a \in Accounts /\ T \in Tokens /\ C \in R /\ R \subseteq Codes /\ owner[T] = a
    BY <2>1, CodeIsSomebodys DEF SignInInv, CodesAreRead
  <2> HIDE DEF a, T, R, C
  <2>3. factor'[a].token = T /\ factor'[a].codes = R \ {C} /\ \A b \in Accounts \ {a} : factor'[b] = factor[b]
    BY <1>0, <2>1, <2>2 DEF SignInTypeOK
  <2>3a. factor[a].token = T /\ factor[a].codes = R
    BY <2>1
  <2>3b. factor[a] # None
    <3>1. [token |-> T, codes |-> R] \in Factors
      BY <2>1, <2>2 DEF Factors
    <3> QED BY <2>1, <3>1, FactorsAreNotNone
  <2>4. \A s \in SessionIds : SpentBySession(s, t, c)' <=> SpentBySession(s, t, c)
    BY <2>1 DEF SpentBySession, Opened
  <2>5. \A w \in Verifiers : SpentByRequest(w, t, c)' <=>
          SpentByRequest(w, t, c) \/ (w = v /\ T = t /\ C = c)
    BY <1>0, <2>1 DEF SpentByRequest, SignInTypeOK, T, C
  <2>6. \A b \in Accounts :
          factor'[b] # None /\ factor'[b].token = t /\ c \in factor'[b].codes =>
            factor[b] # None /\ factor[b].token = t /\ c \in factor[b].codes
    BY <2>2, <2>3, <2>3a, <2>3b
  <2>7. CASE ~(T = t /\ C = c)
    BY <2>4, <2>5, <2>6, <2>7, NothingSpent
  <2>8. CASE T = t /\ C = c
    <3>1. /\ \A s \in SessionIds : ~SpentBySession(s, t, c)
          /\ \A w \in Verifiers : ~SpentByRequest(w, t, c)
      BY <1>0, <2>2, <2>3a, <2>3b, <2>8 DEF SpentOnce
    <3>2. \A b \in Accounts : factor'[b] # None /\ factor'[b].token = t => c \notin factor'[b].codes
      <4>1. ASSUME NEW b \in Accounts \ {a}, factor'[b] # None, factor'[b].token = t PROVE FALSE
        BY <2>2, <2>3, <2>8, <4>1 DEF SignInInv, FactorsAreEnrolled
      <4> QED BY <2>3, <2>8, <4>1
    <3> QED BY <2>4, <2>5, <3>1, <3>2 DEF SpentOnce
  <2> QED BY <2>7, <2>8
<1>12. ASSUME NEW v \in Verifiers, NEW s \in SessionIds, OpenAdminSession(v, s) PROVE SpentOnce(t, c)'
  <2>1. /\ vpc[v] = "accepted" /\ vpc'[v] = "idle" /\ UNCHANGED factor
        /\ \A w \in Verifiers \ {v} : vpc'[w] = vpc[w] /\ vjob'[w] = vjob[w]
    BY <1>0, <1>2, <1>12 DEF OpenAdminSession, VFinish, VGoto, SignInTypeOK
  <2>2. /\ session[s].state = "unused"
        /\ session'[s].token = vjob[v].token /\ session'[s].code = vjob[v].code
        /\ \A o \in SessionIds \ {s} : session'[o] = session[o]
    BY <1>12, AdminSessionInserted
  <2>3. \A o \in SessionIds : SpentBySession(o, t, c)' =>
          SpentBySession(o, t, c) \/ (o = s /\ SpentByRequest(v, t, c))
    BY <2>1, <2>2 DEF SpentBySession, SpentByRequest, Opened
  <2>4. \A w \in Verifiers : SpentByRequest(w, t, c)' => SpentByRequest(w, t, c) /\ w # v
    BY <2>1 DEF SpentByRequest
  <2>5. ~SpentBySession(s, t, c)
    BY <2>2 DEF SpentBySession, Opened
  <2>6. (\E o \in SessionIds : SpentBySession(o, t, c)') \/ (\E w \in Verifiers : SpentByRequest(w, t, c)') =>
          \A a \in Accounts : factor'[a] # None /\ factor'[a].token = t => c \notin factor'[a].codes
    BY <1>0, <2>1, <2>3, <2>4 DEF SpentOnce
  <2>7. /\ \A p, o \in SessionIds : SpentBySession(p, t, c)' /\ SpentBySession(o, t, c)' => p = o
        /\ \A x, w \in Verifiers : SpentByRequest(x, t, c)' /\ SpentByRequest(w, t, c)' => x = w
        /\ \A o \in SessionIds, w \in Verifiers : ~(SpentBySession(o, t, c)' /\ SpentByRequest(w, t, c)')
    BY <1>0, <2>3, <2>4, <2>5 DEF SpentOnce
  <2> QED BY <2>6, <2>7 DEF SpentOnce
<1>13. ASSUME NEW v \in Verifiers, Verify(v) PROVE SpentOnce(t, c)'
  BY <1>7, <1>8, <1>9, <1>10, <1>11, <1>12, <1>13 DEF Verify
<1> QED
  BY <1>3, <1>4, <1>13
  DEF Next, Enrol, Mint, ExpireEnrolment, Claim, Quit, ExpireChallenge, vars, sessionVars, doorVars, enrolVars
-----------------------------------------------------------------------------
(* A consumed row *)

LEMMA HeldIsGone ==
  ASSUME SignInInv, NEW r \in Requests, NEW l, Holds(r, l)
  PROVE  l \in Rows /\ row[l].state = "gone" /\ pc[r] \in OpeningPCs /\ job[r].origin = l
<1>1. pc[r] \in OpeningPCs /\ pc[r] # "opening" /\ job[r].origin = l
  BY DEF Holds, OpeningPCs
<1>2. l \in Rows
  BY <1>1, OpeningIsSomebodys
<1> QED BY <1>1, <1>2 DEF SignInInv, JobsCarryTheAnswer

LEMMA EarnedIsGone ==
  ASSUME SignInInv, NEW l, Earned(l)
  PROVE  row[l].state = "gone"
BY DEF Earned, SignInInv, ChallengesAreEarned, CodesAreRead

\* A request that goes elsewhere holds nothing there; the others hold what they held.
LEMMA GoingElsewhere ==
  ASSUME SignInTypeOK, NEW r \in Requests, NEW to, to \notin {"consumed", "creating"},
         pc' = [pc EXCEPT ![r] = to],
         job' = job \/ \E with : job' = [job EXCEPT ![r] = with]
  PROVE  \A q \in Requests, l \in Rows : Holds(q, l)' <=> q # r /\ Holds(q, l)
<1>1. pc'[r] = to /\ \A q \in Requests : q # r => pc'[q] = pc[q] /\ job'[q] = job[q]
  BY DEF SignInTypeOK
<1> QED BY <1>1 DEF Holds

\* A step after which nobody holds more, and what is earned anew nobody holds.
LEMMA HoldsNoMore ==
  ASSUME SignInInv,
         \A q \in Requests, l \in Rows : Holds(q, l)' => Holds(q, l),
         \A l \in Rows : Earned(l)' => Earned(l) \/ \A q \in Requests : ~Holds(q, l)'
  PROVE  RowsAreHeldOnce'
<1> SUFFICES ASSUME NEW r \in Requests, NEW l \in Rows, Holds(r, l)'
    PROVE  (\A q \in Requests : Holds(q, l)' => q = r) /\ ~Earned(l)'
  BY DEF RowsAreHeldOnce
<1>1. (\A q \in Requests : Holds(q, l) => q = r) /\ ~Earned(l)
  BY DEF SignInInv, RowsAreHeldOnce
<1> QED BY <1>1

LEMMA ConsumedOnce == ASSUME SignInInv, NEW r \in Requests, Consume(r), UNCHANGED doorVars PROVE RowsAreHeldOnce'
<1> DEFINE k == job[r].origin
<1>1. pc'[r] = "consumed" /\ pc[r] = "opening" /\ job' = job
      /\ \A q \in Requests : q # r => pc'[q] = pc[q]
  BY DEF Consume, Goto, SignInInv, SignInTypeOK
<1>2. UNCHANGED <<challenges, vpc, vjob>> /\ row[k].state = "live"
  BY DEF Consume, doorVars
<1>3. \A q \in Requests : ~Holds(q, k)
  BY <1>2, HeldIsGone
<1>4. ~Earned(k)
  BY <1>2, EarnedIsGone
<1>5. \A l \in Rows : Earned(l)' <=> Earned(l)
  BY <1>2 DEF Earned
<1>6. \A q \in Requests, l \in Rows : Holds(q, l)' <=> Holds(q, l) \/ (q = r /\ l = k)
  BY <1>1 DEF Holds
<1> QED BY <1>3, <1>4, <1>5, <1>6 DEF SignInInv, RowsAreHeldOnce

LEMMA PublicHeldStep == SignInInv /\ SessionsNext /\ UNCHANGED doorVars => RowsAreHeldOnce'
<1> SUFFICES ASSUME SignInInv, SessionsNext, UNCHANGED doorVars PROVE RowsAreHeldOnce'
  OBVIOUS
<1>0. SignInTypeOK /\ UNCHANGED <<vpc, vjob>>
  BY DEF SignInInv, doorVars
<1>1. CASE UNCHANGED <<pc, job, challenges>>
  BY <1>0, <1>1, HoldsNoMore DEF Holds, Earned
<1>2. ASSUME NEW r \in Requests, NEW to, to \notin {"consumed", "creating"}, pc' = [pc EXCEPT ![r] = to],
             job' = job \/ \E with : job' = [job EXCEPT ![r] = with], UNCHANGED challenges
      PROVE  RowsAreHeldOnce'
  <2>1. \A q \in Requests, l \in Rows : Holds(q, l)' => Holds(q, l)
    BY <1>0, <1>2, GoingElsewhere
  <2>2. \A l \in Rows : Earned(l)' => Earned(l)
    BY <1>0, <1>2 DEF Earned
  <2> QED BY <2>1, <2>2, HoldsNoMore
<1>3. ASSUME NEW r \in Requests, PassTheDoor(r) PROVE RowsAreHeldOnce'
  <2>1. pc[r] = "consumed" /\ UNCHANGED <<job, challenges>> /\ \A q \in Requests : q # r => pc'[q] = pc[q]
    BY <1>0, <1>3 DEF PassTheDoor, Goto, SignInTypeOK
  <2>2. \A q \in Requests, l \in Rows : Holds(q, l)' => Holds(q, l)
    BY <2>1 DEF Holds
  <2>3. \A l \in Rows : Earned(l)' => Earned(l)
    BY <1>0, <2>1 DEF Earned
  <2> QED BY <2>2, <2>3, HoldsNoMore
\* The one who held it goes, and leaves the challenge.
<1>4. ASSUME NEW r \in Requests, RefuseTheDoor(r) PROVE RowsAreHeldOnce'
  <2>0. PICK k \in Rows : k = job[r].origin /\ Holds(r, k)
    <3>1. Holds(r, job[r].origin)
      BY <1>4 DEF RefuseTheDoor, Holds
    <3> QED BY <3>1, HeldIsGone
  <2>1. /\ pc' = [pc EXCEPT ![r] = "idle"] /\ job' = [job EXCEPT ![r] = NoJob]
        /\ challenges' \subseteq challenges \cup {k}
    BY <1>4, <2>0 DEF RefuseTheDoor, Finish, Goto, Carry
  <2>2. \A q \in Requests, l \in Rows : Holds(q, l)' <=> q # r /\ Holds(q, l)
    BY <1>0, <2>1, GoingElsewhere
  <2>4. \A q \in Requests : ~Holds(q, k)'
    BY <2>0, <2>2 DEF SignInInv, RowsAreHeldOnce
  <2>5. \A l \in Rows : Earned(l)' => Earned(l) \/ l = k
    BY <1>0, <2>1 DEF Earned
  <2> QED BY <2>2, <2>4, <2>5, HoldsNoMore
<1>5. ASSUME NEW r \in Requests, NEW l \in Links, OpenLink(r, l) PROVE RowsAreHeldOnce'
  BY <1>2, <1>5 DEF OpenLink, Goto, Carry
<1>6. ASSUME NEW r \in Requests, NEW b \in Browsers, NEW a \in Accounts, GoogleCallback(r, b, a)
      PROVE  RowsAreHeldOnce'
  BY <1>2, <1>6 DEF GoogleCallback, Goto, Carry
<1>7. ASSUME NEW r \in Requests, NEW s \in SessionIds, CreateSession(r, s) PROVE RowsAreHeldOnce'
  BY <1>2, <1>7 DEF CreateSession, Finish, Goto, Carry
<1>8. ASSUME NEW r \in Requests, Leave(r) PROVE RowsAreHeldOnce'
  BY <1>2, <1>8 DEF Leave, Finish, Goto, Carry
<1>9. ASSUME NEW r \in Requests, CloseOne(r) PROVE RowsAreHeldOnce'
  BY <1>2, <1>9 DEF CloseOne, SignOut, LibrarySignOut, ConfirmSignOut, Goto, Carry
<1>10. ASSUME NEW r \in Requests, CloseMany(r) PROVE RowsAreHeldOnce'
  BY <1>2, <1>10
  DEF CloseMany, SignOutEverywhere, CountBefore, RevokeOtherSessions, CountAfter, AuthoriseRevoke, RevokeSessions,
      Finish, Goto, Carry
<1> QED
  BY <1>1, <1>3, <1>4, <1>5, <1>6, <1>7, <1>8, <1>9, <1>10, ConsumedOnce
  DEF SessionsNext, Ask, Open, StoreLink, MailLink, StartGoogle, ExpireRow, ExpireSession

LEMMA HeldStep == SignInInv /\ [Next]_vars => RowsAreHeldOnce'
<1> SUFFICES ASSUME SignInInv, [Next]_vars PROVE RowsAreHeldOnce'
  OBVIOUS
<1>0. SignInTypeOK
  BY DEF SignInInv
<1>1. CASE SessionsNext /\ UNCHANGED doorVars
  BY <1>1, PublicHeldStep
<1>2. ASSUME UNCHANGED <<pc, job>>, challenges' \subseteq challenges,
             \A v \in Verifiers : vpc'[v] # "idle" =>
               \/ vpc[v] # "idle" /\ vjob'[v].link = vjob[v].link
               \/ vjob'[v].link \in challenges
      PROVE  RowsAreHeldOnce'
  <2>1. \A l \in Rows : Earned(l)' => Earned(l)
    BY <1>2 DEF Earned
  <2> QED BY <1>2, <2>1, HoldsNoMore DEF Holds
<1>3. CASE UNCHANGED <<pc, job, challenges, vpc, vjob>>
  BY <1>2, <1>3
<1>4. ASSUME NEW v \in Verifiers, NEW l \in Links, NEW t \in Tokens, NEW c \in Typed, SubmitCode(v, l, t, c)
      PROVE  RowsAreHeldOnce'
  <2>1. vjob'[v].link = l /\ \A w \in Verifiers : w # v => vpc'[w] = vpc[w] /\ vjob'[w] = vjob[w]
    BY <1>0, <1>4 DEF SubmitCode, VGoto, SignInTypeOK
  <2> QED BY <1>2, <1>4, <2>1 DEF SubmitCode, sessionVars
<1>5. ASSUME NEW v \in Verifiers, AcceptTotp(v) \/ SpendBackupCode(v) PROVE RowsAreHeldOnce'
  <2>1. vpc[v] # "idle" /\ vjob' = vjob /\ \A w \in Verifiers : w # v => vpc'[w] = vpc[w]
    BY <1>0, <1>5 DEF AcceptTotp, SpendBackupCode, VGoto, SignInTypeOK
  <2> QED BY <1>2, <1>5, <2>1 DEF AcceptTotp, SpendBackupCode, sessionVars
<1>6. ASSUME NEW v \in Verifiers, MatchBackupCode(v) PROVE RowsAreHeldOnce'
  <2> DEFINE read == factor[AccountOf(v)].codes
  <2>1. /\ vpc[v] # "idle" /\ vjob' = [vjob EXCEPT ![v] = [vjob[v] EXCEPT !.read = read]]
        /\ \A w \in Verifiers : w # v => vpc'[w] = vpc[w]
    BY <1>0, <1>6 DEF MatchBackupCode, VGoto, SignInTypeOK
  <2> HIDE DEF read
  <2>2. \A w \in Verifiers : vjob'[w].link = vjob[w].link
    <3>1. [vjob[v] EXCEPT !.read = read].link = vjob[v].link
      BY <1>0 DEF SignInTypeOK, VerifyJobs
    <3> QED BY <1>0, <2>1, <3>1 DEF SignInTypeOK
  <2> QED BY <1>2, <1>6, <2>1, <2>2 DEF MatchBackupCode, sessionVars
<1>7. ASSUME NEW v \in Verifiers, vpc' = [vpc EXCEPT ![v] = "idle"], vjob' = [vjob EXCEPT ![v] = NoVerify],
             UNCHANGED <<pc, job>>, challenges' \subseteq challenges
      PROVE  RowsAreHeldOnce'
  <2>1. vpc'[v] = "idle" /\ \A w \in Verifiers : w # v => vpc'[w] = vpc[w] /\ vjob'[w] = vjob[w]
    BY <1>0, <1>7 DEF SignInTypeOK
  <2> QED BY <1>2, <1>7, <2>1
<1>8. ASSUME NEW v \in Verifiers, GiveUp(v) PROVE RowsAreHeldOnce'
  BY <1>7, <1>8 DEF GiveUp, VFinish, VGoto, sessionVars
<1>9. ASSUME NEW v \in Verifiers, NEW s \in SessionIds, OpenAdminSession(v, s) PROVE RowsAreHeldOnce'
  BY <1>7, <1>9 DEF OpenAdminSession, VFinish, VGoto
<1>10. ASSUME NEW l \in Links, ExpireChallenge(l) PROVE RowsAreHeldOnce'
  BY <1>2, <1>10 DEF ExpireChallenge, doorVars
<1> QED
  BY <1>1, <1>3, <1>4, <1>5, <1>6, <1>8, <1>9, <1>10
  DEF Next, Enrol, Mint, ExpireEnrolment, Claim, Install, Quit, Verify, vars, sessionVars, doorVars, enrolVars
-----------------------------------------------------------------------------
(* Theorems *)

LEMMA SignInStep == SignInInv /\ [Next]_vars => SignInInv'
BY SignInTypeStep, RowsStep, JobsStep, ClosingStep, SessionsStep, FactorsStep, CodesReadStep, SpentStep, HeldStep DEF SignInInv

\* The inductive invariant: rows, requests, sessions, challenges and factors, for
\* any number of each (packages/domain/src/auth and packages/domain/src/admin).
THEOREM SignInInvariant == Spec => []SignInInv
BY SignInInitInv, SignInStep, PTL DEF Spec

THEOREM SignInTypeCorrect == Spec => []SignInTypeOK
<1>1. SignInInv => SignInTypeOK
  BY DEF SignInInv
<1> QED BY <1>1, SignInInvariant, PTL

\* The life of a session is the answer its row carried (sign-in-attempt.ts:196-204).
THEOREM AnswerIsKept == Spec => []AnswerReachesSession
<1>1. SignInInv => AnswerReachesSession
  BY DEF SignInInv
<1> QED BY <1>1, SignInInvariant, PTL

\* No public door opens to a request that came after the grant (auth/config.ts:829-908).
THEOREM OneDoorForAdmins == Spec => []AdminsHaveOneDoor
<1>1. SignInInv => AdminsHaveOneDoor
  BY DEF SignInInv
<1> QED BY <1>1, SignInInvariant, PTL

\* Authority over others rests on a consumed link and a code of her own factor
\* (admin/actor.ts:75-81).
THEOREM AuthorityIsTwoFactors == Spec => []AuthorityNeedsBothFactors
<1>1. ASSUME SignInInv, NEW s \in SessionIds, RequireAdminSession(s)
      PROVE  /\ session[s].origin \in Links
             /\ row[session[s].origin].state = "gone"
             /\ row[session[s].origin].account = session[s].account
             /\ session[s].token # None
             /\ owner[session[s].token] = session[s].account
             /\ cli[session[s].token] = "enrolled"
  <2>1. s \in Opened /\ session[s].method = "link_totp"
    BY <1>1 DEF RequireAdminSession, IsLive, Opened
  <2> QED BY <1>1, <2>1 DEF SignInInv, SessionsAreExplained
<1>2. SignInInv => AuthorityNeedsBothFactors
  BY <1>1 DEF AuthorityNeedsBothFactors
<1> QED BY <1>2, SignInInvariant, PTL

\* A backup code opens one session (admin/door.ts:156-184).
THEOREM CodesOpenOnce == Spec => []EachCodeOpensOnce
<1>1. ASSUME SignInInv, NEW s \in Opened, NEW o \in Opened, session[s].code \in Codes,
             session[s].token = session[o].token, session[s].code = session[o].code
      PROVE  s = o
  <2>1. session[s].token \in Tokens
    <3>1. session[s].token \in Tokens \cup {None} /\ session[s].code # None
      BY <1>1, SessionsNone DEF SignInInv, SignInTypeOK, Opened, SessionRecords, Typed
    <3> QED BY <1>1, <3>1 DEF SignInInv, SessionsAreExplained
  <2>2. /\ SpentBySession(s, session[s].token, session[s].code)
        /\ SpentBySession(o, session[s].token, session[s].code)
    BY <1>1 DEF SpentBySession
  <2> QED BY <1>1, <2>1, <2>2 DEF SignInInv, CodesAreSpentOnce, Opened
<1>2. SignInInv => EachCodeOpensOnce
  BY <1>1 DEF EachCodeOpensOnce
<1> QED BY <1>2, SignInInvariant, PTL

\* Whoever is told she is signed out is (auth/index.ts:444-517).
THEOREM SignedOutIsOut == Spec => []SignOutIsTrue
<1>1. SignInInv => SignOutIsTrue
  BY DEF SignInInv
<1> QED BY <1>1, SignInInvariant, PTL

\* And everywhere, of the sessions that were open when she asked (auth/index.ts:706-803).
THEOREM SignedOutEverywhereIsOut == Spec => []SignedOutEverywhereIsTrue
<1>1. SignInInv => SignedOutEverywhereIsTrue
  BY DEF SignInInv
<1> QED BY <1>1, SignInInvariant, PTL

=============================================================================
