--------------------------- MODULE SignInPromise_proofs ---------------------------
(***************************************************************************)
(* AdminDoor implements SignInPromise: every step of the doors is a step of  *)
(* the promise or none; and what follows from the promise.                  *)
(***************************************************************************)
EXTENDS SignIn_proofs

-----------------------------------------------------------------------------
(* What a step leaves of the promise's variables *)

\* What `Standing` tells apart of a row.
LEMMA SameStanding ==
  ASSUME NEW l, row'[l].state = "unsent" <=> row[l].state = "unsent",
         row'[l].state = "live" <=> row[l].state = "live",
         \A q \in Requests : Holds(q, l)' <=> Holds(q, l),
         Earned(l)' <=> Earned(l)
  PROVE  Standing(l)' = Standing(l)
BY DEF Standing

LEMMA StandingsFrame ==
  ASSUME UNCHANGED row, \A q \in Requests, l \in Rows : Holds(q, l)' <=> Holds(q, l),
         \A l \in Rows : Earned(l)' <=> Earned(l)
  PROVE  UNCHANGED Standings
<1>1. \A l \in Rows : Standing(l)' = Standing(l)
  BY SameStanding
<1> QED BY <1>1 DEF Standings

LEMMA StandingsBut ==
  ASSUME NEW k \in Rows, NEW z, Standing(k)' = z,
         \A l \in Rows : l # k => Standing(l)' = Standing(l)
  PROVE  Standings' = [Standings EXCEPT ![k] = z]
BY DEF Standings

LEMMA AnswersFrame ==
  ASSUME \A l \in Rows : row'[l].shared = row[l].shared,
         \A l \in Links : row'[l].account = row[l].account
  PROVE  UNCHANGED <<SharedAnswers, AskedBy>>
<1>1. UNCHANGED SharedAnswers
  BY DEF SharedAnswers
<1>2. UNCHANGED AskedBy
  BY DEF AskedBy
<1> QED BY <1>1, <1>2

LEMMA CodesFrame ==
  ASSUME \A t \in Tokens, c \in Codes : MayOpen(t, c)' <=> MayOpen(t, c)
  PROVE  UNCHANGED UsableCodes
<1>1. \A t \in Tokens : {c \in Codes : MayOpen(t, c)'} = {c \in Codes : MayOpen(t, c)}
  OBVIOUS
<1> QED BY <1>1 DEF UsableCodes

LEMMA SpentFrame ==
  ASSUME UNCHANGED factor,
         \A v \in Verifiers, t \in Tokens, c \in Codes : SpentByRequest(v, t, c)' <=> SpentByRequest(v, t, c)
  PROVE  UNCHANGED UsableCodes
<1>1. \A t \in Tokens, c \in Codes : MayOpen(t, c)' <=> MayOpen(t, c)
  BY DEF MayOpen
<1> QED BY <1>1, CodesFrame

LEMMA EnrolledFrame ==
  ASSUME \A t \in Tokens : /\ cli'[t] = "enrolled" <=> cli[t] = "enrolled"
                           /\ cli[t] = "enrolled" => owner'[t] = owner[t]
  PROVE  UNCHANGED EnrolledFor
<1>1. \A t \in Tokens :
        (IF cli'[t] = "enrolled" THEN owner'[t] ELSE None) = (IF cli[t] = "enrolled" THEN owner[t] ELSE None)
  OBVIOUS
<1> QED BY <1>1 DEF EnrolledFor

LEMMA SessionsFrame == ASSUME UNCHANGED session PROVE UNCHANGED OpenedSessions
BY DEF OpenedSessions, AsOpened

\* The door's own variables, while a public step runs.
LEMMA DoorFrame ==
  ASSUME UNCHANGED doorVars
  PROVE  UNCHANGED <<EnrolledFor, UsableCodes>>
<1>1. UNCHANGED EnrolledFor
  BY EnrolledFrame DEF doorVars, enrolVars
<1>2. UNCHANGED UsableCodes
  BY SpentFrame DEF doorVars, SpentByRequest
<1> QED BY <1>1, <1>2

LEMMA EarnedFrame ==
  ASSUME UNCHANGED <<challenges, vpc, vjob>>
  PROVE  \A l : Earned(l)' <=> Earned(l)
BY DEF Earned

\* A request that only changes what it carries is no step of the promise.
LEMMA PublicStutter ==
  ASSUME UNCHANGED <<isAdmin, row, challenges, session, doorVars>>,
         \A q \in Requests, l \in Rows : Holds(q, l)' <=> Holds(q, l)
  PROVE  UNCHANGED Promise!promiseVars
<1>1. UNCHANGED <<vpc, vjob>>
  BY DEF doorVars
<1>2. UNCHANGED Standings
  BY <1>1, EarnedFrame, StandingsFrame
<1>3. UNCHANGED <<SharedAnswers, AskedBy>>
  BY AnswersFrame
<1>4. UNCHANGED <<EnrolledFor, UsableCodes>>
  BY DoorFrame
<1>5. UNCHANGED OpenedSessions
  BY SessionsFrame
<1> QED BY <1>2, <1>3, <1>4, <1>5 DEF Promise!promiseVars

-----------------------------------------------------------------------------
(* Asking *)

LEMMA StoreLinkAsks ==
  ASSUME SignInInv, NEW l \in Links, NEW a \in Accounts, NEW shared \in BOOLEAN,
         StoreLink(l, a, shared), UNCHANGED doorVars
  PROVE  Promise!AskLink(l, a, shared)
<1> DEFINE new == [state |-> "live", account |-> a, shared |-> shared, mailed |-> FALSE]
<1>1. /\ l \in Rows /\ row[l].state = "unsent" /\ row'[l] = new
      /\ \A k \in Rows : k # l => row'[k] = row[k]
      /\ UNCHANGED <<isAdmin, challenges, session, pc, job, vpc, vjob>>
  BY DEF StoreLink, Rows, doorVars, SignInInv, SignInTypeOK
<1>2. new.state = "live" /\ new.account = a /\ new.shared = shared
  OBVIOUS
<1> HIDE DEF new
<1>3. \A q \in Requests, k \in Rows : Holds(q, k)' <=> Holds(q, k)
  BY <1>1 DEF Holds
<1>4. \A k \in Rows : k # l => Standing(k)' = Standing(k)
  BY <1>1, <1>3, EarnedFrame, SameStanding
<1>5. Standing(l) = "unasked" /\ Standing(l)' = "good"
  BY <1>1, <1>2 DEF Standing
<1>6. Standings[l] = "unasked" /\ Standings' = [Standings EXCEPT ![l] = "good"]
  BY <1>1, <1>4, <1>5, StandingsBut DEF Standings
<1>7. SharedAnswers' = [SharedAnswers EXCEPT ![l] = shared]
  BY <1>1, <1>2 DEF SharedAnswers
<1>8. AskedBy' = [AskedBy EXCEPT ![l] = a]
  BY <1>1, <1>2 DEF AskedBy, Rows
<1>9. UNCHANGED <<EnrolledFor, UsableCodes, OpenedSessions>>
  BY <1>1, DoorFrame, SessionsFrame
<1> QED BY <1>1, <1>6, <1>7, <1>8, <1>9 DEF Promise!AskLink

\* The rows a sweep deletes had expired.
LEMMA SweptStand ==
  ASSUME SignInTypeOK
  PROVE  /\ \A l \in Rows : /\ Swept[l].state = "unsent" <=> row[l].state = "unsent"
                            /\ Swept[l].state = "live" <=> row[l].state = "live"
                            /\ Swept[l].shared = row[l].shared /\ Swept[l].account = row[l].account
         /\ Swept \in [Rows -> RowRecords]
BY SweptKeeps DEF SignInTypeOK

LEMMA MailLinkStutters ==
  ASSUME SignInInv, NEW l \in Links, MailLink(l), UNCHANGED doorVars
  PROVE  UNCHANGED Promise!promiseVars
<1>0. SignInTypeOK
  BY DEF SignInInv
<1>1. /\ row' = [Swept EXCEPT ![l] = [Swept[l] EXCEPT !.mailed = TRUE]]
      /\ UNCHANGED <<isAdmin, challenges, session, pc, job, vpc, vjob>>
  BY DEF MailLink, doorVars
<1>2. \A k \in Rows : /\ row'[k].state = Swept[k].state /\ row'[k].shared = Swept[k].shared
                      /\ row'[k].account = Swept[k].account
  <2>1. ASSUME NEW k \in Rows
        PROVE  LET m == [Swept[k] EXCEPT !.mailed = TRUE] IN
               m.state = Swept[k].state /\ m.shared = Swept[k].shared /\ m.account = Swept[k].account
    BY <1>0, SweptStand DEF RowRecords
  <2>2. \A k \in Rows : row'[k] = IF k = l THEN [Swept[k] EXCEPT !.mailed = TRUE] ELSE Swept[k]
    BY <1>0, <1>1, SweptStand
  <2> QED BY <2>1, <2>2
<1>3. \A q \in Requests, k \in Rows : Holds(q, k)' <=> Holds(q, k)
  BY <1>1 DEF Holds
<1>4. UNCHANGED Standings
  <2>1. \A k \in Rows : Standing(k)' = Standing(k)
    BY <1>0, <1>1, <1>2, <1>3, SweptStand, EarnedFrame, SameStanding
  <2> QED BY <2>1 DEF Standings
<1>5. UNCHANGED <<SharedAnswers, AskedBy>>
  BY <1>0, <1>2, SweptStand, AnswersFrame DEF Rows
<1>6. UNCHANGED <<EnrolledFor, UsableCodes, OpenedSessions>>
  BY <1>1, DoorFrame, SessionsFrame
<1> QED BY <1>1, <1>4, <1>5, <1>6 DEF Promise!promiseVars

LEMMA StartGoogleStarts ==
  ASSUME SignInInv, NEW f \in Flows, NEW b \in Browsers, NEW shared \in BOOLEAN,
         StartGoogle(f, b, shared), UNCHANGED doorVars
  PROVE  Promise!StartGoogle(f, shared)
<1> DEFINE new == [state |-> "live", account |-> None, shared |-> shared, mailed |-> FALSE]
<1>0. SignInTypeOK /\ f \in Rows /\ f \notin Links
  BY DoorsAreTwo DEF SignInInv, Rows
<1>1. /\ row[f].state = "unsent" /\ row'[f] = new
      /\ \A k \in Rows : k # f => row'[k] = Swept[k]
      /\ UNCHANGED <<isAdmin, challenges, session, pc, job, vpc, vjob>>
  BY <1>0, SweptStand DEF StartGoogle, doorVars
<1>2. new.state = "live" /\ new.shared = shared
  OBVIOUS
<1> HIDE DEF new
<1>3. \A q \in Requests, k \in Rows : Holds(q, k)' <=> Holds(q, k)
  BY <1>1 DEF Holds
<1>4. \A k \in Rows : k # f => Standing(k)' = Standing(k)
  BY <1>0, <1>1, <1>3, SweptStand, EarnedFrame, SameStanding
<1>5. Standing(f) = "unasked" /\ Standing(f)' = "good"
  BY <1>1, <1>2 DEF Standing
<1>6. Standings[f] = "unasked" /\ Standings' = [Standings EXCEPT ![f] = "good"]
  BY <1>0, <1>4, <1>5, StandingsBut DEF Standings
<1>7. SharedAnswers' = [SharedAnswers EXCEPT ![f] = shared]
  BY <1>0, <1>1, <1>2, SweptStand DEF SharedAnswers
<1>8. UNCHANGED AskedBy
  BY <1>0, <1>1, SweptStand DEF AskedBy, Rows
<1>9. UNCHANGED <<EnrolledFor, UsableCodes, OpenedSessions>>
  BY <1>1, DoorFrame, SessionsFrame
<1> QED BY <1>1, <1>6, <1>7, <1>8, <1>9 DEF Promise!StartGoogle

\* A live row is held by nobody and is no challenge.
LEMMA LiveIsFree ==
  ASSUME SignInInv, NEW l \in Rows, row[l].state = "live"
  PROVE  (\A q \in Requests : ~Holds(q, l)) /\ ~Earned(l) /\ Standing(l) = "good"
<1>1. \A q \in Requests : ~Holds(q, l)
  BY HeldIsGone
<1>2. ~Earned(l)
  BY EarnedIsGone
<1> QED BY <1>1, <1>2 DEF Standing

LEMMA ExpireRowLapses ==
  ASSUME SignInInv, NEW l \in Rows, ExpireRow(l), UNCHANGED doorVars
  PROVE  Promise!Lapse(l)
<1>0. SignInTypeOK
  BY DEF SignInInv
<1>1. /\ row[l].state = "live" /\ row' = [row EXCEPT ![l] = [row[l] EXCEPT !.state = "expired"]]
      /\ UNCHANGED <<isAdmin, challenges, session, pc, job, vpc, vjob>>
  BY DEF ExpireRow, doorVars
<1>2. /\ row'[l].state = "expired" /\ row'[l].shared = row[l].shared /\ row'[l].account = row[l].account
      /\ \A k \in Rows : k # l => row'[k] = row[k]
  <2>1. LET m == [row[l] EXCEPT !.state = "expired"] IN
        m.state = "expired" /\ m.shared = row[l].shared /\ m.account = row[l].account
    BY <1>0 DEF SignInTypeOK, RowRecords
  <2> QED BY <1>0, <1>1, <2>1 DEF SignInTypeOK
<1>3. \A q \in Requests, k \in Rows : Holds(q, k)' <=> Holds(q, k)
  BY <1>1 DEF Holds
<1>4. \A k \in Rows : k # l => Standing(k)' = Standing(k)
  BY <1>1, <1>2, <1>3, EarnedFrame, SameStanding
<1>5. Standing(l) = "good" /\ Standing(l)' = "used"
  <2>1. (\A q \in Requests : ~Holds(q, l)') /\ ~Earned(l)'
    BY <1>1, <1>3, LiveIsFree, EarnedFrame
  <2> QED BY <1>1, <1>2, <2>1, LiveIsFree DEF Standing
<1>6. Standings[l] = "good" /\ Standings' = [Standings EXCEPT ![l] = "used"]
  BY <1>4, <1>5, StandingsBut DEF Standings
<1>7. UNCHANGED <<SharedAnswers, AskedBy>>
  BY <1>2, AnswersFrame DEF Rows
<1>8. UNCHANGED <<EnrolledFor, UsableCodes, OpenedSessions>>
  BY <1>1, DoorFrame, SessionsFrame
<1> QED BY <1>1, <1>6, <1>7, <1>8 DEF Promise!Lapse

-----------------------------------------------------------------------------
(* Opening *)

LEMMA ConsumeStutters ==
  ASSUME SignInInv, NEW r \in Requests, Consume(r), UNCHANGED doorVars
  PROVE  UNCHANGED Promise!promiseVars
<1>0. SignInTypeOK
  BY DEF SignInInv
<1>1. PICK k \in Rows : k = job[r].origin
  BY OpeningIsSomebodys DEF Consume, OpeningPCs
<1> DEFINE new == [row[k] EXCEPT !.state = "gone", !.account = job[r].account]
<1>2. /\ pc[r] = "opening" /\ pc'[r] = "consumed" /\ \A q \in Requests : q # r => pc'[q] = pc[q]
      /\ row[k].state = "live" /\ row' = [row EXCEPT ![k] = new]
      /\ UNCHANGED <<isAdmin, challenges, session, job, vpc, vjob>>
  BY <1>0, <1>1 DEF Consume, Goto, doorVars, SignInTypeOK
<1>3. new.state = "gone" /\ new.account = job[r].account /\ new.shared = row[k].shared
  BY <1>0 DEF SignInTypeOK, RowRecords
<1> HIDE DEF new
<1>4. row'[k] = new /\ \A l \in Rows : l # k => row'[l] = row[l]
  BY <1>0, <1>2 DEF SignInTypeOK
<1>5. \A q \in Requests, l \in Rows : Holds(q, l)' <=> Holds(q, l) \/ (q = r /\ l = k)
  BY <1>1, <1>2 DEF Holds
<1>6. UNCHANGED Standings
  <2>1. \A l \in Rows : l # k => Standing(l)' = Standing(l)
    BY <1>2, <1>4, <1>5, EarnedFrame, SameStanding
  <2>2. Standing(k) = "good" /\ Standing(k)' = "good"
    BY <1>2, <1>3, <1>4, <1>5, LiveIsFree DEF Standing
  <2> QED BY <2>1, <2>2 DEF Standings
<1>7. UNCHANGED <<SharedAnswers, AskedBy>>
  <2>1. k \in Links => row[k].account = job[r].account
    BY <1>1, <1>2 DEF SignInInv, JobsCarryTheAnswer, OpeningPCs
  <2>2. \A l \in Rows : row'[l].shared = row[l].shared
    BY <1>3, <1>4
  <2>3. \A l \in Links : row'[l].account = row[l].account
    BY <1>3, <1>4, <2>1 DEF Rows
  <2> QED BY <2>2, <2>3, AnswersFrame
<1>8. UNCHANGED <<EnrolledFor, UsableCodes, OpenedSessions>>
  BY <1>2, DoorFrame, SessionsFrame
<1> QED BY <1>2, <1>6, <1>7, <1>8 DEF Promise!promiseVars

\* Whoever holds a row holds it alone, and it is good.
LEMMA HeldAlone ==
  ASSUME SignInInv, NEW r \in Requests, NEW l \in Rows, Holds(r, l)
  PROVE  /\ row[l].state = "gone" /\ ~Earned(l) /\ Standing(l) = "good"
         /\ \A q \in Requests : Holds(q, l) => q = r
<1>1. row[l].state = "gone"
  BY HeldIsGone
<1> QED BY <1>1 DEF SignInInv, RowsAreHeldOnce, Standing

\* The request that held a row goes: it is good no more.
LEMMA LettingGo ==
  ASSUME SignInInv, NEW r \in Requests, NEW k \in Rows, Holds(r, k),
         UNCHANGED <<row, vpc, vjob>>,
         \A q \in Requests, l \in Rows : Holds(q, l)' <=> q # r /\ Holds(q, l),
         \A l \in Rows : l # k => (l \in challenges' <=> l \in challenges)
  PROVE  /\ Standings[k] = "good"
         /\ k \notin challenges' => Standings' = [Standings EXCEPT ![k] = "used"]
         /\ k \in challenges' => Standings' = [Standings EXCEPT ![k] = "earned"]
<1>1. /\ row[k].state = "gone" /\ ~Earned(k) /\ Standing(k) = "good"
      /\ \A q \in Requests : Holds(q, k) => q = r
  BY HeldAlone
<1>2. \A l \in Rows : l # k => (Earned(l)' <=> Earned(l))
  BY DEF Earned
<1>3. \A l \in Rows : l # k => (\A q \in Requests : Holds(q, l)' <=> Holds(q, l))
  <2>1. \A l \in Rows : Holds(r, l) => l = k
    BY DEF Holds
  <2> QED BY <2>1
<1>4. \A l \in Rows : l # k => Standing(l)' = Standing(l)
  BY <1>2, <1>3, SameStanding
<1>5. Earned(k)' <=> k \in challenges'
  BY <1>1 DEF Earned
<1>6. \A q \in Requests : ~Holds(q, k)'
  BY <1>1
<1>7. Standing(k)' = IF k \in challenges' THEN "earned" ELSE "used"
  BY <1>1, <1>5, <1>6 DEF Standing
<1> QED BY <1>1, <1>4, <1>7, StandingsBut DEF Standings

LEMMA RefuseTheDoorRefuses ==
  ASSUME SignInInv, NEW r \in Requests, RefuseTheDoor(r), UNCHANGED doorVars
  PROVE  \/ \E l \in Links : Promise!Refuse(l)
         \/ \E l \in Promise!Proofs : Promise!Lapse(l)
<1>0. SignInTypeOK
  BY DEF SignInInv
<1>1. PICK k \in Rows : k = job[r].origin /\ Holds(r, k)
  <2>1. Holds(r, job[r].origin)
    BY DEF RefuseTheDoor, Holds
  <2> QED BY <2>1, HeldIsGone
<1>2. /\ pc[r] = "consumed" /\ pc' = [pc EXCEPT ![r] = "idle"] /\ job' = [job EXCEPT ![r] = NoJob]
      /\ isAdmin[job[r].account]
      /\ challenges' = IF k \in Links THEN challenges \cup {k} ELSE challenges
      /\ UNCHANGED <<isAdmin, row, session, vpc, vjob>>
  BY <1>1 DEF RefuseTheDoor, Refused, Finish, Goto, Carry, doorVars
<1>3. \A q \in Requests, l \in Rows : Holds(q, l)' <=> q # r /\ Holds(q, l)
  BY <1>0, <1>2, GoingElsewhere
<1>4. UNCHANGED <<SharedAnswers, AskedBy, EnrolledFor, UsableCodes, OpenedSessions>>
  BY <1>2, AnswersFrame, DoorFrame, SessionsFrame
<1>5. \A l \in Rows : l # k => (l \in challenges' <=> l \in challenges)
  BY <1>2
<1>6. CASE k \in Links
  <2>1. Standings[k] = "good" /\ Standings' = [Standings EXCEPT ![k] = "earned"]
    BY <1>1, <1>2, <1>3, <1>5, <1>6, LettingGo
  <2>2. isAdmin[AskedBy[k]]
    <3>1. row[k].account = job[r].account
      BY <1>1, <1>2, <1>6 DEF SignInInv, JobsCarryTheAnswer, OpeningPCs
    <3> QED BY <1>2, <1>6, <3>1 DEF AskedBy
  <2>3. Promise!Refuse(k)
    BY <1>2, <1>4, <2>1, <2>2 DEF Promise!Refuse
  <2> QED BY <1>6, <2>3
<1>7. CASE k \notin Links
  <2>1. k \notin challenges'
    BY <1>0, <1>2, <1>7 DEF SignInTypeOK
  <2>2. Standings[k] = "good" /\ Standings' = [Standings EXCEPT ![k] = "used"]
    BY <1>1, <1>2, <1>3, <1>5, <2>1, LettingGo
  <2>3. Promise!Lapse(k)
    BY <1>2, <1>4, <2>2 DEF Promise!Lapse
  <2> QED BY <2>3 DEF Promise!Proofs, Rows
<1> QED BY <1>6, <1>7

LEMMA LeaveLapses ==
  ASSUME SignInInv, NEW r \in Requests, Leave(r), UNCHANGED doorVars
  PROVE  \/ \E l \in Promise!Proofs : Promise!Lapse(l)
         \/ UNCHANGED Promise!promiseVars
<1>0. SignInTypeOK
  BY DEF SignInInv
<1>1. /\ pc' = [pc EXCEPT ![r] = "idle"] /\ job' = [job EXCEPT ![r] = NoJob]
      /\ UNCHANGED <<isAdmin, row, challenges, session, vpc, vjob>>
  BY DEF Leave, Finish, Goto, Carry, doorVars
<1>2. \A q \in Requests, l \in Rows : Holds(q, l)' <=> q # r /\ Holds(q, l)
  BY <1>0, <1>1, GoingElsewhere
<1>3. ASSUME NEW k \in Rows, Holds(r, k) PROVE Promise!Lapse(k)
  <2>1. k \notin challenges'
    BY <1>1, <1>3, HeldAlone DEF Earned
  <2>2. Standings[k] = "good" /\ Standings' = [Standings EXCEPT ![k] = "used"]
    BY <1>1, <1>2, <1>3, <2>1, LettingGo
  <2>3. UNCHANGED <<SharedAnswers, AskedBy, EnrolledFor, UsableCodes, OpenedSessions>>
    BY <1>1, AnswersFrame, DoorFrame, SessionsFrame
  <2> QED BY <1>1, <2>2, <2>3 DEF Promise!Lapse
<1>4. CASE \A k \in Rows : ~Holds(r, k)
  <2>1. \A q \in Requests, l \in Rows : Holds(q, l)' <=> Holds(q, l)
    BY <1>2, <1>4
  <2> QED BY <1>1, <2>1, PublicStutter
<1> QED BY <1>3, <1>4 DEF Promise!Proofs, Rows

\* A row of session ids that was written whole.
LEMMA OpenedBut ==
  ASSUME NEW s \in SessionIds, NEW z, AsOpened(s)' = z,
         \A o \in SessionIds : o # s => session'[o] = session[o]
  PROVE  OpenedSessions' = [OpenedSessions EXCEPT ![s] = z]
<1>1. \A o \in SessionIds : o # s => AsOpened(o)' = AsOpened(o)
  BY DEF AsOpened
<1> QED BY <1>1 DEF OpenedSessions

LEMMA CreateSessionOpens ==
  ASSUME SignInInv, NEW r \in Requests, NEW s \in SessionIds, CreateSession(r, s), UNCHANGED doorVars
  PROVE  \E l \in Promise!Proofs, a \in Accounts : Promise!OpenPublic(s, l, a)
<1>0. SignInTypeOK
  BY DEF SignInInv
<1>1. PICK k \in Rows : k = job[r].origin /\ Holds(r, k)
  <2>1. Holds(r, job[r].origin)
    BY DEF CreateSession, Holds
  <2> QED BY <2>1, HeldIsGone
<1>2. PICK a \in Accounts : a = job[r].account
  BY OpeningIsSomebodys DEF CreateSession, OpeningPCs
<1>3. /\ pc[r] = "creating" /\ pc' = [pc EXCEPT ![r] = "idle"] /\ job' = [job EXCEPT ![r] = NoJob]
      /\ UNCHANGED <<isAdmin, row, challenges, vpc, vjob>>
  BY DEF CreateSession, Finish, Goto, Carry, doorVars
<1>4. /\ job[r].shared = row[k].shared
      /\ k \in Links => row[k].account = a
  BY <1>1, <1>2, <1>3 DEF SignInInv, JobsCarryTheAnswer, OpeningPCs
<1>5. \A q \in Requests, l \in Rows : Holds(q, l)' <=> q # r /\ Holds(q, l)
  BY <1>0, <1>3, GoingElsewhere
<1>6. Standings[k] = "good" /\ Standings' = [Standings EXCEPT ![k] = "used"]
  <2>1. k \notin challenges'
    BY <1>1, <1>3, HeldAlone DEF Earned
  <2> QED BY <1>1, <1>3, <1>5, <2>1, LettingGo
<1> DEFINE new == [state |-> "live", account |-> a,
                   method |-> IF k \in Links THEN "magic_link" ELSE "google",
                   life |-> IF SharedAnswers[k] THEN "shared" ELSE "own",
                   origin |-> k, token |-> None, code |-> None]
<1>7. OpenedSessions[s].state = "unused" /\ OpenedSessions' = [OpenedSessions EXCEPT ![s] = new]
  <2>1. session[s].state = "unused"
    BY DEF CreateSession, InsertSession
  <2>2. OpenedSessions[s].state = "unused"
    BY <2>1 DEF OpenedSessions, AsOpened
  <2>3. session' = [session EXCEPT ![s] =
          [state |-> "live", account |-> a, method |-> MethodOf(k),
           life |-> LifeOf(MethodOf(k), job[r].shared),
           origin |-> k, granted |-> job[r].granted, token |-> None, code |-> None]]
    BY <1>1, <1>2 DEF CreateSession, InsertSession
  <2>4. /\ session'[s].state = "live" /\ session'[s].account = a /\ session'[s].method = MethodOf(k)
        /\ session'[s].life = LifeOf(MethodOf(k), job[r].shared)
        /\ session'[s].origin = k /\ session'[s].token = None /\ session'[s].code = None
        /\ \A o \in SessionIds : o # s => session'[o] = session[o]
    BY <1>0, <2>3 DEF SignInTypeOK
  <2>5. LifeOf(MethodOf(k), job[r].shared) = IF SharedAnswers[k] THEN "shared" ELSE "own"
    BY <1>4 DEF LifeOf, MethodOf, SharedAnswers
  <2>6. AsOpened(s)' = new
    BY <2>4, <2>5 DEF AsOpened, MethodOf
  <2> HIDE DEF new
  <2>7. OpenedSessions' = [OpenedSessions EXCEPT ![s] = new]
    BY <2>4, <2>6, OpenedBut
  <2> QED BY <2>2, <2>7
<1>8. UNCHANGED <<SharedAnswers, AskedBy, EnrolledFor, UsableCodes>>
  BY <1>3, AnswersFrame, DoorFrame
<1>9. k \in Links => a = AskedBy[k]
  BY <1>4 DEF AskedBy
<1>10. Promise!OpenPublic(s, k, a)
  BY <1>3, <1>6, <1>7, <1>8, <1>9 DEF Promise!OpenPublic
<1> QED BY <1>10 DEF Promise!Proofs, Rows

-----------------------------------------------------------------------------
(* Closing *)

LEMMA ClosingCloses ==
  ASSUME SignInInv, NEW gone \in SUBSET Opened,
         \A s \in SessionIds :
           /\ SameSession(s)
           /\ s \in gone => session'[s].state \in {"expired", "gone"}
           /\ s \notin gone => session'[s].state = session[s].state,
         UNCHANGED <<isAdmin, row, challenges, doorVars>>,
         \A q \in Requests, l \in Rows : Holds(q, l)' <=> Holds(q, l)
  PROVE  \E live \in SUBSET Promise!LiveSessions : Promise!Close(live)
<1> DEFINE live == gone \cap Promise!LiveSessions
<1>1. ASSUME NEW s \in SessionIds
      PROVE  AsOpened(s)' = IF s \in live THEN [AsOpened(s) EXCEPT !.state = "closed"] ELSE AsOpened(s)
  <2>1. /\ session'[s].account = session[s].account /\ session'[s].method = session[s].method
        /\ session'[s].life = session[s].life /\ session'[s].origin = session[s].origin
        /\ session'[s].token = session[s].token /\ session'[s].code = session[s].code
    BY DEF SameSession
  <2>2. s \in Promise!LiveSessions <=> session[s].state = "live"
    BY DEF Promise!LiveSessions, OpenedSessions, AsOpened
  <2>3. session[s].state \in {"unused", "live", "expired", "gone"}
    BY DEF SignInInv, SignInTypeOK, SessionRecords
  <2>4. CASE s \in live
    BY <2>1, <2>4 DEF AsOpened
  <2>5. CASE s \in gone /\ s \notin live
    <3>1. session[s].state \in {"expired", "gone"}
      BY <2>2, <2>3, <2>5 DEF Opened
    <3> QED BY <2>1, <2>5, <3>1 DEF AsOpened
  <2>6. CASE s \notin gone
    BY <2>1, <2>6 DEF AsOpened
  <2> QED BY <2>4, <2>5, <2>6
<1>2. OpenedSessions' = [s \in SessionIds |->
        IF s \in live THEN [OpenedSessions[s] EXCEPT !.state = "closed"] ELSE OpenedSessions[s]]
  BY <1>1 DEF OpenedSessions
<1>3. UNCHANGED <<Standings, SharedAnswers, AskedBy, EnrolledFor, UsableCodes>>
  <2>1. UNCHANGED <<vpc, vjob>>
    BY DEF doorVars
  <2> QED BY <2>1, StandingsFrame, EarnedFrame, AnswersFrame, DoorFrame
<1>4. Promise!Close(live)
  BY <1>2, <1>3 DEF Promise!Close
<1> QED BY <1>4

\* A request that held nothing, and goes where it holds nothing.
LEMMA HeldNothing ==
  ASSUME SignInTypeOK, NEW r \in Requests, pc[r] \notin {"consumed", "creating"},
         NEW to, to \notin {"consumed", "creating"}, pc' = [pc EXCEPT ![r] = to],
         job' = job \/ \E with : job' = [job EXCEPT ![r] = with]
  PROVE  \A q \in Requests, l \in Rows : Holds(q, l)' <=> Holds(q, l)
<1>1. \A l \in Rows : ~Holds(r, l)
  BY DEF Holds
<1> QED BY <1>1, GoingElsewhere

LEMMA ClosedByARequest ==
  ASSUME SignInInv, NEW r \in Requests, NEW gone \in SUBSET Opened, Close(gone), UNCHANGED doorVars,
         LibrarySignOut(r) \/ RevokeOtherSessions(r) \/ RevokeSessions(r)
  PROVE  \E live \in SUBSET Promise!LiveSessions : Promise!Close(live)
<1>0. SignInTypeOK
  BY DEF SignInInv
<1>1. UNCHANGED <<isAdmin, row, challenges>>
  BY DEF LibrarySignOut, RevokeOtherSessions, RevokeSessions
<1>2. \A q \in Requests, l \in Rows : Holds(q, l)' <=> Holds(q, l)
  BY <1>0, HeldNothing DEF LibrarySignOut, RevokeOtherSessions, RevokeSessions, Finish, Goto, Carry
<1>3. \A s \in SessionIds :
        SameSession(s) /\ session'[s].state = IF s \in gone THEN "gone" ELSE session[s].state
  BY <1>0, Closed
<1> QED BY <1>1, <1>2, <1>3, ClosingCloses

LEMMA ClosesWhatWasOpened ==
  ASSUME SignInInv, NEW r \in Requests, LibrarySignOut(r) \/ RevokeOtherSessions(r) \/ RevokeSessions(r)
  PROVE  \E gone \in SUBSET Opened : Close(gone)
<1>1. CASE LibrarySignOut(r)
  <2>1. job[r].session \in Opened
    BY <1>1 DEF LibrarySignOut, SignInInv, ClosingKnowsItsSession
  <2> QED BY <1>1, <2>1 DEF LibrarySignOut
<1>2. CASE RevokeOtherSessions(r)
  <2>1. OthersOf(job[r].account, job[r].session) \subseteq Opened
    BY DEF OthersOf, IsLive, Opened
  <2> QED BY <1>2, <2>1 DEF RevokeOtherSessions
<1>3. CASE RevokeSessions(r)
  BY <1>3 DEF RevokeSessions, Opened
<1> QED BY <1>1, <1>2, <1>3

LEMMA ExpireSessionCloses ==
  ASSUME SignInInv, NEW s \in SessionIds, ExpireSession(s), UNCHANGED doorVars
  PROVE  \E live \in SUBSET Promise!LiveSessions : Promise!Close(live)
<1>0. SignInTypeOK
  BY DEF SignInInv
<1>1. s \in Opened
  BY DEF ExpireSession, IsLive, Opened
<1> DEFINE u == [session[s] EXCEPT !.state = "expired"]
<1>2. /\ u.state = "expired" /\ u.account = session[s].account /\ u.method = session[s].method
      /\ u.life = session[s].life /\ u.origin = session[s].origin /\ u.granted = session[s].granted
      /\ u.token = session[s].token /\ u.code = session[s].code
  <2>1. session[s] \in SessionRecords
    BY <1>0 DEF SignInTypeOK
  <2> QED BY <2>1, SessionClosed
<1>3. session' = [session EXCEPT ![s] = u]
  BY DEF ExpireSession
<1> HIDE DEF u
<1>4. session'[s] = u /\ \A o \in SessionIds : o # s => session'[o] = session[o]
  BY <1>0, <1>3 DEF SignInTypeOK
<1>5. \A o \in SessionIds :
        /\ SameSession(o)
        /\ o \in {s} => session'[o].state \in {"expired", "gone"}
        /\ o \notin {s} => session'[o].state = session[o].state
  BY <1>2, <1>4 DEF SameSession
<1>6. UNCHANGED <<isAdmin, row, challenges, doorVars>>
      /\ \A q \in Requests, l \in Rows : Holds(q, l)' <=> Holds(q, l)
  BY DEF ExpireSession, Holds
<1>7. {s} \in SUBSET Opened
  BY <1>1
<1> QED BY <1>5, <1>6, <1>7, ClosingCloses

-----------------------------------------------------------------------------
(* The public doors *)

LEMMA PublicImplements ==
  ASSUME SignInInv, SessionsNext, UNCHANGED doorVars
  PROVE  Promise!Next \/ UNCHANGED Promise!promiseVars
<1>0. SignInTypeOK
  BY DEF SignInInv
<1>1. ASSUME NEW r \in Requests, PassTheDoor(r) PROVE UNCHANGED Promise!promiseVars
  <2>1. \A q \in Requests, l \in Rows : Holds(q, l)' <=> Holds(q, l)
    BY <1>0, <1>1 DEF PassTheDoor, Goto, Holds, SignInTypeOK
  <2> QED BY <1>1, <2>1, PublicStutter DEF PassTheDoor
<1>2. ASSUME NEW r \in Requests, NEW l \in Links, OpenLink(r, l) PROVE UNCHANGED Promise!promiseVars
  BY <1>0, <1>2, HeldNothing, PublicStutter DEF OpenLink, Goto, Carry
<1>3. ASSUME NEW r \in Requests, NEW b \in Browsers, NEW a \in Accounts, GoogleCallback(r, b, a)
      PROVE  UNCHANGED Promise!promiseVars
  BY <1>0, <1>3, HeldNothing, PublicStutter DEF GoogleCallback, Goto, Carry
<1>4. ASSUME NEW r \in Requests, Open(r) PROVE Promise!Next \/ UNCHANGED Promise!promiseVars
  BY <1>1, <1>2, <1>3, <1>4, ConsumeStutters, RefuseTheDoorRefuses, CreateSessionOpens DEF Open, Promise!Next
<1>5. CASE Ask
  BY <1>5, StoreLinkAsks, MailLinkStutters, StartGoogleStarts, ExpireRowLapses DEF Ask, Promise!Next, Promise!Proofs, Rows
<1>6. ASSUME NEW r \in Requests, NEW s \in SessionIds, SignOut(r, s) PROVE UNCHANGED Promise!promiseVars
  BY <1>0, <1>6, HeldNothing, PublicStutter DEF SignOut, Goto, Carry
<1>7. ASSUME NEW r \in Requests, NEW s \in SessionIds, SignOutEverywhere(r, s)
      PROVE  UNCHANGED Promise!promiseVars
  BY <1>0, <1>7, HeldNothing, PublicStutter DEF SignOutEverywhere, Goto, Carry
<1>8. ASSUME NEW r \in Requests, ConfirmSignOut(r) \/ CountAfter(r) PROVE UNCHANGED Promise!promiseVars
  BY <1>0, <1>8, HeldNothing, PublicStutter DEF ConfirmSignOut, CountAfter, Goto
<1>9. ASSUME NEW r \in Requests, CountBefore(r) PROVE UNCHANGED Promise!promiseVars
  BY <1>0, <1>9, HeldNothing, PublicStutter DEF CountBefore, Goto, Carry
<1>10. ASSUME NEW r \in Requests, NEW s \in SessionIds, NEW a \in Accounts, AuthoriseRevoke(r, s, a)
       PROVE  UNCHANGED Promise!promiseVars
  BY <1>0, <1>10, HeldNothing, PublicStutter DEF AuthoriseRevoke, Goto, Carry
<1>11. ASSUME NEW r \in Requests, LibrarySignOut(r) \/ RevokeOtherSessions(r) \/ RevokeSessions(r)
       PROVE  Promise!Next
  BY <1>11, ClosesWhatWasOpened, ClosedByARequest DEF Promise!Next
<1>12. ASSUME NEW r \in Requests, CloseOne(r) \/ CloseMany(r)
       PROVE  Promise!Next \/ UNCHANGED Promise!promiseVars
  BY <1>6, <1>7, <1>8, <1>9, <1>10, <1>11, <1>12 DEF CloseOne, CloseMany
<1>13. ASSUME NEW r \in Requests, Leave(r) PROVE Promise!Next \/ UNCHANGED Promise!promiseVars
  BY <1>13, LeaveLapses DEF Promise!Next
<1>14. ASSUME NEW s \in SessionIds, ExpireSession(s) PROVE Promise!Next
  BY <1>14, ExpireSessionCloses DEF Promise!Next
<1> QED BY <1>4, <1>5, <1>12, <1>13, <1>14 DEF SessionsNext

-----------------------------------------------------------------------------
(* Enrolling *)

\* What the public doors keep, while the Admin's is at work.
LEMMA PublicFrame ==
  ASSUME UNCHANGED <<row, challenges, pc, job, vpc, vjob>>
  PROVE  UNCHANGED <<Standings, SharedAnswers, AskedBy>>
<1>1. \A q \in Requests, l \in Rows : Holds(q, l)' <=> Holds(q, l)
  BY DEF Holds
<1> QED BY <1>1, StandingsFrame, EarnedFrame, AnswersFrame

LEMMA EnrolStutters ==
  ASSUME SignInInv, NEW t \in Tokens,
         (\E a \in Accounts : Mint(t, a)) \/ ExpireEnrolment(t) \/ Claim(t) \/ Quit(t)
  PROVE  UNCHANGED Promise!promiseVars
<1>0. SignInTypeOK
  BY DEF SignInInv
<1>1. UNCHANGED <<sessionVars, factor, vpc, vjob>>
  BY DEF Mint, ExpireEnrolment, Claim, Quit
<1>2. UNCHANGED <<Standings, SharedAnswers, AskedBy, OpenedSessions>>
  BY <1>1, PublicFrame, SessionsFrame DEF sessionVars
<1>3. UNCHANGED UsableCodes
  BY <1>1, SpentFrame DEF SpentByRequest
<1>4. UNCHANGED EnrolledFor
  <2>1. \A u \in Tokens : cli'[u] = "enrolled" <=> cli[u] = "enrolled"
    BY <1>0 DEF Mint, ExpireEnrolment, Claim, Quit, SignInTypeOK
  <2>2. \A u \in Tokens : cli[u] = "enrolled" => owner'[u] = owner[u]
    BY <1>0 DEF Mint, ExpireEnrolment, Claim, Quit, SignInTypeOK
  <2> QED BY <2>1, <2>2, EnrolledFrame
<1> QED BY <1>1, <1>2, <1>3, <1>4 DEF Promise!promiseVars, sessionVars

LEMMA InstallEnrols ==
  ASSUME SignInInv, NEW t \in Tokens, Install(t)
  PROVE  \E a \in Accounts : Promise!Enrol(t, a)
<1>0. SignInTypeOK
  BY DEF SignInInv
<1>1. PICK a \in Accounts : a = owner[t]
  <2>1. owner[t] # None
    BY DEF Install, SignInInv, FactorsAreEnrolled
  <2> QED BY <1>0, <2>1 DEF SignInTypeOK
<1> DEFINE new == [token |-> t, codes |-> Codes]
<1>2. /\ cli[t] = "claimed" /\ cli' = [cli EXCEPT ![t] = "enrolled"] /\ owner' = owner
      /\ factor' = [factor EXCEPT ![a] = new] /\ isAdmin' = [isAdmin EXCEPT ![a] = TRUE]
      /\ UNCHANGED <<row, challenges, session, pc, job, vpc, vjob>>
  BY <1>1 DEF Install
<1>3. UNCHANGED <<Standings, SharedAnswers, AskedBy, OpenedSessions>>
  BY <1>2, PublicFrame, SessionsFrame
<1>4. EnrolledFor[t] = None /\ EnrolledFor' = [EnrolledFor EXCEPT ![t] = a]
  <2>1. \A u \in Tokens : cli'[u] = IF u = t THEN "enrolled" ELSE cli[u]
    BY <1>0, <1>2 DEF SignInTypeOK
  <2> QED BY <1>1, <1>2, <2>1 DEF EnrolledFor
<1>5. new \in Factors /\ new # None /\ new.token = t /\ new.codes = Codes
  BY FactorsAreNotNone DEF Factors
<1> HIDE DEF new
<1>6. factor'[a] = new /\ \A b \in Accounts : b # a => factor'[b] = factor[b]
  BY <1>0, <1>2 DEF SignInTypeOK
<1>7. \A v \in Verifiers, u \in Tokens, c \in Codes : SpentByRequest(v, u, c)' <=> SpentByRequest(v, u, c)
  BY <1>2 DEF SpentByRequest
<1>8. PICK before \in Tokens : factor[a] # None => before = factor[a].token
  BY <1>0 DEF SignInTypeOK, Factors
<1> DEFINE lost == {c \in Codes : ~MayOpen(before, c)'}
\* The codes of the new sheet, and what is left of the old one.
<1>9. \A c \in Codes : MayOpen(t, c)'
  BY <1>5, <1>6 DEF MayOpen
<1>10. ASSUME NEW u \in Tokens, u # t, NEW c \in Codes, MayOpen(u, c)' PROVE MayOpen(u, c)
  <2>1. ASSUME NEW b \in Accounts, factor'[b] # None, factor'[b].token = u, c \in factor'[b].codes
        PROVE  factor'[b] = factor[b]
    BY <1>5, <1>6, <1>10, <2>1
  <2> QED BY <1>7, <1>10, <2>1 DEF MayOpen
<1>11. ASSUME NEW u \in Tokens, u # t, u # before, NEW c \in Codes, MayOpen(u, c) PROVE MayOpen(u, c)'
  <2>1. ASSUME NEW b \in Accounts, factor[b] # None, factor[b].token = u, c \in factor[b].codes
        PROVE  factor'[b] = factor[b]
    BY <1>6, <1>8, <1>11, <2>1
  <2> QED BY <1>7, <1>11, <2>1 DEF MayOpen
<1>12. UsableCodes' = [UsableCodes EXCEPT ![before] = @ \ lost, ![t] = Codes]
  <2>1. ASSUME NEW u \in Tokens
        PROVE  UsableCodes'[u] = IF u = t THEN Codes ELSE IF u = before THEN UsableCodes[u] \ lost ELSE UsableCodes[u]
    <3>1. UsableCodes'[u] = {c \in Codes : MayOpen(u, c)'} /\ UsableCodes[u] = {c \in Codes : MayOpen(u, c)}
      BY DEF UsableCodes
    <3>2. CASE u = t
      BY <1>9, <3>1, <3>2
    <3>3. CASE u # t /\ u = before
      <4>1. lost = {c \in Codes : ~MayOpen(u, c)'}
        BY <3>3
      <4> HIDE DEF lost
      <4>2. UsableCodes'[u] = UsableCodes[u] \ lost
        BY <1>10, <3>1, <3>3, <4>1
      <4> QED BY <3>3, <4>2
    <3>4. CASE u # t /\ u # before
      BY <1>10, <1>11, <3>1, <3>4
    <3> QED BY <3>2, <3>3, <3>4
  <2> HIDE DEF lost
  <2>2. UsableCodes = [u \in Tokens |-> UsableCodes[u]] /\ UsableCodes' = [u \in Tokens |-> UsableCodes'[u]]
    BY DEF UsableCodes
  <2> QED BY <2>1, <2>2, <1>8
<1>13. lost \in SUBSET Codes
  OBVIOUS
<1> HIDE DEF lost
<1>14. Promise!Enrol(t, a)
  BY <1>2, <1>3, <1>4, <1>8, <1>12, <1>13 DEF Promise!Enrol
<1> QED BY <1>14

-----------------------------------------------------------------------------
(* Codes *)

\* A step that changes where one code is, and neither its link nor what it spent.
LEMMA VerifierStutters ==
  ASSUME SignInInv, UNCHANGED <<sessionVars, enrolVars>>,
         \A t \in Tokens, c \in Codes : MayOpen(t, c)' <=> MayOpen(t, c),
         \A l \in Rows : Earned(l)' <=> Earned(l)
  PROVE  UNCHANGED Promise!promiseVars
<1>1. \A q \in Requests, l \in Rows : Holds(q, l)' <=> Holds(q, l)
  BY DEF Holds, sessionVars
<1>2. UNCHANGED <<Standings, SharedAnswers, AskedBy>>
  BY <1>1, StandingsFrame, AnswersFrame DEF sessionVars
<1>3. UNCHANGED <<EnrolledFor, UsableCodes, OpenedSessions>>
  BY CodesFrame, EnrolledFrame, SessionsFrame DEF sessionVars, enrolVars
<1> QED BY <1>2, <1>3 DEF Promise!promiseVars, sessionVars

LEMMA SubmitCodeStutters ==
  ASSUME SignInInv, NEW v \in Verifiers, NEW l \in Links, NEW t \in Tokens, NEW c \in Typed, SubmitCode(v, l, t, c)
  PROVE  UNCHANGED Promise!promiseVars
<1>0. SignInTypeOK
  BY DEF SignInInv
<1>1. /\ vpc[v] = "idle" /\ vpc'[v] = "submitted" /\ vjob'[v].link = l /\ l \in challenges
      /\ \A w \in Verifiers : w # v => vpc'[w] = vpc[w] /\ vjob'[w] = vjob[w]
      /\ UNCHANGED <<sessionVars, enrolVars, factor>>
  BY <1>0 DEF SubmitCode, VGoto, SignInTypeOK
<1>2. \A w \in Verifiers, u \in Tokens, d \in Codes : SpentByRequest(w, u, d)' <=> SpentByRequest(w, u, d)
  BY <1>1 DEF SpentByRequest
<1>3. \A u \in Tokens, d \in Codes : MayOpen(u, d)' <=> MayOpen(u, d)
  BY <1>1, <1>2 DEF MayOpen
<1>4. \A k \in Rows : Earned(k)' <=> Earned(k)
  BY <1>1 DEF Earned, sessionVars
<1> QED BY <1>1, <1>3, <1>4, VerifierStutters

LEMMA AcceptTotpStutters ==
  ASSUME SignInInv, NEW v \in Verifiers, AcceptTotp(v)
  PROVE  UNCHANGED Promise!promiseVars
<1>0. SignInTypeOK
  BY DEF SignInInv
<1>1. /\ vpc[v] # "idle" /\ vpc'[v] # "idle" /\ vjob' = vjob /\ vjob[v].code = "totp"
      /\ \A w \in Verifiers : w # v => vpc'[w] = vpc[w]
      /\ UNCHANGED <<sessionVars, enrolVars, factor>>
  BY <1>0 DEF AcceptTotp, VGoto, SignInTypeOK
<1>2. \A w \in Verifiers, u \in Tokens, d \in Codes : SpentByRequest(w, u, d)' <=> SpentByRequest(w, u, d)
  BY <1>1, TotpIsNoBackupCode DEF SpentByRequest
<1>3. \A u \in Tokens, d \in Codes : MayOpen(u, d)' <=> MayOpen(u, d)
  BY <1>1, <1>2 DEF MayOpen
<1>4. \A k \in Rows : Earned(k)' <=> Earned(k)
  BY <1>1 DEF Earned, sessionVars
<1> QED BY <1>1, <1>3, <1>4, VerifierStutters

LEMMA MatchBackupCodeStutters ==
  ASSUME SignInInv, NEW v \in Verifiers, MatchBackupCode(v)
  PROVE  UNCHANGED Promise!promiseVars
<1>0. SignInTypeOK
  BY DEF SignInInv
<1> DEFINE read == factor[AccountOf(v)].codes
<1>1. /\ vpc[v] = "submitted" /\ vpc'[v] = "matched" /\ vjob' = [vjob EXCEPT ![v] = [vjob[v] EXCEPT !.read = read]]
      /\ \A w \in Verifiers : w # v => vpc'[w] = vpc[w]
      /\ UNCHANGED <<sessionVars, enrolVars, factor>>
  BY <1>0 DEF MatchBackupCode, VGoto, SignInTypeOK
<1> HIDE DEF read
<1>2. \A w \in Verifiers : vjob'[w].link = vjob[w].link /\ (w # v => vjob'[w] = vjob[w])
  <2>1. [vjob[v] EXCEPT !.read = read].link = vjob[v].link
    BY <1>0 DEF SignInTypeOK, VerifyJobs
  <2> QED BY <1>0, <1>1, <2>1 DEF SignInTypeOK
<1>3. \A w \in Verifiers, u \in Tokens, d \in Codes : SpentByRequest(w, u, d)' <=> SpentByRequest(w, u, d)
  BY <1>1, <1>2 DEF SpentByRequest
<1>4. \A u \in Tokens, d \in Codes : MayOpen(u, d)' <=> MayOpen(u, d)
  BY <1>1, <1>3 DEF MayOpen
<1>5. \A k \in Rows : Earned(k)' <=> Earned(k)
  BY <1>1, <1>2 DEF Earned, sessionVars
<1> QED BY <1>1, <1>4, <1>5, VerifierStutters

\* The code leaves its factor and is the request's: it may open a session as before.
LEMMA SpendBackupCodeStutters ==
  ASSUME SignInInv, NEW v \in Verifiers, SpendBackupCode(v)
  PROVE  UNCHANGED Promise!promiseVars
<1>0. SignInTypeOK
  BY DEF SignInInv
<1>1. PICK a \in Accounts, T \in Tokens, C \in Codes, R \in SUBSET Codes :
        /\ a = AccountOf(v) /\ T = vjob[v].token /\ C = vjob[v].code /\ R = vjob[v].read /\ C \in R
  <2>1. vpc[v] = "matched"
    BY DEF SpendBackupCode
  <2> QED BY <2>1, CodeIsSomebodys DEF SignInInv, CodesAreRead
<1>2. /\ vpc[v] = "matched" /\ vpc'[v] = "accepted" /\ vjob' = vjob
      /\ \A w \in Verifiers : w # v => vpc'[w] = vpc[w]
      /\ factor[a] = [token |-> T, codes |-> R]
      /\ factor' = [factor EXCEPT ![a] = [factor[a] EXCEPT !.codes = R \ {C}]]
      /\ UNCHANGED <<sessionVars, enrolVars>>
  BY <1>0, <1>1 DEF SpendBackupCode, VGoto, StillAsRead, Remaining, SignInTypeOK
<1>3. /\ factor'[a] = [token |-> T, codes |-> R \ {C}] /\ factor[a] \in Factors /\ factor'[a] \in Factors
      /\ \A b \in Accounts : b # a => factor'[b] = factor[b]
  <2>1. [factor[a] EXCEPT !.codes = R \ {C}] = [token |-> T, codes |-> R \ {C}]
    BY <1>2
  <2>2. factor'[a] = [token |-> T, codes |-> R \ {C}] /\ \A b \in Accounts : b # a => factor'[b] = factor[b]
    BY <1>0, <1>2, <2>1 DEF SignInTypeOK
  <2>3. factor[a] \in Factors /\ factor'[a] \in Factors
    BY <1>2, <2>2 DEF Factors
  <2> QED BY <2>2, <2>3
<1>4. factor[a] # None /\ factor'[a] # None
  BY <1>3, FactorsAreNotNone
<1>5. \A w \in Verifiers, u \in Tokens, d \in Codes :
        SpentByRequest(w, u, d)' <=> SpentByRequest(w, u, d) \/ (w = v /\ u = T /\ d = C)
  BY <1>1, <1>2 DEF SpentByRequest
<1>6. ASSUME NEW u \in Tokens, NEW d \in Codes PROVE MayOpen(u, d)' <=> MayOpen(u, d)
  <2> DEFINE In(b) == factor[b] # None /\ factor[b].token = u /\ d \in factor[b].codes
  <2>1. \A b \in Accounts : b # a => (In(b)' <=> In(b))
    BY <1>3
  <2>2. In(a) <=> u = T /\ d \in R
    BY <1>2, <1>4
  <2>3. In(a)' <=> u = T /\ d \in R \ {C}
    BY <1>3, <1>4
  <2>4. In(a) <=> In(a)' \/ (u = T /\ d = C)
    BY <1>1, <2>2, <2>3
  <2>5. MayOpen(u, d) <=> (\E b \in Accounts : In(b)) \/ \E w \in Verifiers : SpentByRequest(w, u, d)
    BY DEF MayOpen
  <2>6. MayOpen(u, d)' <=> (\E b \in Accounts : In(b)') \/ \E w \in Verifiers : SpentByRequest(w, u, d)'
    BY DEF MayOpen
  <2> HIDE DEF In
  <2> QED BY <1>5, <2>1, <2>4, <2>5, <2>6
<1>7. \A k \in Rows : Earned(k)' <=> Earned(k)
  BY <1>2 DEF Earned, sessionVars
<1> QED BY <1>2, <1>6, <1>7, VerifierStutters

\* What a request that is done with its code leaves of the standings.
LEMMA EarnedLeaves ==
  ASSUME SignInInv, NEW v \in Verifiers, vpc[v] # "idle",
         vpc' = [vpc EXCEPT ![v] = "idle"], vjob' = [vjob EXCEPT ![v] = NoVerify],
         UNCHANGED <<row, pc, job>>, NEW l \in Links, l = vjob[v].link,
         \A k \in Rows : k # l => (k \in challenges' <=> k \in challenges),
         challenges' \subseteq challenges
  PROVE  /\ Standings[l] = "earned"
         /\ ~Earned(l)' => Standings' = [Standings EXCEPT ![l] = "used"]
         /\ Earned(l)' => Standings' = Standings
<1>0. SignInTypeOK /\ l \in Rows
  BY DEF SignInInv, Rows
<1>1. vpc'[v] = "idle" /\ \A w \in Verifiers : w # v => vpc'[w] = vpc[w] /\ vjob'[w] = vjob[w]
  BY <1>0 DEF SignInTypeOK
<1>2. Earned(l) /\ row[l].state = "gone"
  <2>1. Earned(l)
    BY DEF Earned
  <2> QED BY <2>1, EarnedIsGone
<1>3. \A q \in Requests : ~Holds(q, l)
  BY <1>0, <1>2 DEF SignInInv, RowsAreHeldOnce
<1>4. \A q \in Requests, k \in Rows : Holds(q, k)' <=> Holds(q, k)
  BY DEF Holds
<1>5. \A k \in Rows : k # l => (Earned(k)' <=> Earned(k))
  BY <1>1 DEF Earned
<1>6. \A k \in Rows : k # l => Standing(k)' = Standing(k)
  BY <1>4, <1>5, SameStanding
<1>7. Standing(l) = "earned" /\ Standing(l)' = IF Earned(l)' THEN "earned" ELSE "used"
  BY <1>0, <1>2, <1>3, <1>4 DEF Standing
<1>8. Standings[l] = "earned"
  BY <1>0, <1>7 DEF Standings
<1>9. ASSUME ~Earned(l)' PROVE Standings' = [Standings EXCEPT ![l] = "used"]
  BY <1>0, <1>6, <1>7, <1>9, StandingsBut
<1>10. ASSUME Earned(l)' PROVE Standings' = Standings
  <2>1. \A k \in Rows : Standing(k)' = Standing(k)
    BY <1>6, <1>7, <1>10
  <2> QED BY <2>1 DEF Standings
<1> QED BY <1>8, <1>9, <1>10

\* And of the codes: what it had spent may open no session any more.
LEMMA CodeLeaves ==
  ASSUME SignInInv, NEW v \in Verifiers, NEW t \in Tokens, t = vjob[v].token, UNCHANGED factor,
         vpc' = [vpc EXCEPT ![v] = "idle"], vjob' = [vjob EXCEPT ![v] = NoVerify]
  PROVE  UsableCodes' = IF vpc[v] = "accepted" THEN [UsableCodes EXCEPT ![t] = @ \ {vjob[v].code}]
                        ELSE UsableCodes
<1>0. SignInTypeOK
  BY DEF SignInInv
<1>1. vpc'[v] = "idle" /\ \A w \in Verifiers : w # v => vpc'[w] = vpc[w] /\ vjob'[w] = vjob[w]
  BY <1>0 DEF SignInTypeOK
<1>2. \A w \in Verifiers, u \in Tokens, d \in Codes :
        SpentByRequest(w, u, d)' <=> w # v /\ SpentByRequest(w, u, d)
  BY <1>1 DEF SpentByRequest
<1>3. CASE vpc[v] # "accepted"
  <2>1. \A w \in Verifiers, u \in Tokens, d \in Codes : SpentByRequest(w, u, d)' <=> SpentByRequest(w, u, d)
    BY <1>2, <1>3 DEF SpentByRequest
  <2> QED BY <1>3, <2>1, SpentFrame
<1>4. CASE vpc[v] = "accepted"
  <2>1. PICK C : C = vjob[v].code
    OBVIOUS
  <2>2. \A u \in Tokens, d \in Codes : SpentByRequest(v, u, d) <=> u = t /\ d = C
    BY <1>4, <2>1 DEF SpentByRequest
  <2>3. ASSUME NEW u \in Tokens, NEW d \in Codes PROVE MayOpen(u, d)' <=> MayOpen(u, d) /\ ~(u = t /\ d = C)
    <3>1. CASE u = t /\ d = C
      <4>1. SpentByRequest(v, t, C)
        BY <2>2, <3>1
      <4>2. \A w \in Verifiers : SpentByRequest(w, t, C) => w = v
        BY <3>1, <4>1 DEF SignInInv, CodesAreSpentOnce
      <4>3. \A a \in Accounts : factor[a] # None /\ factor[a].token = t => C \notin factor[a].codes
        BY <3>1, <4>1 DEF SignInInv, CodesAreSpentOnce
      <4> QED BY <1>2, <3>1, <4>2, <4>3 DEF MayOpen
    <3>2. CASE ~(u = t /\ d = C)
      <4>1. \A w \in Verifiers : SpentByRequest(w, u, d)' <=> SpentByRequest(w, u, d)
        BY <1>2, <2>2, <3>2
      <4> QED BY <3>2, <4>1 DEF MayOpen
    <3> QED BY <3>1, <3>2
  <2>4. ASSUME NEW u \in Tokens
        PROVE  UsableCodes'[u] = IF u = t THEN UsableCodes[u] \ {C} ELSE UsableCodes[u]
    <3>1. UsableCodes'[u] = {d \in Codes : MayOpen(u, d)'} /\ UsableCodes[u] = {d \in Codes : MayOpen(u, d)}
      BY DEF UsableCodes
    <3> QED BY <2>3, <3>1
  <2>5. UsableCodes = [u \in Tokens |-> UsableCodes[u]] /\ UsableCodes' = [u \in Tokens |-> UsableCodes'[u]]
    BY DEF UsableCodes
  <2>6. UsableCodes' = [UsableCodes EXCEPT ![t] = @ \ {C}]
    BY <2>4, <2>5
  <2> QED BY <1>4, <2>1, <2>6
<1> QED BY <1>3, <1>4

LEMMA GiveUpLapses ==
  ASSUME SignInInv, NEW v \in Verifiers, GiveUp(v)
  PROVE  Promise!Next \/ UNCHANGED Promise!promiseVars
<1>0. SignInTypeOK
  BY DEF SignInInv
<1>1. /\ vpc[v] # "idle" /\ vpc' = [vpc EXCEPT ![v] = "idle"] /\ vjob' = [vjob EXCEPT ![v] = NoVerify]
      /\ UNCHANGED <<isAdmin, row, challenges, session, pc, job, cli, owner, factor>>
  BY DEF GiveUp, VFinish, VGoto, sessionVars, enrolVars
<1>2. PICK l \in Links, t \in Tokens : l = vjob[v].link /\ t = vjob[v].token
  BY <1>0, <1>1 DEF SignInInv, CodesAreRead, SignInTypeOK, VerifyJobs
<1>3. /\ Standings[l] = "earned"
      /\ Standings' = Standings \/ Standings' = [Standings EXCEPT ![l] = "used"]
  BY <1>1, <1>2, EarnedLeaves
<1>4. UNCHANGED <<SharedAnswers, AskedBy, EnrolledFor, OpenedSessions>>
  BY <1>1, AnswersFrame, EnrolledFrame, SessionsFrame
<1>5. CASE UsableCodes' = UsableCodes
  <2>1. Promise!Lapse(l) \/ UNCHANGED Promise!promiseVars
    BY <1>1, <1>3, <1>4, <1>5 DEF Promise!Lapse, Promise!promiseVars
  <2> QED BY <2>1 DEF Promise!Next, Promise!Proofs
<1>6. CASE UsableCodes' # UsableCodes
  <2>1. PICK c : c = vjob[v].code
    OBVIOUS
  <2>2. vpc[v] = "accepted" /\ UsableCodes' = [UsableCodes EXCEPT ![t] = @ \ {c}]
    BY <1>1, <1>2, <1>6, <2>1, CodeLeaves
  <2>3. c \in UsableCodes[t]
    <3>1. UsableCodes = [u \in Tokens |-> UsableCodes[u]]
      BY DEF UsableCodes
    <3>2. CASE c \notin UsableCodes[t]
      <4>1. UsableCodes[t] \ {c} = UsableCodes[t]
        BY <3>2
      <4> QED BY <1>6, <2>2, <3>1, <4>1
    <3> QED BY <3>2
  <2>4. c \in Codes
    BY <2>3 DEF UsableCodes
  <2>5. Promise!LoseCode(l, t, c)
    BY <1>1, <1>3, <1>4, <2>2, <2>3 DEF Promise!LoseCode
  <2> QED BY <2>4, <2>5 DEF Promise!Next
<1> QED BY <1>5, <1>6

LEMMA ExpireChallengeLapses ==
  ASSUME SignInInv, NEW l \in Links, ExpireChallenge(l)
  PROVE  Promise!Lapse(l) \/ UNCHANGED Promise!promiseVars
<1>0. l \in Rows
  BY DEF Rows
<1>1. /\ l \in challenges /\ challenges' = challenges \ {l}
      /\ UNCHANGED <<isAdmin, row, session, pc, job, doorVars, vpc, vjob>>
  BY DEF ExpireChallenge, doorVars
<1>2. Earned(l) /\ row[l].state = "gone" /\ \A q \in Requests : ~Holds(q, l)
  <2>1. Earned(l)
    BY <1>1 DEF Earned
  <2> QED BY <1>0, <2>1, EarnedIsGone DEF SignInInv, RowsAreHeldOnce
<1>3. \A q \in Requests, k \in Rows : Holds(q, k)' <=> Holds(q, k)
  BY <1>1 DEF Holds
<1>4. \A k \in Rows : k # l => Standing(k)' = Standing(k)
  <2>1. \A k \in Rows : k # l => (Earned(k)' <=> Earned(k))
    BY <1>1 DEF Earned
  <2> QED BY <1>1, <1>3, <2>1, SameStanding
<1>5. Standing(l) = "earned" /\ Standing(l)' \in {"earned", "used"}
  BY <1>0, <1>1, <1>2, <1>3 DEF Standing
<1>6. Standings[l] = "earned"
  BY <1>0, <1>5 DEF Standings
<1>7. Standings' = Standings \/ Standings' = [Standings EXCEPT ![l] = "used"]
  <2>1. CASE Standing(l)' = "earned"
    <3>1. \A k \in Rows : Standing(k)' = Standing(k)
      BY <1>4, <1>5, <2>1
    <3> QED BY <3>1 DEF Standings
  <2>2. CASE Standing(l)' = "used"
    BY <1>0, <1>4, <2>2, StandingsBut
  <2> QED BY <1>5, <2>1, <2>2
<1>8. UNCHANGED <<SharedAnswers, AskedBy, EnrolledFor, UsableCodes, OpenedSessions>>
  BY <1>1, AnswersFrame, DoorFrame, SessionsFrame
<1> QED BY <1>1, <1>6, <1>7, <1>8 DEF Promise!Lapse, Promise!promiseVars

LEMMA OpenAdminSessionOpens ==
  ASSUME SignInInv, NEW v \in Verifiers, NEW s \in SessionIds, OpenAdminSession(v, s)
  PROVE  \E l \in Links, t \in Tokens, c \in Codes \cup {"totp"} : Promise!OpenAdmin(s, l, t, c)
<1>0. SignInTypeOK
  BY DEF SignInInv
<1>1. /\ vpc[v] = "accepted" /\ vpc' = [vpc EXCEPT ![v] = "idle"] /\ vjob' = [vjob EXCEPT ![v] = NoVerify]
      /\ UNCHANGED <<isAdmin, row, challenges, pc, job, cli, owner, factor>>
  BY DEF OpenAdminSession, VFinish, VGoto, enrolVars
<1>2. PICK l \in Links, t \in Tokens, c \in Codes \cup {"totp"} :
        l = vjob[v].link /\ t = vjob[v].token /\ c = vjob[v].code
  <2>1. vpc[v] # "idle" /\ vpc[v] \in {"matched", "accepted"}
    BY <1>1
  <2> QED BY <1>0, <2>1, CodeIsSomebodys DEF SignInInv, CodesAreRead, SignInTypeOK, VerifyJobs, Typed
<1>3. /\ Standings[l] = "earned"
      /\ Standings' = Standings \/ Standings' = [Standings EXCEPT ![l] = "used"]
  BY <1>1, <1>2, EarnedLeaves
<1>4. UsableCodes' = [UsableCodes EXCEPT ![t] = @ \ {c}]
  BY <1>1, <1>2, CodeLeaves
<1>5. c \in UsableCodes[t] \cup {"totp"}
  <2>1. c \in Codes => SpentByRequest(v, t, c)
    BY <1>1, <1>2 DEF SpentByRequest
  <2>2. c \in Codes => c \in UsableCodes[t]
    BY <2>1 DEF UsableCodes, MayOpen
  <2> QED BY <2>2
<1>6. EnrolledFor[t] = AskedBy[l]
  <2>1. owner[t] = row[l].account /\ cli[t] = "enrolled"
    BY <1>1, <1>2 DEF SignInInv, CodesAreRead, AccountOf
  <2> QED BY <2>1 DEF EnrolledFor, AskedBy
<1> DEFINE new == [state |-> "live", account |-> AskedBy[l], method |-> "link_totp", life |-> "admin",
                   origin |-> l, token |-> t, code |-> c]
<1>7. OpenedSessions[s].state = "unused" /\ OpenedSessions' = [OpenedSessions EXCEPT ![s] = new]
  <2>1. /\ session[s].state = "unused"
        /\ session' = [session EXCEPT ![s] =
             [state |-> "live", account |-> row[l].account, method |-> "link_totp",
              life |-> LifeOf("link_totp", FALSE), origin |-> l, granted |-> isAdmin[row[l].account],
              token |-> t, code |-> c]]
    BY <1>2 DEF OpenAdminSession, InsertSession, AccountOf
  <2>2. OpenedSessions[s].state = "unused"
    BY <2>1 DEF OpenedSessions, AsOpened
  <2>3. /\ session'[s].state = "live" /\ session'[s].account = row[l].account /\ session'[s].method = "link_totp"
        /\ session'[s].life = "admin" /\ session'[s].origin = l
        /\ session'[s].token = t /\ session'[s].code = c
        /\ \A o \in SessionIds : o # s => session'[o] = session[o]
    BY <1>0, <2>1 DEF SignInTypeOK, LifeOf
  <2>4. AsOpened(s)' = new
    BY <2>3 DEF AsOpened, AskedBy
  <2> HIDE DEF new
  <2>5. OpenedSessions' = [OpenedSessions EXCEPT ![s] = new]
    BY <2>3, <2>4, OpenedBut
  <2> QED BY <2>2, <2>5
<1>8. UNCHANGED <<SharedAnswers, AskedBy, EnrolledFor>>
  BY <1>1, AnswersFrame, EnrolledFrame
<1>9. Promise!OpenAdmin(s, l, t, c)
  BY <1>1, <1>3, <1>4, <1>5, <1>6, <1>7, <1>8 DEF Promise!OpenAdmin
<1> QED BY <1>9

-----------------------------------------------------------------------------
(* Theorems *)

LEMMA PromiseInit == Init => Promise!Init
<1> SUFFICES ASSUME Init PROVE Promise!Init
  OBVIOUS
<1> USE DEF Init, SessionsInit
<1>1. Standings = [l \in Rows |-> "unasked"] /\ SharedAnswers = [l \in Rows |-> FALSE]
  BY DEF Standings, Standing, SharedAnswers, NoRow
<1>2. AskedBy = [l \in Links |-> None]
  BY DEF AskedBy, NoRow, Rows
<1>3. EnrolledFor = [t \in Tokens |-> None]
  BY DEF EnrolledFor
<1>4. UsableCodes = [t \in Tokens |-> {}]
  <2>1. \A t \in Tokens, c \in Codes : ~MayOpen(t, c)
    BY DEF MayOpen, SpentByRequest
  <2> QED BY <2>1 DEF UsableCodes
<1>5. OpenedSessions = [s \in SessionIds |-> Promise!Unopened]
  BY DEF OpenedSessions, AsOpened, NoSession, Promise!Unopened
<1> QED BY <1>1, <1>2, <1>3, <1>4, <1>5 DEF Promise!Init, Promise!Proofs, Rows

LEMMA PromiseStep == SignInInv /\ [Next]_vars => [Promise!Next]_(Promise!promiseVars)
<1> SUFFICES ASSUME SignInInv, [Next]_vars PROVE Promise!Next \/ UNCHANGED Promise!promiseVars
  OBVIOUS
<1>1. CASE UNCHANGED vars
  <2>1. UNCHANGED <<isAdmin, row, challenges, session, pc, job, doorVars>>
    BY <1>1 DEF vars, sessionVars
  <2> QED BY <2>1, PublicStutter DEF Holds
<1>2. CASE SessionsNext /\ UNCHANGED doorVars
  BY <1>2, PublicImplements
<1>3. ASSUME NEW t \in Tokens, Enrol(t) PROVE Promise!Next \/ UNCHANGED Promise!promiseVars
  BY <1>3, EnrolStutters, InstallEnrols DEF Enrol, Promise!Next
<1>4. ASSUME NEW l \in Links, ExpireChallenge(l) PROVE Promise!Next \/ UNCHANGED Promise!promiseVars
  BY <1>4, ExpireChallengeLapses DEF Promise!Next, Promise!Proofs
<1>5. ASSUME NEW v \in Verifiers, Verify(v) PROVE Promise!Next \/ UNCHANGED Promise!promiseVars
  BY <1>5, SubmitCodeStutters, AcceptTotpStutters, MatchBackupCodeStutters, SpendBackupCodeStutters,
     GiveUpLapses, OpenAdminSessionOpens DEF Verify, Promise!Next
<1> QED BY <1>1, <1>2, <1>3, <1>4, <1>5 DEF Next

\* Every step of the doors is a step of SignInPromise, or none (auth/config.ts:829-1039,
\* admin/door.ts:136-184, auth/admin-door.ts:181-224).
THEOREM SignInPromiseIsImplemented == Spec => SignInPromiseSpec
BY SignInInvariant, PromiseInit, PromiseStep, PTL DEF Spec, SignInPromiseSpec, Promise!Spec

-----------------------------------------------------------------------------
(* What follows from the promise *)

LEMMA PromiseShape ==
  /\ Promise!Proofs = Rows
  /\ Standings = [l \in Rows |-> Standings[l]]
  /\ EnrolledFor = [t \in Tokens |-> EnrolledFor[t]]
  /\ UsableCodes = [t \in Tokens |-> UsableCodes[t]]
  /\ OpenedSessions = [s \in SessionIds |-> OpenedSessions[s]]
  /\ \A s \in SessionIds :
       \E st, a, m, life, l, t, c :
         OpenedSessions[s] = [state |-> st, account |-> a, method |-> m, life |-> life,
                              origin |-> l, token |-> t, code |-> c]
<1>1. Promise!Proofs = Rows
  BY DEF Promise!Proofs, Rows
<1>2. \A s \in SessionIds : OpenedSessions[s] = AsOpened(s)
  BY DEF OpenedSessions
<1> QED BY <1>1, <1>2 DEF Standings, EnrolledFor, UsableCodes, OpenedSessions, AsOpened

\* A used link stays used, and an earned one serves nobody but an Admin again.
LEMMA ProofsGoOn ==
  ASSUME Promise!Next, NEW l \in Rows
  PROVE  /\ Standings[l] = "used" => Standings'[l] = "used"
         /\ Standings[l] \in {"earned", "used"} => Standings'[l] \in {"earned", "used"}
<1>1. CASE \E gone \in SUBSET Promise!LiveSessions : Promise!Close(gone)
  BY <1>1 DEF Promise!Close
<1>2. ASSUME NEW k, Standings[k] \in {"unasked", "good"}, NEW z,
             Standings' = [Standings EXCEPT ![k] = z]
      PROVE  Standings'[l] = Standings[l] \/ Standings[l] \notin {"earned", "used"}
  BY <1>2, PromiseShape
<1>3. ASSUME NEW k, Standings[k] \in {"good", "earned"},
             Standings' \in {Standings, [Standings EXCEPT ![k] = "used"]}
      PROVE  Standings'[l] = Standings[l] \/ (Standings[l] # "used" /\ Standings'[l] = "used")
  BY <1>3, PromiseShape
<1>4. ASSUME NEW k \in Links, NEW a \in Accounts, NEW answer, Promise!AskLink(k, a, answer)
      PROVE  Standings'[l] = Standings[l] \/ Standings[l] \notin {"earned", "used"}
  BY <1>2, <1>4 DEF Promise!AskLink
<1>5. ASSUME NEW k \in Flows, NEW answer, Promise!StartGoogle(k, answer)
      PROVE  Standings'[l] = Standings[l] \/ Standings[l] \notin {"earned", "used"}
  BY <1>2, <1>5 DEF Promise!StartGoogle
<1>6. ASSUME NEW k \in Links, Promise!Refuse(k)
      PROVE  Standings'[l] = Standings[l] \/ Standings[l] \notin {"earned", "used"}
  BY <1>2, <1>6 DEF Promise!Refuse
<1>7. ASSUME NEW k, Promise!Lapse(k)
      PROVE  Standings'[l] = Standings[l] \/ (Standings[l] # "used" /\ Standings'[l] = "used")
  BY <1>3, <1>7 DEF Promise!Lapse
<1>8. ASSUME NEW k, NEW t, NEW c, Promise!LoseCode(k, t, c)
      PROVE  Standings'[l] = Standings[l] \/ (Standings[l] # "used" /\ Standings'[l] = "used")
  BY <1>3, <1>8 DEF Promise!LoseCode
<1>9. ASSUME NEW t, NEW a, Promise!Enrol(t, a) PROVE Standings' = Standings
  BY <1>9 DEF Promise!Enrol
<1>10. ASSUME NEW s, NEW k, NEW a, Promise!OpenPublic(s, k, a)
       PROVE  Standings'[l] = Standings[l] \/ (Standings[l] # "used" /\ Standings'[l] = "used")
  BY <1>3, <1>10 DEF Promise!OpenPublic
<1>11. ASSUME NEW s, NEW k, NEW t, NEW c, Promise!OpenAdmin(s, k, t, c)
       PROVE  Standings'[l] = Standings[l] \/ (Standings[l] # "used" /\ Standings'[l] = "used")
  BY <1>3, <1>11 DEF Promise!OpenAdmin
<1> QED BY <1>1, <1>4, <1>5, <1>6, <1>7, <1>8, <1>9, <1>10, <1>11 DEF Promise!Next

\* An enrolment's codes are handed out once, and only dwindle after that.
LEMMA CodesGoOn ==
  ASSUME Promise!Next, NEW t \in Tokens, EnrolledFor[t] # None
  PROVE  EnrolledFor'[t] # None /\ UsableCodes'[t] \subseteq UsableCodes[t]
<1>1. ASSUME NEW gone, Promise!Close(gone) PROVE UNCHANGED <<EnrolledFor, UsableCodes>>
  BY <1>1 DEF Promise!Close
<1>2. ASSUME NEW k, NEW a, NEW answer, Promise!AskLink(k, a, answer) PROVE UNCHANGED <<EnrolledFor, UsableCodes>>
  BY <1>2 DEF Promise!AskLink
<1>3. ASSUME NEW k, NEW answer, Promise!StartGoogle(k, answer) PROVE UNCHANGED <<EnrolledFor, UsableCodes>>
  BY <1>3 DEF Promise!StartGoogle
<1>4. ASSUME NEW k, Promise!Lapse(k) \/ Promise!Refuse(k) PROVE UNCHANGED <<EnrolledFor, UsableCodes>>
  BY <1>4 DEF Promise!Lapse, Promise!Refuse
<1>5. ASSUME NEW s, NEW k, NEW a, Promise!OpenPublic(s, k, a) PROVE UNCHANGED <<EnrolledFor, UsableCodes>>
  BY <1>5 DEF Promise!OpenPublic
<1>6. ASSUME NEW k, NEW u \in Tokens, NEW c, Promise!LoseCode(k, u, c)
      PROVE  EnrolledFor' = EnrolledFor /\ UsableCodes'[t] \subseteq UsableCodes[t]
  BY <1>6, PromiseShape DEF Promise!LoseCode
<1>7. ASSUME NEW s, NEW k, NEW u \in Tokens, NEW c, Promise!OpenAdmin(s, k, u, c)
      PROVE  EnrolledFor' = EnrolledFor /\ UsableCodes'[t] \subseteq UsableCodes[t]
  BY <1>7, PromiseShape DEF Promise!OpenAdmin
<1>8. ASSUME NEW u \in Tokens, NEW a \in Accounts, Promise!Enrol(u, a)
      PROVE  EnrolledFor'[t] # None /\ UsableCodes'[t] \subseteq UsableCodes[t]
  <2>1. PICK before \in Tokens, lost \in SUBSET Codes :
          UsableCodes' = [UsableCodes EXCEPT ![before] = @ \ lost, ![u] = Codes]
    BY <1>8 DEF Promise!Enrol
  <2>2. u # t /\ EnrolledFor'[t] = EnrolledFor[t]
    BY <1>8, PromiseShape DEF Promise!Enrol
  <2> QED BY <2>1, <2>2, PromiseShape
<1> QED BY <1>1, <1>2, <1>3, <1>4, <1>5, <1>6, <1>7, <1>8 DEF Promise!Next

\* What opened a session goes on being used up.
LEMMA StaysUsedUp ==
  ASSUME Promise!Next, Promise!OpensOnce, NEW s \in SessionIds,
         OpenedSessions'[s].state # "unused" =>
           /\ OpenedSessions[s].state # "unused"
           /\ OpenedSessions'[s].origin = OpenedSessions[s].origin
           /\ OpenedSessions'[s].method = OpenedSessions[s].method
           /\ OpenedSessions'[s].token = OpenedSessions[s].token
           /\ OpenedSessions'[s].code = OpenedSessions[s].code
  PROVE  Promise!UsedUp(s)'
<1> SUFFICES ASSUME OpenedSessions'[s].state # "unused" PROVE Promise!UsedUp(s)'
  BY DEF Promise!UsedUp, Promise!IsOpened
<1>1. Promise!UsedUp(s) /\ Promise!IsOpened(s) /\ OpenedSessions[s].origin \in Rows
  BY PromiseShape DEF Promise!OpensOnce, Promise!UsedUp, Promise!IsOpened
<1>2. CASE OpenedSessions[s].method # "link_totp"
  BY <1>1, <1>2, ProofsGoOn, PromiseShape DEF Promise!UsedUp, Promise!IsOpened
<1>3. CASE OpenedSessions[s].method = "link_totp"
  <2>1. EnrolledFor'[OpenedSessions[s].token] # None
        /\ UsableCodes'[OpenedSessions[s].token] \subseteq UsableCodes[OpenedSessions[s].token]
    BY <1>1, <1>3, CodesGoOn DEF Promise!UsedUp
  <2> QED BY <1>1, <1>3, <2>1, ProofsGoOn, PromiseShape DEF Promise!UsedUp, Promise!IsOpened
<1> QED BY <1>2, <1>3

\* A step that opens nothing opens nothing twice.
LEMMA NothingOpensStep ==
  ASSUME Promise!Next, Promise!OpensOnce,
         \A s \in SessionIds : OpenedSessions'[s].state # "unused" =>
           /\ OpenedSessions[s].state # "unused"
           /\ OpenedSessions'[s].origin = OpenedSessions[s].origin
           /\ OpenedSessions'[s].method = OpenedSessions[s].method
           /\ OpenedSessions'[s].token = OpenedSessions[s].token
           /\ OpenedSessions'[s].code = OpenedSessions[s].code
  PROVE  Promise!OpensOnce'
<1>1. ASSUME NEW s \in SessionIds PROVE Promise!UsedUp(s)'
  BY StaysUsedUp
<1>2. Promise!ProofOpensOnce'
  BY DEF Promise!OpensOnce, Promise!ProofOpensOnce, Promise!IsOpened
<1>3. Promise!CodeOpensOnce'
  BY DEF Promise!OpensOnce, Promise!CodeOpensOnce, Promise!IsOpened
<1> QED BY <1>1, <1>2, <1>3 DEF Promise!OpensOnce

\* A session that opens by what it uses up is the only one to.
LEMMA OneMoreOpensStep ==
  ASSUME Promise!Next, Promise!OpensOnce, NEW s \in SessionIds, Promise!UsedUp(s)',
         \A o \in SessionIds : o # s => OpenedSessions'[o] = OpenedSessions[o],
         \A o \in SessionIds :
           o # s /\ OpenedSessions[o].state # "unused" =>
             /\ OpenedSessions[o].origin = OpenedSessions'[s].origin =>
                  OpenedSessions[o].method = "link_totp" /\ OpenedSessions'[s].method = "link_totp"
             /\ OpenedSessions[o].code = OpenedSessions'[s].code /\ OpenedSessions[o].code \in Codes =>
                  OpenedSessions[o].token # OpenedSessions'[s].token
  PROVE  Promise!OpensOnce'
<1>1. ASSUME NEW o \in SessionIds PROVE Promise!UsedUp(o)'
  BY StaysUsedUp
<1>2. Promise!ProofOpensOnce'
  <2> SUFFICES ASSUME NEW x \in SessionIds, NEW y \in SessionIds, x # y,
                      OpenedSessions'[x].state # "unused", OpenedSessions'[y].state # "unused",
                      OpenedSessions'[x].origin = OpenedSessions'[y].origin
               PROVE  OpenedSessions'[x].method = "link_totp" /\ OpenedSessions'[y].method = "link_totp"
    BY DEF Promise!ProofOpensOnce, Promise!IsOpened
  <2>1. CASE x = s \/ y = s
    BY <2>1
  <2>2. CASE x # s /\ y # s
    BY <2>2 DEF Promise!OpensOnce, Promise!ProofOpensOnce, Promise!IsOpened
  <2> QED BY <2>1, <2>2
<1>3. Promise!CodeOpensOnce'
  <2> SUFFICES ASSUME NEW x \in SessionIds, NEW y \in SessionIds, x # y,
                      OpenedSessions'[x].state # "unused", OpenedSessions'[y].state # "unused",
                      OpenedSessions'[x].code \in Codes,
                      OpenedSessions'[x].code = OpenedSessions'[y].code,
                      OpenedSessions'[x].token = OpenedSessions'[y].token
               PROVE  FALSE
    BY DEF Promise!CodeOpensOnce, Promise!IsOpened
  <2>1. CASE x = s \/ y = s
    BY <2>1
  <2>2. CASE x # s /\ y # s
    BY <2>2 DEF Promise!OpensOnce, Promise!CodeOpensOnce, Promise!IsOpened
  <2> QED BY <2>1, <2>2
<1> QED BY <1>1, <1>2, <1>3 DEF Promise!OpensOnce

LEMMA OpenPublicOnce ==
  ASSUME Promise!Next, Promise!OpensOnce, NEW s \in SessionIds, NEW l \in Rows, NEW a \in Accounts,
         Promise!OpenPublic(s, l, a)
  PROVE  Promise!OpensOnce'
<1>1. /\ OpenedSessions'[s].origin = l /\ OpenedSessions'[s].method # "link_totp"
      /\ OpenedSessions'[s].code = None
      /\ \A o \in SessionIds : o # s => OpenedSessions'[o] = OpenedSessions[o]
  BY PromiseShape DEF Promise!OpenPublic
<1>2. Standings'[l] = "used" /\ Standings[l] = "good"
  BY PromiseShape DEF Promise!OpenPublic
<1>3. Promise!UsedUp(s)'
  BY <1>1, <1>2, PromiseShape DEF Promise!UsedUp
<1>4. \A o \in SessionIds : OpenedSessions[o].state # "unused" => OpenedSessions[o].origin # l
  BY <1>2 DEF Promise!OpensOnce, Promise!UsedUp, Promise!IsOpened
<1>5. None \notin Codes
  BY SessionsNone DEF Typed
<1> QED BY <1>1, <1>3, <1>4, <1>5, OneMoreOpensStep

LEMMA OpenAdminOnce ==
  ASSUME Promise!Next, Promise!OpensOnce, NEW s \in SessionIds, NEW l \in Links, NEW t \in Tokens,
         NEW c \in Codes \cup {"totp"}, Promise!OpenAdmin(s, l, t, c), EnrolledFor[t] # None
  PROVE  Promise!OpensOnce'
<1>1. /\ OpenedSessions'[s].origin = l /\ OpenedSessions'[s].method = "link_totp"
      /\ OpenedSessions'[s].token = t /\ OpenedSessions'[s].code = c
      /\ \A o \in SessionIds : o # s => OpenedSessions'[o] = OpenedSessions[o]
  BY PromiseShape DEF Promise!OpenAdmin
<1>2. l \in Rows /\ Standings[l] = "earned" /\ Standings'[l] \in {"earned", "used"}
  BY PromiseShape DEF Promise!OpenAdmin, Rows
<1>3. EnrolledFor' = EnrolledFor /\ c \notin UsableCodes'[t] /\ c \in UsableCodes[t] \cup {"totp"}
  BY PromiseShape DEF Promise!OpenAdmin
<1>4. Promise!UsedUp(s)'
  BY <1>1, <1>2, <1>3, PromiseShape DEF Promise!UsedUp
<1>5. \A o \in SessionIds :
        OpenedSessions[o].state # "unused" /\ OpenedSessions[o].origin = l =>
          OpenedSessions[o].method = "link_totp"
  BY <1>2 DEF Promise!OpensOnce, Promise!UsedUp, Promise!IsOpened
<1>6. \A o \in SessionIds :
        OpenedSessions[o].state # "unused" /\ OpenedSessions[o].code = c /\ c \in Codes =>
          OpenedSessions[o].token # t
  <2> SUFFICES ASSUME NEW o \in SessionIds, OpenedSessions[o].state # "unused", OpenedSessions[o].code = c,
                      c \in Codes, OpenedSessions[o].token = t
               PROVE  FALSE
    OBVIOUS
  <2>1. c \in UsableCodes[t]
    BY <1>3, TotpIsNoBackupCode
  <2>2. c # None
    BY SessionsNone DEF Typed
  <2> QED BY <2>1, <2>2 DEF Promise!OpensOnce, Promise!UsedUp, Promise!IsOpened
<1> QED BY <1>1, <1>4, <1>5, <1>6, OneMoreOpensStep

LEMMA CloseOpensNothing ==
  ASSUME Promise!Next, Promise!OpensOnce, NEW gone \in SUBSET Promise!LiveSessions, Promise!Close(gone)
  PROVE  Promise!OpensOnce'
<1> SUFFICES ASSUME NEW s \in SessionIds, OpenedSessions'[s].state # "unused"
             PROVE  /\ OpenedSessions[s].state # "unused"
                    /\ OpenedSessions'[s].origin = OpenedSessions[s].origin
                    /\ OpenedSessions'[s].method = OpenedSessions[s].method
                    /\ OpenedSessions'[s].token = OpenedSessions[s].token
                    /\ OpenedSessions'[s].code = OpenedSessions[s].code
  BY NothingOpensStep
<1>1. CASE s \in gone
  <2>1. OpenedSessions'[s] = [OpenedSessions[s] EXCEPT !.state = "closed"] /\ OpenedSessions[s].state = "live"
    BY <1>1 DEF Promise!Close, Promise!LiveSessions
  <2>2. PICK st, a, m, life, l, t, c :
          OpenedSessions[s] = [state |-> st, account |-> a, method |-> m, life |-> life,
                               origin |-> l, token |-> t, code |-> c]
    BY PromiseShape
  <2> QED BY <2>1, <2>2
<1>2. CASE s \notin gone
  <2>1. OpenedSessions'[s] = OpenedSessions[s]
    BY <1>2 DEF Promise!Close
  <2> QED BY <2>1
<1> QED BY <1>1, <1>2

LEMMA OpensOnceStep ==
  SignInInv /\ Promise!OpensOnce /\ [Promise!Next]_(Promise!promiseVars) => Promise!OpensOnce'
<1> SUFFICES ASSUME SignInInv, Promise!OpensOnce, [Promise!Next]_(Promise!promiseVars)
             PROVE  Promise!OpensOnce'
  OBVIOUS
<1>1. CASE UNCHANGED Promise!promiseVars
  BY <1>1 DEF Promise!promiseVars, Promise!OpensOnce, Promise!UsedUp, Promise!ProofOpensOnce,
     Promise!CodeOpensOnce, Promise!IsOpened
<1>2. CASE Promise!Next /\ OpenedSessions' = OpenedSessions
  BY <1>2, NothingOpensStep
<1>3. ASSUME Promise!Next, NEW s \in SessionIds, NEW l \in Links, NEW t \in Tokens,
             NEW c \in Codes \cup {"totp"}, Promise!OpenAdmin(s, l, t, c)
      PROVE  Promise!OpensOnce'
  <2>1. EnrolledFor[t] = AskedBy[l] /\ Standings[l] = "earned"
    BY <1>3 DEF Promise!OpenAdmin
  <2>2. row[l].state # "unsent"
    BY <2>1, PromiseShape DEF Standings, Standing, Rows
  <2>3. AskedBy[l] # None
    BY <2>2 DEF AskedBy, SignInInv, RowsAreHers, Rows
  <2> QED BY <1>3, <2>1, <2>3, OpenAdminOnce
<1>4. ASSUME Promise!Next, NEW s \in SessionIds, NEW l \in Promise!Proofs, NEW a \in Accounts,
             Promise!OpenPublic(s, l, a)
      PROVE  Promise!OpensOnce'
  BY <1>4, PromiseShape, OpenPublicOnce
<1>5. ASSUME Promise!Next, NEW gone \in SUBSET Promise!LiveSessions, Promise!Close(gone)
      PROVE  Promise!OpensOnce'
  BY <1>5, CloseOpensNothing
<1>6. CASE Promise!Next
  BY <1>2, <1>3, <1>4, <1>5, <1>6
  DEF Promise!Next, Promise!AskLink, Promise!StartGoogle, Promise!Lapse, Promise!Refuse,
      Promise!LoseCode, Promise!Enrol
<1> QED BY <1>1, <1>6

\* A link or a start at Google opens one session, unless it led an Admin to her second
\* factor, and a backup code opens one, whatever is in flight (auth/config.ts:829-1039,
\* admin/door.ts:136-184).
THEOREM WhatOpensASessionOpensOne == Spec => [](Promise!ProofOpensOnce /\ Promise!CodeOpensOnce)
<1>1. Promise!Init => Promise!OpensOnce
  BY PromiseShape DEF Promise!Init, Promise!OpensOnce, Promise!UsedUp, Promise!ProofOpensOnce,
     Promise!CodeOpensOnce, Promise!IsOpened, Promise!Unopened
<1>2. Promise!OpensOnce => Promise!ProofOpensOnce /\ Promise!CodeOpensOnce
  BY DEF Promise!OpensOnce
<1> QED
  BY <1>1, <1>2, SignInInvariant, OpensOnceStep, PromiseInit, PromiseStep, PTL DEF Spec
=============================================================================
