-------------------------------- MODULE MCSignIn --------------------------------
(***************************************************************************)
(* AdminDoor for TLC.  The instance is one of four, chosen at the start:     *)
(* each public door against a grant that is given meanwhile, what closes    *)
(* sessions against each other, and codes in flight while their factor is   *)
(* replaced.                                                                *)
(***************************************************************************)
EXTENDS AdminDoorInvariant, Integers, TLC

CONSTANTS
  me,       \* the Account that is granted
  opener,   \* the request that opens where others close
  home,     \* the browser of the instance where sessions are closed
  early     \* the first setup link that is printed

Closers == Requests \ {opener}

Symmetry == Permutations(Closers) \cup Permutations(Codes) \cup Permutations(Verifiers)

VARIABLE instance
mcVars == <<vars, instance>>

MCInit == Init /\ instance \in {"links", "google", "closing", "codes"}

\* Rows of a table are alike: the next one is the least that is unused.
Least(S) == {x \in S : \A y \in S : x <= y}
NextSession == Least({s \in SessionIds : session[s].state = "unused"})
NextOf(rows) == Least({l \in rows : row[l].state = "unsent"})

EnrolOnce == Mint(early, me) \/ Claim(early) \/ Install(early)

\* One door's rows in flight, expiring, while the Account is granted.
DoorNext(rows) ==
  \/ /\ \/ \E l \in rows : ExpireRow(l)
        \/ \E r \in Closers :
             \/ Consume(r) \/ PassTheDoor(r) \/ RefuseTheDoor(r) \/ Leave(r)
             \/ \E s \in NextSession : CreateSession(r, s)
     /\ UNCHANGED doorVars
  \/ EnrolOnce

LinksNext ==
  \/ DoorNext(Links)
  \/ /\ \/ \E l \in NextOf(Links), shared \in BOOLEAN : StoreLink(l, me, shared)
        \/ \E l \in Links :
             MailLink(l) \/ \E r \in Closers : OpenLink(r, l)
     /\ UNCHANGED doorVars

\* Two starts in one browser, or in two; the third is for where sessions are closed.
Starts == {f \in Flows : \E g \in Flows : f < g}
GoogleNext ==
  \/ DoorNext(Starts)
  \/ /\ \E b \in Browsers :
          \/ \E f \in NextOf(Starts), shared \in BOOLEAN : StartGoogle(f, b, shared)
          \/ \E r \in Closers : GoogleCallback(r, b, me)
     /\ UNCHANGED doorVars

\* Two requests close what a third keeps opening.
ClosingNext ==
  /\ \/ \E f \in NextOf(Flows) : StartGoogle(f, home, FALSE)
     \/ \E a \in Accounts : GoogleCallback(opener, home, a)
     \/ Consume(opener) \/ PassTheDoor(opener)
     \/ \E s \in NextSession : CreateSession(opener, s)
     \/ \E r \in Closers : CloseOne(r) \/ Leave(r)
     \/ \E r \in Closers :
          \/ \E s \in SessionIds : SignOutEverywhere(r, s)
          \/ CountBefore(r) \/ RevokeOtherSessions(r) \/ CountAfter(r)
     \/ \E s \in SessionIds : ExpireSession(s)
  /\ UNCHANGED doorVars

\* Codes in flight for one Account, whose factor a second enrolment replaces.  Her
\* challenge outlives the session it led to, so each may open one; two are enough.
CodeSessions == {s \in SessionIds : \E o \in SessionIds : s < o}
CodesNext ==
  LET l == CHOOSE one \in Links : TRUE IN
  \/ /\ \/ StoreLink(l, me, FALSE) \/ MailLink(l) \/ OpenLink(opener, l)
        \/ Consume(opener) \/ RefuseTheDoor(opener)
        \/ \E s \in SessionIds : AuthoriseRevoke(opener, s, me)
        \/ RevokeSessions(opener)
     /\ UNCHANGED doorVars
  \/ \E t \in Tokens :
       \/ (t = early \/ cli[early] # "away") /\ Mint(t, me)
       \/ Claim(t) \/ Install(t) \/ Quit(t)
  \/ cli[early] = "printed" /\ ExpireEnrolment(early)
  \/ ExpireChallenge(l)
  \/ \E v \in Verifiers :
       \/ \E t \in Tokens, c \in Typed : SubmitCode(v, l, t, c)
       \/ AcceptTotp(v) \/ MatchBackupCode(v) \/ SpendBackupCode(v)
       \/ \E s \in NextSession \cap CodeSessions : OpenAdminSession(v, s)
       \/ GiveUp(v)

MCNext ==
  /\ \/ instance = "links" /\ LinksNext
     \/ instance = "google" /\ GoogleNext
     \/ instance = "closing" /\ ClosingNext
     \/ instance = "codes" /\ CodesNext
  /\ UNCHANGED instance

MCSpec == MCInit /\ [][MCNext]_mcVars
=============================================================================
