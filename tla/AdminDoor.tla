-------------------------------- MODULE AdminDoor --------------------------------
(***************************************************************************)
(* The Admin's door over the public ones: packages/domain/src/admin         *)
(* (enrolment, its command, and verifyAdminCode) and auth/admin-door.ts.     *)
(*                                                                          *)
(* A run of `admin:enrol` is a process that owns the setup link it printed. *)
(* A submitted code is a process too: its read, its spending of a backup    *)
(* code and the session it opens are steps others come between.             *)
(***************************************************************************)
EXTENDS Sessions

CONSTANTS Verifiers   \* codes that may be in flight at once

VARIABLES
  enrolment,   \* admin_enrolment: the setup link of each Account, or None
  lapsed,      \* setup links past their expiry
  cli,         \* where each run of the command is
  owner,       \* the Account each setup link was printed for
  newest,      \* the last setup link printed for each Account
  factor,      \* admin_second_factor of each Account, or None
  vpc,         \* where each submitted code is
  vjob         \* what each submitted code carries

enrolVars == <<enrolment, lapsed, cli, owner, newest>>
doorVars == <<enrolVars, factor, vpc, vjob>>
vars == <<sessionVars, doorVars>>
-----------------------------------------------------------------------------
Factors == [token : Tokens, codes : SUBSET Codes]
ASSUME FactorsAreNotNone == None \notin Factors

\* `link` is the challenge in her cookie; `token` names the authenticator, or the
\* sheet of backup codes, that what she typed came from.
VerifyJobs ==
  [link : Links \cup {None}, token : Tokens \cup {None}, code : Typed \cup {None},
   read : SUBSET Codes]
NoVerify == [link |-> None, token |-> None, code |-> None, read |-> {}]

Init ==
  /\ SessionsInit
  /\ enrolment = [a \in Accounts |-> None]
  /\ lapsed = {}
  /\ cli = [t \in Tokens |-> "away"]
  /\ owner = [t \in Tokens |-> None]
  /\ newest = [a \in Accounts |-> None]
  /\ factor = [a \in Accounts |-> None]
  /\ vpc = [v \in Verifiers |-> "idle"]
  /\ vjob = [v \in Verifiers |-> NoVerify]

-----------------------------------------------------------------------------
(* Enrolment *)

\* Expired rows of any Account are swept by the same transaction.
Mint(t, a) ==
  /\ cli[t] = "away"
  /\ cli' = [cli EXCEPT ![t] = "printed"]
  /\ owner' = [owner EXCEPT ![t] = a]
  /\ newest' = [newest EXCEPT ![a] = t]
  /\ enrolment' = [o \in Accounts |->
       IF o = a THEN t ELSE IF enrolment[o] \in lapsed THEN None ELSE enrolment[o]]
  /\ UNCHANGED <<sessionVars, lapsed, factor, vpc, vjob>>

ExpireEnrolment(t) ==
  /\ cli[t] # "away"
  /\ lapsed' = lapsed \cup {t}
  /\ UNCHANGED <<sessionVars, enrolment, cli, owner, newest, factor, vpc, vjob>>

\* findLiveEnrolment and the code check, outside the transaction that installs.
Claim(t) ==
  /\ cli[t] = "printed"
  /\ enrolment[owner[t]] = t
  /\ t \notin lapsed
  /\ cli' = [cli EXCEPT ![t] = "claimed"]
  /\ UNCHANGED <<sessionVars, enrolment, lapsed, owner, newest, factor, vpc, vjob>>

\* The factor is replaced whole, the Account's setup links close, the grant is given.
Install(t) ==
  LET a == owner[t] IN
  /\ cli[t] = "claimed"
  /\ factor' = [factor EXCEPT ![a] = [token |-> t, codes |-> Codes]]
  /\ enrolment' = [enrolment EXCEPT ![a] = None]
  /\ isAdmin' = [isAdmin EXCEPT ![a] = TRUE]
  /\ cli' = [cli EXCEPT ![t] = "enrolled"]
  /\ UNCHANGED <<row, cookie, challenges, session, pc, job, lapsed, owner, newest, vpc, vjob>>

\* Three wrong codes, an unknown link, a closed terminal or a failed transaction.
Quit(t) ==
  /\ cli[t] \in {"printed", "claimed"}
  /\ cli' = [cli EXCEPT ![t] = "quit"]
  /\ UNCHANGED <<sessionVars, enrolment, lapsed, owner, newest, factor, vpc, vjob>>

Enrol(t) ==
  \/ \E a \in Accounts : Mint(t, a)
  \/ ExpireEnrolment(t) \/ Claim(t) \/ Install(t) \/ Quit(t)
-----------------------------------------------------------------------------
(* The second factor *)

VGoto(v, to) == vpc' = [vpc EXCEPT ![v] = to]
VFinish(v) == VGoto(v, "idle") /\ vjob' = [vjob EXCEPT ![v] = NoVerify]

AccountOf(v) == row[vjob[v].link].account

\* The challenge is a signed cookie: it is read, and nothing remembers that.
SubmitCode(v, l, t, c) ==
  /\ vpc[v] = "idle"
  /\ l \in challenges
  /\ cli[t] # "away"
  /\ VGoto(v, "submitted")
  /\ vjob' = [vjob EXCEPT ![v] = [link |-> l, token |-> t, code |-> c, read |-> {}]]
  /\ UNCHANGED <<sessionVars, enrolVars, factor>>

ExpireChallenge(l) ==
  /\ l \in challenges
  /\ challenges' = challenges \ {l}
  /\ UNCHANGED <<isAdmin, row, cookie, session, pc, job, doorVars>>

FactorTakes(a, t) == isAdmin[a] /\ factor[a] # None /\ factor[a].token = t

\* The authenticator's digits need no more than the read.
AcceptTotp(v) ==
  /\ vpc[v] = "submitted"
  /\ vjob[v].code = "totp"
  /\ FactorTakes(AccountOf(v), vjob[v].token)
  /\ VGoto(v, "accepted")
  /\ UNCHANGED <<sessionVars, enrolVars, factor, vjob>>

MatchBackupCode(v) ==
  LET a == AccountOf(v) IN
  /\ vpc[v] = "submitted"
  /\ FactorTakes(a, vjob[v].token)
  /\ vjob[v].code \in factor[a].codes
  /\ vjob' = [vjob EXCEPT ![v].read = factor[a].codes]
  /\ VGoto(v, "matched")
  /\ UNCHANGED <<sessionVars, enrolVars, factor>>

Remaining(v) == vjob[v].read \ {vjob[v].code}

\* The row is written whatever it holds by now.
BlindInstead(v) == factor[AccountOf(v)] # None
\* WHERE backup_codes = the ciphertext that was read: one write made it.
StillAsRead(v) == factor[AccountOf(v)] = [token |-> vjob[v].token, codes |-> vjob[v].read]

SpendBackupCode(v) ==
  /\ vpc[v] = "matched"
  /\ StillAsRead(v)
  /\ factor' = [factor EXCEPT ![AccountOf(v)].codes = Remaining(v)]
  /\ VGoto(v, "accepted")
  /\ UNCHANGED <<sessionVars, enrolVars, vjob>>

\* The session hook lets this door through.  The answer asks her browser to drop the
\* challenge, which ends nothing: it is signed, not stored, and good until it expires.
OpenAdminSession(v, s) ==
  LET a == AccountOf(v)
      carried == [origin |-> vjob[v].link, shared |-> FALSE, granted |-> isAdmin[a]]
  IN
  /\ vpc[v] = "accepted"
  /\ InsertSession(s, a, "link_totp", carried, vjob[v].token, vjob[v].code)
  /\ VFinish(v)
  /\ UNCHANGED <<isAdmin, row, cookie, challenges, pc, job, enrolVars, factor>>

\* A ceiling, a wrong code, a lost swap, or the request dies where it is.
GiveUp(v) ==
  /\ vpc[v] # "idle"
  /\ VFinish(v)
  /\ UNCHANGED <<sessionVars, enrolVars, factor>>

Verify(v) ==
  \/ \E l \in Links, t \in Tokens, c \in Typed : SubmitCode(v, l, t, c)
  \/ AcceptTotp(v) \/ MatchBackupCode(v) \/ SpendBackupCode(v)
  \/ \E s \in SessionIds : OpenAdminSession(v, s)
  \/ GiveUp(v)

Next ==
  \/ SessionsNext /\ UNCHANGED doorVars
  \/ \E t \in Tokens : Enrol(t)
  \/ \E l \in Links : ExpireChallenge(l)
  \/ \E v \in Verifiers : Verify(v)

Spec == Init /\ [][Next]_vars
=============================================================================
