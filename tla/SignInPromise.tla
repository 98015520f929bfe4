----------------------------- MODULE SignInPromise -----------------------------
(***************************************************************************)
(* What the product promises about sessions, said without cookies, hooks,   *)
(* requests in flight or a compare-and-swap: a session opens in one step,   *)
(* by one link or start at Google that is used up by it and whose answer    *)
(* says how long it lives; or, for an Admin, by a link that was refused for  *)
(* her grant and one code of a factor enrolled for her; it keeps what it     *)
(* was opened with, closes, and stays closed.  AdminDoor is the detailed    *)
(* specification shown to implement this one.                               *)
(***************************************************************************)
CONSTANTS
  Accounts,    \* rows of user
  Links,       \* links that may be asked for
  Flows,       \* starts at Google
  SessionIds,  \* sessions
  Tokens,      \* enrolments of a second factor
  Codes,       \* backup codes of one enrolment
  None         \* nothing

Proofs == Links \cup Flows

VARIABLES
  granted,   \* who is an Admin
  proof,     \* a link or a start: "unasked", "good", "earned" or "used"
  shared,    \* her answer about the device, when she asked
  asker,     \* the Account a link was asked for, or None
  enrolled,  \* the Account whose factor an enrolment became, or None
  codes,     \* backup codes of each enrolment that may still open a session
  opened     \* sessions: "unused", "live" or "closed", and what opened them

promiseVars == <<granted, proof, shared, asker, enrolled, codes, opened>>

Unopened ==
  [state |-> "unused", account |-> None, method |-> None, life |-> None, origin |-> None,
   token |-> None, code |-> None]

Init ==
  /\ granted = [a \in Accounts |-> FALSE]
  /\ proof = [l \in Proofs |-> "unasked"]
  /\ shared = [l \in Proofs |-> FALSE]
  /\ asker = [l \in Links |-> None]
  /\ enrolled = [t \in Tokens |-> None]
  /\ codes = [t \in Tokens |-> {}]
  /\ opened = [s \in SessionIds |-> Unopened]

AskLink(l, a, answer) ==
  /\ proof[l] = "unasked"
  /\ proof' = [proof EXCEPT ![l] = "good"]
  /\ shared' = [shared EXCEPT ![l] = answer]
  /\ asker' = [asker EXCEPT ![l] = a]
  /\ UNCHANGED <<granted, enrolled, codes, opened>>

StartGoogle(f, answer) ==
  /\ proof[f] = "unasked"
  /\ proof' = [proof EXCEPT ![f] = "good"]
  /\ shared' = [shared EXCEPT ![f] = answer]
  /\ UNCHANGED <<granted, asker, enrolled, codes, opened>>

\* It expired, or whoever was using it was refused or died.
Lapse(l) ==
  /\ proof[l] \in {"good", "earned"}
  /\ proof' = [proof EXCEPT ![l] = "used"]
  /\ UNCHANGED <<granted, shared, asker, enrolled, codes, opened>>

\* A request that spent a code died before its session: the code is gone.  This is
\* what the code does, not what its comments say (SpentCodesOpened in AdminDoor).
LoseCode(l, t, c) ==
  /\ proof[l] = "earned"
  /\ c \in codes[t]
  /\ codes' = [codes EXCEPT ![t] = @ \ {c}]
  /\ proof' \in {proof, [proof EXCEPT ![l] = "used"]}
  /\ UNCHANGED <<granted, shared, asker, enrolled, opened>>

\* The factor an Account had is replaced; a code of it may be under way.
Enrol(t, a) ==
  /\ enrolled[t] = None
  /\ enrolled' = [enrolled EXCEPT ![t] = a]
  /\ granted' = [granted EXCEPT ![a] = TRUE]
  /\ \E before \in Tokens, lost \in SUBSET Codes :
       codes' = [codes EXCEPT ![before] = @ \ lost, ![t] = Codes]
  /\ UNCHANGED <<proof, shared, asker, opened>>

\* An Admin's link opens no session: it leads to her second factor.
Refuse(l) ==
  /\ proof[l] = "good"
  /\ granted[asker[l]]
  /\ proof' = [proof EXCEPT ![l] = "earned"]
  /\ UNCHANGED <<granted, shared, asker, enrolled, codes, opened>>

OpenPublic(s, l, a) ==
  /\ proof[l] = "good"
  /\ l \in Links => a = asker[l]
  /\ opened[s].state = "unused"
  /\ opened' = [opened EXCEPT ![s] =
       [state |-> "live", account |-> a,
        method |-> IF l \in Links THEN "magic_link" ELSE "google",
        life |-> IF shared[l] THEN "shared" ELSE "own",
        origin |-> l, token |-> None, code |-> None]]
  /\ proof' = [proof EXCEPT ![l] = "used"]
  /\ UNCHANGED <<granted, shared, asker, enrolled, codes>>

\* A code serves her once.  The link may serve again: its challenge stays good until it
\* expires, and a code submitted before that may outlast it.
OpenAdmin(s, l, t, c) ==
  /\ proof[l] = "earned"
  /\ enrolled[t] = asker[l]
  /\ c \in codes[t] \cup {"totp"}
  /\ opened[s].state = "unused"
  /\ opened' = [opened EXCEPT ![s] =
       [state |-> "live", account |-> asker[l], method |-> "link_totp", life |-> "admin",
        origin |-> l, token |-> t, code |-> c]]
  /\ proof' \in {proof, [proof EXCEPT ![l] = "used"]}
  /\ codes' = [codes EXCEPT ![t] = @ \ {c}]
  /\ UNCHANGED <<granted, shared, asker, enrolled>>

LiveSessions == {s \in SessionIds : opened[s].state = "live"}

Close(gone) ==
  /\ opened' = [s \in SessionIds |->
       IF s \in gone THEN [opened[s] EXCEPT !.state = "closed"] ELSE opened[s]]
  /\ UNCHANGED <<granted, proof, shared, asker, enrolled, codes>>

Next ==
  \/ \E gone \in SUBSET LiveSessions : Close(gone)
  \/ \E answer \in BOOLEAN :
       \/ \E l \in Links, a \in Accounts : AskLink(l, a, answer)
       \/ \E f \in Flows : StartGoogle(f, answer)
  \/ \E l \in Proofs : Lapse(l)
  \/ \E l \in Links : Refuse(l)
  \/ \E t \in Tokens :
       \/ \E l \in Links, c \in Codes : LoseCode(l, t, c)
       \/ \E a \in Accounts : Enrol(t, a)
  \/ \E s \in SessionIds :
       \/ \E l \in Proofs, a \in Accounts : OpenPublic(s, l, a)
       \/ \E l \in Links, t \in Tokens, c \in Codes \cup {"totp"} : OpenAdmin(s, l, t, c)

Spec == Init /\ [][Next]_promiseVars
-----------------------------------------------------------------------------
(* What follows from it *)

IsOpened(s) == opened[s].state # "unused"

\* A link or a start opens one session, or leads one Admin to her second factor:
\* two sessions that came by one link are both hers, behind a code each.
ProofOpensOnce ==
  \A s, o \in SessionIds :
    IsOpened(s) /\ IsOpened(o) /\ s # o /\ opened[s].origin = opened[o].origin =>
      opened[s].method = "link_totp" /\ opened[o].method = "link_totp"

\* A backup code opens one session.
CodeOpensOnce ==
  \A s, o \in SessionIds :
    IsOpened(s) /\ IsOpened(o) /\ s # o /\ opened[s].code \in Codes =>
      <<opened[s].token, opened[s].code>> # <<opened[o].token, opened[o].code>>

\* What makes both inductive: what opened a session is not left to open another.
UsedUp(s) ==
  IsOpened(s) =>
    /\ opened[s].origin \in Proofs
    /\ \/ /\ opened[s].method # "link_totp"
          /\ proof[opened[s].origin] = "used"
          /\ opened[s].code = None
       \/ /\ opened[s].method = "link_totp"
          /\ proof[opened[s].origin] \in {"earned", "used"}
          /\ opened[s].token \in Tokens
          /\ enrolled[opened[s].token] # None
          /\ opened[s].code \notin codes[opened[s].token]

OpensOnce == (\A s \in SessionIds : UsedUp(s)) /\ ProofOpensOnce /\ CodeOpensOnce
=============================================================================
