---------------------------- MODULE OfferExchange ----------------------------
(***************************************************************************)
(* Sending, deciding and answering Offers, and the Contact Exchange an     *)
(* accepted one writes: packages/domain/src/{offers,exchange,admin,        *)
(* profiles,consent} and the Server Actions that call them.                *)
(*                                                                         *)
(* A request is a process.  Its Postgres transaction runs at READ          *)
(* COMMITTED: each statement is one step that reads what is committed, the *)
(* writes of a transaction appear together at its last step, and a row     *)
(* lock (SELECT ... FOR UPDATE) is held from the step that takes it to the *)
(* end of the transaction.  Emails go out after the commit; a request may  *)
(* die between any two of its steps, which rolls its transaction back.     *)
(*                                                                         *)
(* A CapabilityProfile is named by the Account that owns it (one profile   *)
(* per Account).  What a person types is abstracted: a Hirer's identity is *)
(* one of Names, and a Worker's contact details are a version number.      *)
(***************************************************************************)
EXTENDS OfferStates, Naturals, FiniteSets

CONSTANTS
  Accounts,   \* every Account
  Workers,    \* the Accounts holding a CapabilityProfile
  Offers,     \* ids an Offer row may be given
  Requests,   \* requests that may be in flight at once
  Names,      \* identities (name and number) a Hirer may type
  None,       \* SQL NULL, or no row
  MaxEdits,   \* bound: edits of one Worker's contact details
  MaxFaults   \* bound: requests that die, and copies we fail to record

ASSUME WorkersAssumption == Workers \subseteq Accounts
ASSUME OffersAssumption == IsFiniteSet(Offers)
ASSUME BoundsAssumption == MaxEdits \in Nat /\ MaxFaults \in Nat

VARIABLES
  offerSendingState,    \* user.offer_sending_state
  hirerName,            \* user.hirer_name and hirer_phone
  consent,              \* Accounts with a Consent row on the Hirer's side
  contact,              \* full name and phone on her profile, as a version
  paused,               \* profiles whose paused_at is set
  deliveredOfferCount,  \* capability_profile.delivered_offer_count
  block,                \* Block edges <<profile, hirer>>
  offerState,           \* offer.state, "unsent" where there is no row
  sender,               \* offer.hirer_account_id
  addressee,            \* offer.capability_profile_id
  deliveredAt,          \* Offers whose delivered_at is stamped
  contactExchange,      \* contact_exchange row of an Offer, or None
  adminAction,          \* number of admin_action rows naming an Offer, by action
  outbox,               \* emails the transport has accepted
  pc,                   \* where each request is
  job,                  \* what each request carries in memory
  faults                \* faults so far, bounded by MaxFaults

accountVars  == <<offerSendingState, hirerName, consent, block>>
profileVars  == <<contact, paused, deliveredOfferCount>>
offerVars    == <<offerState, sender, addressee, deliveredAt>>
recordVars   == <<contactExchange, adminAction>>
requestVars  == <<pc, job>>
vars == <<accountVars, profileVars, offerVars, recordVars, outbox, requestVars, faults>>
-----------------------------------------------------------------------------
Sides == {"worker", "hirer"}
CopyStates == {"pending", "sent", "failed"}
SendingStates == {"active", "frozen", "banned"}
AuditedActions == {"deliverOffer", "rejectOffer"}

\* The two transactions that lock an Offer row, by the move they make: hers
\* (answerReceivedOffer) and an Admin's (lockOfferForDecision).
AnswerMove == [accepting |-> "accepted", declining |-> "declined"]
DecisionMove == [delivering |-> "delivered", rejecting |-> "rejected_by_admin"]
ActionOf == [delivering |-> "deliverOffer", rejecting |-> "rejectOffer"]

SendTx == {"locked", "addressed", "screened"}
AnswerTx == {"accepting", "declining"}
DecisionTx == {"delivering", "rejecting"}
OfferTx == AnswerTx \cup DecisionTx

PCs == {"idle", "posted", "copying", "notifying"} \cup SendTx \cup OfferTx

Snapshots == [worker : 0..MaxEdits, hirer : Names \cup {None}]
Exchanges == [snapshot : Snapshots, copy : [Sides -> CopyStates]]
CopyProgress == {"unsent", "sent", "failed", "recorded"}

ASSUME NoneAssumption == None \notin Accounts \cup Offers \cup Names \cup Exchanges

\* Her copy and his of an exchange, and the note that an Offer reached her.
Mails ==
  [kind : {"contact-exchange"}, offer : Offers, side : Sides, about : Snapshots]
    \cup [kind : {"offer-delivered"}, offer : Offers]

Jobs ==
  [caller   : Accounts \cup {None},
   profile  : Workers \cup {None},
   subject  : Offers \cup {None},
   identity : Names \cup {None},
   first    : BOOLEAN,
   snapshot : Snapshots \cup {None},
   progress : [Sides -> CopyProgress]]

NoJob ==
  [caller |-> None, profile |-> None, subject |-> None, identity |-> None,
   first |-> FALSE, snapshot |-> None, progress |-> [s \in Sides |-> "unsent"]]

Init ==
  /\ offerSendingState = [a \in Accounts |-> "active"]
  /\ hirerName = [a \in Accounts |-> None]
  /\ consent = {}
  /\ contact = [w \in Workers |-> 0]
  /\ paused = {}
  /\ deliveredOfferCount = [w \in Workers |-> 0]
  /\ block = {}
  /\ offerState = [o \in Offers |-> "unsent"]
  /\ sender = [o \in Offers |-> None]
  /\ addressee = [o \in Offers |-> None]
  /\ deliveredAt = {}
  /\ contactExchange = [o \in Offers |-> None]
  /\ adminAction = [o \in Offers |-> [a \in AuditedActions |-> 0]]
  /\ outbox = {}
  /\ pc = [r \in Requests |-> "idle"]
  /\ job = [r \in Requests |-> NoJob]
  /\ faults = 0
-----------------------------------------------------------------------------
(* Definitions named No..., ...Instead or ...Anyway are mutants: the form a   *)
(* plausible bug would give the definition after them.  Nothing uses them.   *)

\* A row lock is free when no request is inside a transaction holding it.
NoUserLock(a) == TRUE
LockedByTheReadBeforeItInstead(a) ==
  \A r \in Requests : ~(pc[r] \in SendTx \cup {"posted"} /\ job[r].caller = a)
UserRowFree(a) == \A r \in Requests : ~(pc[r] \in SendTx /\ job[r].caller = a)
NoOfferLock(o) == TRUE
OfferRowFree(o) == \A r \in Requests : ~(pc[r] \in OfferTx /\ job[r].subject = o)

Goto(r, to) == pc' = [pc EXCEPT ![r] = to] /\ UNCHANGED job

\* The request answers its caller: its transaction, if it had one, is over.
Finish(r) == pc' = [pc EXCEPT ![r] = "idle"] /\ job' = [job EXCEPT ![r] = NoJob]

\* Visible to others: published and not paused (profiles/visibility.ts).  No
\* writer of `taken_down` exists, so the pause is the half that can change.
VisibleToOthers(w) == w \in Workers \ paused

\* Bound: a send starts only while there is an id left for the row it may write.
IdLeft ==
  Cardinality({q \in Requests : pc[q] \in SendTx \cup {"posted"}})
    < Cardinality({o \in Offers : offerState[o] = "unsent"})
-----------------------------------------------------------------------------
(* sendOffer *)

\* The Server Action reads his Consent row outside any transaction and asks
\* for an identity exactly when there is none.
SendPost(r, h, w) ==
  /\ pc[r] = "idle"
  /\ IdLeft
  /\ \E n \in IF h \in consent THEN {None} ELSE Names :
       job' = [job EXCEPT ![r] = [NoJob EXCEPT !.caller = h, !.profile = w, !.identity = n]]
  /\ pc' = [pc EXCEPT ![r] = "posted"]
  /\ UNCHANGED <<accountVars, profileVars, offerVars, recordVars, outbox, faults>>

\* The lock on the Hirer's own row, and his state read beneath it.
SendLock(r) ==
  /\ pc[r] = "posted"
  /\ UserRowFree(job[r].caller)
  /\ IF offerSendingState[job[r].caller] = "active" THEN Goto(r, "locked") ELSE Finish(r)
  /\ UNCHANGED <<accountVars, profileVars, offerVars, recordVars, outbox, faults>>

\* Her profile, read without a lock; his own profile is refused.
SendAddress(r) ==
  /\ pc[r] = "locked"
  /\ IF VisibleToOthers(job[r].profile) /\ job[r].profile # job[r].caller
       THEN Goto(r, "addressed") ELSE Finish(r)
  /\ UNCHANGED <<accountVars, profileVars, offerVars, recordVars, outbox, faults>>

MayWrite(j) ==
  /\ <<j.profile, j.caller>> \notin block
  /\ j.caller \in consent \/ j.identity # None

\* His first Offer is the one no Consent row precedes, whatever the page sent.
FirstByFormInstead(j) == j.identity # None
IsFirst(j) == j.caller \notin consent

\* What the first Offer writes beside the row.
NoConsentRow(j) == consent
ConsentAfter(j) == IF j.first THEN consent \cup {j.caller} ELSE consent
NameAfter(j) ==
  IF j.first THEN [hirerName EXCEPT ![j.caller] = j.identity] ELSE hirerName

\* The Block edge, then whether this is his first Offer, then the rejector:
\* a refused field (and a missing identity) ends the request.
SendScreen(r) ==
  /\ pc[r] = "addressed"
  /\ \/ /\ MayWrite(job[r])
        /\ pc' = [pc EXCEPT ![r] = "screened"]
        /\ job' = [job EXCEPT ![r].first = IsFirst(job[r])]
     \/ Finish(r)
  /\ UNCHANGED <<accountVars, profileVars, offerVars, recordVars, outbox, faults>>

\* The Offer; on the first one his identity and his Consent row with it.
SendWrite(r) ==
  LET j == job[r] IN
  /\ pc[r] = "screened"
  /\ \E o \in Offers :
       /\ offerState[o] = "unsent"
       /\ offerState' = [offerState EXCEPT ![o] = InitialOfferState]
       /\ sender' = [sender EXCEPT ![o] = j.caller]
       /\ addressee' = [addressee EXCEPT ![o] = j.profile]
  /\ hirerName' = NameAfter(j)
  /\ consent' = ConsentAfter(j)
  /\ Finish(r)
  /\ UNCHANGED <<offerSendingState, block, profileVars, deliveredAt, recordVars, outbox, faults>>

\* recordConsent throws on versions that are no longer current; everything
\* the transaction wrote rolls back.
SendStale(r) ==
  /\ pc[r] = "screened"
  /\ job[r].first
  /\ Finish(r)
  /\ UNCHANGED <<accountVars, profileVars, offerVars, recordVars, outbox, faults>>
-----------------------------------------------------------------------------
(* Accepting and declining *)

\* The row lock scoped by her ownership, the state read beneath it: an Offer
\* she has not received, or one whose move the table does not have, is refused
\* and changes nothing.
AnswerLock(r, w, o, tx) ==
  /\ pc[r] = "idle"
  /\ addressee[o] = w
  /\ OfferRowFree(o)
  /\ offerState[o] \in ReceivedOfferStates
  /\ MayTransitionOffer(offerState[o], AnswerMove[tx])
  /\ pc' = [pc EXCEPT ![r] = tx]
  /\ job' = [job EXCEPT ![r] = [NoJob EXCEPT !.caller = w, !.subject = o]]
  /\ UNCHANGED <<accountVars, profileVars, offerVars, recordVars, outbox, faults>>

SnapshotFor(o) == [worker |-> contact[addressee[o]], hirer |-> hirerName[sender[o]]]

\* What an accept inserts: the snapshot, and both copies not yet sent.
ExchangeFor(o) ==
  [snapshot |-> SnapshotFor(o), copy |-> [s \in Sides |-> "pending"]]

\* The state moves and, on an accept, the exchange is written in the same
\* transaction; UNIQUE (offer_id) refuses a second row.
Accept(r) ==
  LET o == job[r].subject IN
  /\ pc[r] = "accepting"
  /\ contactExchange[o] = None
  /\ offerState' = [offerState EXCEPT ![o] = "accepted"]
  /\ contactExchange' = [contactExchange EXCEPT ![o] = ExchangeFor(o)]
  /\ pc' = [pc EXCEPT ![r] = "copying"]
  /\ job' = [job EXCEPT ![r].snapshot = SnapshotFor(o)]
  /\ UNCHANGED <<accountVars, profileVars, sender, addressee, deliveredAt,
                 adminAction, outbox, faults>>

Decline(r) ==
  /\ pc[r] = "declining"
  /\ offerState' = [offerState EXCEPT ![job[r].subject] = "declined"]
  /\ Finish(r)
  /\ UNCHANGED <<accountVars, profileVars, sender, addressee, deliveredAt,
                 recordVars, outbox, faults>>

\* A copy carries the details the accept handed back, never a fresh read.
CopyReadAgainInstead(r, s) ==
  [kind |-> "contact-exchange", offer |-> job[r].subject, side |-> s,
   about |-> SnapshotFor(job[r].subject)]
CopyOf(r, s) ==
  [kind |-> "contact-exchange", offer |-> job[r].subject, side |-> s,
   about |-> job[r].snapshot]

\* What is concluded from a send that was refused or threw.
SentAnyway == "sent"
UnansweredOutcome == "failed"

\* One copy goes to the transport.  It is sent; or it is refused (the kill
\* switch) or faults before it left; or it left and the answer was lost.
SendCopy(r, s) ==
  /\ pc[r] = "copying"
  /\ job[r].progress[s] = "unsent"
  /\ \/ /\ outbox' = outbox \cup {CopyOf(r, s)}
        /\ \E outcome \in {"sent", UnansweredOutcome} :
             job' = [job EXCEPT ![r].progress[s] = outcome]
     \/ /\ job' = [job EXCEPT ![r].progress[s] = UnansweredOutcome]
        /\ UNCHANGED outbox
  /\ UNCHANGED <<accountVars, profileVars, offerVars, recordVars, pc, faults>>

\* Where the copy went is recorded after the send, outside any transaction.
RecordCopy(r, s) ==
  LET o == job[r].subject IN
  /\ pc[r] = "copying"
  /\ job[r].progress[s] \in {"sent", "failed"}
  /\ contactExchange' = [contactExchange EXCEPT ![o].copy[s] = job[r].progress[s]]
  /\ job' = [job EXCEPT ![r].progress[s] = "recorded"]
  /\ UNCHANGED <<accountVars, profileVars, offerVars, adminAction, outbox, pc, faults>>

\* The record itself faults: it is logged, and the row stays `pending`.
RecordCopyFails(r, s) ==
  /\ pc[r] = "copying"
  /\ job[r].progress[s] \in {"sent", "failed"}
  /\ faults < MaxFaults
  /\ faults' = faults + 1
  /\ job' = [job EXCEPT ![r].progress[s] = "recorded"]
  /\ UNCHANGED <<accountVars, profileVars, offerVars, recordVars, outbox, pc>>

\* Promise.all over the two sides.
FirstOfTheTwoInstead(progress) == \E s \in Sides : progress[s] = "recorded"
NeverBothInstead(progress) == \A s \in Sides : progress[s] = "sent"
BothRecorded(progress) == \A s \in Sides : progress[s] = "recorded"

\* Both copies have answered, and the accept redirects.
CopiesDone(r) ==
  /\ pc[r] = "copying"
  /\ BothRecorded(job[r].progress)
  /\ Finish(r)
  /\ UNCHANGED <<accountVars, profileVars, offerVars, recordVars, outbox, faults>>
-----------------------------------------------------------------------------
(* An Admin's decision, inside runAdminAction's one transaction *)

DecideLock(r, o, tx) ==
  /\ pc[r] = "idle"
  /\ offerState[o] # "unsent"
  /\ OfferRowFree(o)
  /\ MayTransitionOffer(offerState[o], DecisionMove[tx])
  /\ pc' = [pc EXCEPT ![r] = tx]
  /\ job' = [job EXCEPT ![r].subject = o]
  /\ UNCHANGED <<accountVars, profileVars, offerVars, recordVars, outbox, faults>>

\* The AdminAction row every act is committed with.
AuditedAsDeliveryInstead(o, tx) == [adminAction EXCEPT ![o]["deliverOffer"] = @ + 1]
Audited(o, tx) == [adminAction EXCEPT ![o][ActionOf[tx]] = @ + 1]

Deliver(r) ==
  LET o == job[r].subject IN
  /\ pc[r] = "delivering"
  /\ offerState' = [offerState EXCEPT ![o] = "delivered"]
  /\ deliveredAt' = deliveredAt \cup {o}
  /\ deliveredOfferCount' = [deliveredOfferCount EXCEPT ![addressee[o]] = @ + 1]
  /\ adminAction' = Audited(o, "delivering")
  /\ Goto(r, "notifying")
  /\ UNCHANGED <<accountVars, contact, paused, sender, addressee, contactExchange,
                 outbox, faults>>

Reject(r) ==
  LET o == job[r].subject IN
  /\ pc[r] = "rejecting"
  /\ offerState' = [offerState EXCEPT ![o] = "rejected_by_admin"]
  /\ adminAction' = Audited(o, "rejecting")
  /\ Finish(r)
  /\ UNCHANGED <<accountVars, profileVars, sender, addressee, deliveredAt,
                 contactExchange, outbox, faults>>

\* After the commit she is written to; a failed send does not undo delivery.
Notify(r) ==
  /\ pc[r] = "notifying"
  /\ \/ outbox' = outbox \cup {[kind |-> "offer-delivered", offer |-> job[r].subject]}
     \/ UNCHANGED outbox
  /\ Finish(r)
  /\ UNCHANGED <<accountVars, profileVars, offerVars, recordVars, faults>>
-----------------------------------------------------------------------------
(* Her own row, his row, and faults *)

PauseProfile(w) ==
  /\ w \notin paused
  /\ paused' = paused \cup {w}
  /\ UNCHANGED <<accountVars, contact, deliveredOfferCount, offerVars, recordVars,
                 outbox, requestVars, faults>>

ResumeProfile(w) ==
  /\ w \in paused
  /\ paused' = paused \ {w}
  /\ UNCHANGED <<accountVars, contact, deliveredOfferCount, offerVars, recordVars,
                 outbox, requestVars, faults>>

\* She corrects her name or her number.
UpdateProfile(w) ==
  /\ contact[w] < MaxEdits
  /\ contact' = [contact EXCEPT ![w] = @ + 1]
  /\ UNCHANGED <<accountVars, paused, deliveredOfferCount, offerVars, recordVars,
                 outbox, requestVars, faults>>

\* External: the writers of offer_sending_state (a Report's freeze, its
\* lifting, a ban).  Each is an UPDATE of the row sendOffer locks.
WriteSendingState(a, to) ==
  /\ offerSendingState[a] # to
  /\ UserRowFree(a)
  /\ offerSendingState' = [offerSendingState EXCEPT ![a] = to]
  /\ UNCHANGED <<hirerName, consent, block, profileVars, offerVars, recordVars,
                 outbox, requestVars, faults>>

\* External: the writer of a Block edge.  Its foreign key takes a FOR KEY
\* SHARE lock on the Hirer's row, which waits for sendOffer's FOR UPDATE.
BlockHirer(w, h) ==
  /\ <<w, h>> \notin block
  /\ UserRowFree(h)
  /\ block' = block \cup {<<w, h>>}
  /\ UNCHANGED <<offerSendingState, hirerName, consent, profileVars, offerVars,
                 recordVars, outbox, requestVars, faults>>

\* The process dies, or its connection does: an open transaction rolls back,
\* and whatever came after the commit never happens.
Crash(r) ==
  /\ pc[r] # "idle"
  /\ faults < MaxFaults
  /\ faults' = faults + 1
  /\ Finish(r)
  /\ UNCHANGED <<accountVars, profileVars, offerVars, recordVars, outbox>>
-----------------------------------------------------------------------------
Send(r) ==
  \/ \E h \in Accounts, w \in Workers : SendPost(r, h, w)
  \/ SendLock(r) \/ SendAddress(r) \/ SendScreen(r) \/ SendWrite(r) \/ SendStale(r)

Answer(r) ==
  \/ \E w \in Workers, o \in Offers, tx \in AnswerTx : AnswerLock(r, w, o, tx)
  \/ Accept(r) \/ Decline(r)

Copy(r) ==
  \/ \E s \in Sides : SendCopy(r, s) \/ RecordCopy(r, s) \/ RecordCopyFails(r, s)
  \/ CopiesDone(r)

Decide(r) ==
  \/ \E o \in Offers, tx \in DecisionTx : DecideLock(r, o, tx)
  \/ Deliver(r) \/ Reject(r) \/ Notify(r)

Profile(w) == PauseProfile(w) \/ ResumeProfile(w) \/ UpdateProfile(w)

Elsewhere ==
  \/ \E a \in Accounts, to \in SendingStates : WriteSendingState(a, to)
  \/ \E w \in Workers, h \in Accounts : BlockHirer(w, h)

Next ==
  \/ \E r \in Requests : Send(r) \/ Answer(r) \/ Copy(r) \/ Decide(r) \/ Crash(r)
  \/ \E w \in Workers : Profile(w)
  \/ Elsewhere

Spec == Init /\ [][Next]_vars

\* A request that has begun takes its next step, and a row lock's queue serves
\* whoever keeps waiting in it (strong fairness of the one step that waits).
Continue(r) ==
  \/ SendAddress(r) \/ SendScreen(r) \/ SendWrite(r)
  \/ Accept(r) \/ Decline(r) \/ Deliver(r) \/ Reject(r) \/ Notify(r)
  \/ \E s \in Sides : SendCopy(r, s) \/ RecordCopy(r, s)
  \/ CopiesDone(r)

Fairness == \A r \in Requests : WF_vars(Continue(r)) /\ SF_vars(SendLock(r))

FairSpec == Spec /\ Fairness
-----------------------------------------------------------------------------
(* Properties *)

\* Every variable holds a value its column, or its request, may hold.
TypeOK ==
  /\ offerSendingState \in [Accounts -> SendingStates]
  /\ hirerName \in [Accounts -> Names \cup {None}]
  /\ consent \subseteq Accounts
  /\ contact \in [Workers -> 0..MaxEdits]
  /\ paused \subseteq Workers
  /\ deliveredOfferCount \in [Workers -> Nat]
  /\ block \subseteq Workers \X Accounts
  /\ offerState \in [Offers -> OfferStateNames \cup {"unsent"}]
  /\ sender \in [Offers -> Accounts \cup {None}]
  /\ addressee \in [Offers -> Workers \cup {None}]
  /\ deliveredAt \subseteq Offers
  /\ contactExchange \in [Offers -> Exchanges \cup {None}]
  /\ adminAction \in [Offers -> [AuditedActions -> Nat]]
  /\ outbox \subseteq Mails
  /\ pc \in [Requests -> PCs]
  /\ job \in [Requests -> Jobs]
  /\ faults \in 0..MaxFaults

\* Details cross for exactly the accepted Offers: an accept that loses a race,
\* or dies half way, leaves neither the state nor the exchange without the
\* other (answerReceivedOffer and writeExchange in one transaction).
ExchangeIffAccepted ==
  \A o \in Offers : (contactExchange[o] # None) <=> (offerState[o] = "accepted")

\* A Worker's delivered-Offer count, the order of the browsable list, is the
\* number of Offers ever delivered to her: no delivery is counted twice, and
\* answering one does not take it back (deliverOffer, handlers.ts:538-541).
CountMatchesDeliveries ==
  \A w \in Workers :
    deliveredOfferCount[w] = Cardinality({o \in deliveredAt : addressee[o] = w})

\* One AdminAction for each act that committed, none for one that did not, and
\* never both a delivery and a rejection of one Offer, whichever Admins raced.
DecisionsAreAudited ==
  \A o \in Offers :
    /\ adminAction[o]["deliverOffer"] = IF o \in deliveredAt THEN 1 ELSE 0
    /\ adminAction[o]["rejectOffer"] = IF offerState[o] = "rejected_by_admin" THEN 1 ELSE 0

\* From commit of a freeze, a ban or a Block, no further Offer of his is
\* written, not even by a send that had begun before (NFR15, DD9's first race).
NoOfferPastAFreezeOrBlock ==
  [][\A o \in Offers :
       offerState[o] = "unsent" /\ offerState'[o] # "unsent" =>
         /\ offerSendingState[sender'[o]] = "active"
         /\ <<addressee'[o], sender'[o]>> \notin block]_vars

\* The name a Worker may already have read does not change under her, however
\* many first Offers he posts at once (sendOffer, offers/index.ts:361-376).
NameIsWrittenOnce ==
  [][\A a \in Accounts : hirerName[a] # None => hirerName'[a] = hirerName[a]]_vars

\* No state holds collected data without its authorization: whoever has sent an
\* Offer, or left a name, has a Consent row (consent/index.ts:5-6).
ConsentBehindEveryOffer ==
  /\ \A o \in Offers : offerState[o] # "unsent" => sender[o] \in consent
  /\ \A a \in Accounts : (hirerName[a] # None) <=> (a \in consent)

\* The page never says a copy was sent that no transport accepted.
CopySentWasMailed ==
  \A o \in Offers, s \in Sides :
    contactExchange[o] # None /\ contactExchange[o].copy[s] = "sent" =>
      [kind |-> "contact-exchange", offer |-> o, side |-> s,
       about |-> contactExchange[o].snapshot] \in outbox

\* What an email disclosed is what the two pages show: no copy leaves for an
\* exchange that did not commit, and a later edit reaches neither of the two.
MailMatchesThePage ==
  \A m \in outbox :
    m.kind = "contact-exchange" =>
      /\ contactExchange[m.offer] # None
      /\ m.about = contactExchange[m.offer].snapshot

\* A copy still `pending` has a request that will record it, or marks a fault.
PendingCopyIsExplained ==
  \A o \in Offers, s \in Sides :
    contactExchange[o] # None /\ contactExchange[o].copy[s] = "pending" =>
      \/ faults > 0
      \/ \E r \in Requests : /\ pc[r] = "copying"
                            /\ job[r].subject = o
                            /\ job[r].progress[s] # "recorded"

\* Story 25: while a profile is paused nobody can send it a new Offer.
NoOfferWhilePaused ==
  [][\A o \in Offers :
       offerState[o] = "unsent" /\ offerState'[o] # "unsent" =>
         addressee'[o] \notin paused]_vars

\* Every request ends: a send that waits for his row gets it, whatever becomes of the
\* sends of his that hold it first (refused, rolled back, dead: offers/index.ts:251).
RequestsEnd == \A r \in Requests : pc[r] # "idle" ~> pc[r] = "idle"

\* Unless something faults, both copies of every exchange leave `pending`.
CopiesSettle ==
  \A o \in Offers, s \in Sides :
    contactExchange[o] # None ~>
      \/ faults > 0
      \/ contactExchange[o] # None /\ contactExchange[o].copy[s] # "pending"

\* The detailed specification implements the promise of OfferLifecycle.
Lifecycle == INSTANCE OfferLifecycle WITH
  life <- offerState,
  crossed <- {o \in Offers : contactExchange[o] # None}

LifecycleSpec == Lifecycle!Spec

=============================================================================
