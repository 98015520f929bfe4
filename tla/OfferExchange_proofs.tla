----------------------- MODULE OfferExchange_proofs -----------------------
(***************************************************************************)
(* Proofs, for every value of the constants, of what OfferExchange's runs  *)
(* check on small instances.                                               *)
(***************************************************************************)
EXTENDS OfferExchangeInvariant, FiniteSetTheorems, TLAPS

-----------------------------------------------------------------------------
(* The table *)

\* The only state each move of this code starts from (offer-states.ts:118-137).
LEMMA WhereMovesStart ==
  ASSUME NEW state \in OfferStateNames
  PROVE  /\ MayTransitionOffer(state, "accepted") => state = "delivered"
         /\ MayTransitionOffer(state, "declined") => state = "delivered"
         /\ MayTransitionOffer(state, "delivered") => state = "pending_review"
         /\ MayTransitionOffer(state, "rejected_by_admin") => state \in PendingOfferStates
BY DEF MayTransitionOffer, PermittedTransitions, OfferStateNames, PendingOfferStates

LEMMA NoJobIsAJob == NoJob \in Jobs
BY DEF NoJob, Jobs, CopyProgress

\* A transaction that ends, and touches no Offer row, leaves the others as
\* they were.
LEMMA FinishKeepsRequests ==
  ASSUME TypeOK, RequestInv, NEW r \in Requests, Finish(r), UNCHANGED offerState
  PROVE  /\ pc' \in [Requests -> PCs]
         /\ job' \in [Requests -> Jobs]
         /\ RequestInv'
<1>1. pc' \in [Requests -> PCs] /\ job' \in [Requests -> Jobs]
  BY NoJobIsAJob DEF Finish, TypeOK, PCs
<1>2. /\ pc'[r] = "idle"
      /\ \A q \in Requests : q # r => pc'[q] = pc[q] /\ job'[q] = job[q]
  BY DEF Finish, TypeOK
<1>3. JobsAreWhole'
  BY <1>2 DEF JobsAreWhole, RequestInv, SendTx, OfferTx, AnswerTx, DecisionTx
<1>4. OneHolder'
  BY <1>2 DEF OneHolder, RequestInv, SendTx, OfferTx, AnswerTx, DecisionTx
<1>5. MoveStillPermitted'
  BY <1>2 DEF MoveStillPermitted, RequestInv, AnswerTx, DecisionTx
<1> QED BY <1>1, <1>3, <1>4, <1>5 DEF RequestInv

\* Row facts speak of the Offer, its records and her count, nothing else.
LEMMA RowFrame ==
  ASSUME RowInv, UNCHANGED <<offerVars, recordVars, deliveredOfferCount>>
  PROVE  RowInv'
BY DEF RowInv, RowsAreWhole, StampedIffReceived, ExchangeIffAccepted,
       CountMatchesDeliveries, DecisionsAreAudited, offerVars, recordVars

-----------------------------------------------------------------------------
(* The initial state *)

LEMMA OfferInvInit == Init => OfferInv
<1> SUFFICES ASSUME Init PROVE OfferInv
  OBVIOUS
<1>1. TypeOK
  BY NoJobIsAJob, BoundsAssumption
  DEF Init, TypeOK, SendingStates, AuditedActions, PCs
<1>2. RowInv
  <2>1. RowsAreWhole /\ StampedIffReceived /\ ExchangeIffAccepted
    BY DEF Init, RowsAreWhole, StampedIffReceived, ExchangeIffAccepted, ReceivedOfferStates
  <2>2. CountMatchesDeliveries
    <3>1. \A w \in Workers : {o \in deliveredAt : addressee[o] = w} = {}
      BY DEF Init
    <3> QED BY <3>1, FS_EmptySet DEF Init, CountMatchesDeliveries
  <2>3. DecisionsAreAudited
    BY DEF Init, DecisionsAreAudited, AuditedActions
  <2> QED BY <2>1, <2>2, <2>3 DEF RowInv
<1>3. RequestInv
  BY DEF Init, RequestInv, JobsAreWhole, OneHolder, MoveStillPermitted,
         SendTx, OfferTx, AnswerTx, DecisionTx
<1> QED BY <1>1, <1>2, <1>3 DEF OfferInv

-----------------------------------------------------------------------------
(* The steps of a send *)

LEMMA SendPostKeeps ==
  ASSUME OfferInv, NEW r \in Requests, NEW h \in Accounts, NEW w \in Workers,
         SendPost(r, h, w)
  PROVE  OfferInv'
<1>1. PICK n \in Names \cup {None} :
        job' = [job EXCEPT ![r] =
                  [NoJob EXCEPT !.caller = h, !.profile = w, !.identity = n]]
  BY DEF SendPost
<1>2. job' \in [Requests -> Jobs] /\ pc' \in [Requests -> PCs]
  <2>1. [NoJob EXCEPT !.caller = h, !.profile = w, !.identity = n] \in Jobs
    BY NoJobIsAJob DEF Jobs
  <2> QED BY <1>1, <2>1 DEF SendPost, OfferInv, TypeOK, PCs
<1>3. TypeOK'
  BY <1>2 DEF SendPost, OfferInv, TypeOK, accountVars, profileVars, offerVars, recordVars
<1>4. RowInv'
  BY RowFrame DEF SendPost, OfferInv, profileVars
<1>5. RequestInv'
  <2>1. pc'[r] = "posted" /\ job'[r].caller = h /\ job'[r].profile = w
    BY <1>1 DEF SendPost, OfferInv, TypeOK, Jobs
  <2>2. \A q \in Requests : q # r => pc'[q] = pc[q] /\ job'[q] = job[q]
    BY <1>1 DEF SendPost, OfferInv, TypeOK
  <2>3. UNCHANGED offerState
    BY DEF SendPost, offerVars
  <2> QED
    BY <2>1, <2>2, <2>3, WorkersAssumption
    DEF OfferInv, RequestInv, JobsAreWhole, OneHolder, MoveStillPermitted,
        SendTx, OfferTx, AnswerTx, DecisionTx
<1> QED BY <1>3, <1>4, <1>5 DEF OfferInv

\* A send that goes on, or ends without writing.
LEMMA QuietSendKeeps ==
  ASSUME OfferInv, NEW r \in Requests, pc[r] \in SendTx \cup {"posted"},
         NEW to \in SendTx, Goto(r, to) \/ Finish(r),
         UNCHANGED <<accountVars, profileVars, offerVars, recordVars, outbox, faults>>
  PROVE  OfferInv'
<1>1. /\ pc' \in [Requests -> PCs]
      /\ job' \in [Requests -> Jobs]
      /\ RequestInv'
  <2>1. CASE Goto(r, to)
    <3>1. pc'[r] = to /\ \A q \in Requests : q # r => pc'[q] = pc[q]
      BY <2>1 DEF Goto, OfferInv, TypeOK
    <3>2. UNCHANGED <<job, offerState>>
      BY <2>1 DEF Goto, offerVars
    <3>3. pc' \in [Requests -> PCs]
      BY <2>1 DEF Goto, OfferInv, TypeOK, PCs
    <3>4. RequestInv'
      BY <3>1, <3>2
      DEF OfferInv, RequestInv, JobsAreWhole, OneHolder, MoveStillPermitted,
          SendTx, OfferTx, AnswerTx, DecisionTx
    <3> QED BY <3>2, <3>3, <3>4 DEF OfferInv, TypeOK
  <2>2. CASE Finish(r)
    BY <2>2, FinishKeepsRequests DEF OfferInv, offerVars
  <2> QED BY <2>1, <2>2
<1>2. TypeOK'
  BY <1>1 DEF OfferInv, TypeOK, accountVars, profileVars, offerVars, recordVars
<1>3. RowInv'
  BY RowFrame DEF OfferInv, profileVars
<1> QED BY <1>1, <1>2, <1>3 DEF OfferInv

LEMMA SendScreenKeeps ==
  ASSUME OfferInv, NEW r \in Requests, SendScreen(r)
  PROVE  OfferInv'
<1>1. CASE Finish(r)
  BY <1>1, QuietSendKeeps DEF SendScreen, SendTx
<1>2. CASE /\ pc' = [pc EXCEPT ![r] = "screened"]
           /\ job' = [job EXCEPT ![r].first = IsFirst(job[r])]
  <2>1. /\ pc'[r] = "screened"
        /\ job'[r].caller = job[r].caller /\ job'[r].profile = job[r].profile
        /\ \A q \in Requests : q # r => pc'[q] = pc[q] /\ job'[q] = job[q]
    BY <1>2 DEF OfferInv, TypeOK, Jobs
  <2>2. IsFirst(job[r]) \in BOOLEAN
    BY DEF IsFirst
  <2>3. pc' \in [Requests -> PCs] /\ job' \in [Requests -> Jobs]
    <3>1. [job[r] EXCEPT !.first = IsFirst(job[r])] \in Jobs
      BY <2>2 DEF OfferInv, TypeOK, Jobs
    <3> QED BY <1>2, <3>1 DEF OfferInv, TypeOK, PCs, SendTx
  <2>4. RequestInv'
    BY <2>1
    DEF SendScreen, OfferInv, RequestInv, JobsAreWhole, OneHolder, MoveStillPermitted,
        SendTx, OfferTx, AnswerTx, DecisionTx, offerVars
  <2>5. TypeOK'
    BY <2>3 DEF SendScreen, OfferInv, TypeOK, accountVars, profileVars, offerVars, recordVars
  <2>6. RowInv'
    BY RowFrame DEF SendScreen, OfferInv, profileVars
  <2> QED BY <2>4, <2>5, <2>6 DEF OfferInv
<1> QED BY <1>1, <1>2 DEF SendScreen

LEMMA SendWriteKeeps ==
  ASSUME OfferInv, NEW r \in Requests, SendWrite(r)
  PROVE  OfferInv'
<1> DEFINE j == job[r]
<1>1. /\ j.caller \in Accounts
      /\ j.profile \in Workers
      /\ j.identity \in Names \cup {None}
  BY DEF SendWrite, OfferInv, TypeOK, Jobs, RequestInv, JobsAreWhole, SendTx
<1>2. PICK o \in Offers :
        /\ offerState[o] = "unsent"
        /\ offerState' = [offerState EXCEPT ![o] = "pending_review"]
        /\ sender' = [sender EXCEPT ![o] = j.caller]
        /\ addressee' = [addressee EXCEPT ![o] = j.profile]
  BY DEF SendWrite, InitialOfferState
<1>3. pc' \in [Requests -> PCs] /\ job' \in [Requests -> Jobs]
  BY NoJobIsAJob DEF SendWrite, Finish, OfferInv, TypeOK, PCs
<1>4. TypeOK'
  <2>1. consent' \subseteq Accounts /\ hirerName' \in [Accounts -> Names \cup {None}]
    BY <1>1 DEF SendWrite, ConsentAfter, NameAfter, OfferInv, TypeOK
  <2>2. /\ offerState' \in [Offers -> OfferStateNames \cup {"unsent"}]
        /\ sender' \in [Offers -> Accounts \cup {None}]
        /\ addressee' \in [Offers -> Workers \cup {None}]
    BY <1>1, <1>2 DEF OfferInv, TypeOK, OfferStateNames
  <2> QED
    BY <1>3, <2>1, <2>2 DEF SendWrite, OfferInv, TypeOK, profileVars, recordVars
<1>5. RowInv'
  <2>1. \A p \in Offers : p # o => /\ offerState'[p] = offerState[p]
                                   /\ sender'[p] = sender[p]
                                   /\ addressee'[p] = addressee[p]
    BY <1>2 DEF OfferInv, TypeOK
  <2>2. /\ offerState'[o] = "pending_review" /\ sender'[o] = j.caller
        /\ addressee'[o] = j.profile
    BY <1>2 DEF OfferInv, TypeOK
  <2>3. UNCHANGED <<deliveredAt, contactExchange, adminAction, deliveredOfferCount>>
    BY DEF SendWrite, recordVars, profileVars
  <2>4. o \notin deliveredAt
    BY <1>2 DEF OfferInv, RowInv, StampedIffReceived, ReceivedOfferStates
  <2>5. RowsAreWhole' /\ StampedIffReceived' /\ ExchangeIffAccepted' /\ DecisionsAreAudited'
    BY <1>1, <1>2, <2>1, <2>2, <2>3, <2>4
    DEF OfferInv, RowInv, RowsAreWhole, StampedIffReceived, ExchangeIffAccepted,
        DecisionsAreAudited, ReceivedOfferStates
  <2>6. CountMatchesDeliveries'
    <3>1. \A w \in Workers : {p \in deliveredAt' : addressee'[p] = w}
                            = {p \in deliveredAt : addressee[p] = w}
      BY <2>1, <2>3, <2>4 DEF OfferInv, TypeOK
    <3> QED BY <2>3, <3>1 DEF OfferInv, RowInv, CountMatchesDeliveries
  <2> QED BY <2>5, <2>6 DEF RowInv
<1>6. RequestInv'
  <2>1. /\ pc'[r] = "idle"
        /\ \A q \in Requests : q # r => pc'[q] = pc[q] /\ job'[q] = job[q]
    BY DEF SendWrite, Finish, OfferInv, TypeOK
  <2>2. JobsAreWhole' /\ OneHolder'
    BY <2>1 DEF OfferInv, RequestInv, JobsAreWhole, OneHolder, SendTx, OfferTx,
                AnswerTx, DecisionTx
  <2>3. MoveStillPermitted'
    <3>1. ASSUME NEW q \in Requests, pc'[q] \in OfferTx \cup {"copying"}
          PROVE  /\ q # r /\ pc'[q] = pc[q] /\ job'[q] = job[q]
                 /\ offerState'[job[q].subject] = offerState[job[q].subject]
      <4>1. q # r /\ pc'[q] = pc[q] /\ job'[q] = job[q]
        BY <2>1, <3>1 DEF OfferTx, AnswerTx, DecisionTx
      <4>2. job[q].subject # o
        BY <1>2, <3>1, <4>1 DEF OfferInv, RequestInv, MoveStillPermitted, OfferTx
      <4>3. job[q].subject \in Offers
        BY <3>1, <4>1 DEF OfferInv, RequestInv, JobsAreWhole
      <4> QED BY <1>2, <4>1, <4>2, <4>3 DEF OfferInv, TypeOK
    <3> QED BY <3>1 DEF OfferInv, RequestInv, MoveStillPermitted, OfferTx
  <2> QED BY <2>2, <2>3 DEF RequestInv
<1> QED BY <1>4, <1>5, <1>6 DEF OfferInv

-----------------------------------------------------------------------------
(* The steps of an answer and of a decision *)

\* A row lock is granted on a free row, for a move the table permits.
LEMMA LockKeepsRequests ==
  ASSUME TypeOK, RequestInv, NEW r \in Requests, NEW o \in Offers, NEW tx \in OfferTx,
         NEW J \in Jobs, J.subject = o, OfferRowFree(o), offerState[o] # "unsent",
         tx \in AnswerTx => MayTransitionOffer(offerState[o], AnswerMove[tx]),
         tx \in DecisionTx => MayTransitionOffer(offerState[o], DecisionMove[tx]),
         pc' = [pc EXCEPT ![r] = tx], job' = [job EXCEPT ![r] = J], UNCHANGED offerState
  PROVE  RequestInv' /\ pc' \in [Requests -> PCs] /\ job' \in [Requests -> Jobs]
<1>1. pc' \in [Requests -> PCs] /\ job' \in [Requests -> Jobs]
  BY DEF TypeOK, PCs
<1>2. /\ pc'[r] = tx /\ job'[r].subject = o
      /\ \A q \in Requests : q # r => pc'[q] = pc[q] /\ job'[q] = job[q]
  BY DEF TypeOK
<1>3. JobsAreWhole'
  BY <1>2 DEF RequestInv, JobsAreWhole, SendTx, OfferTx, AnswerTx, DecisionTx
<1>4. OneHolder'
  BY <1>2 DEF RequestInv, OneHolder, OfferRowFree
<1>5. MoveStillPermitted'
  BY <1>2 DEF RequestInv, MoveStillPermitted, OfferTx, AnswerTx, DecisionTx
<1> QED BY <1>1, <1>3, <1>4, <1>5 DEF RequestInv

\* The holder of a row lock moves the Offer and leaves its transaction: nobody
\* else was counting on the state it moved from.
LEMMA MoveKeepsRequests ==
  ASSUME TypeOK, RequestInv, NEW r \in Requests, pc[r] \in OfferTx,
         NEW to \in OfferStateNames, NEW o \in Offers, o = job[r].subject,
         offerState' = [offerState EXCEPT ![o] = to],
         pc' \in [Requests -> PCs], job' \in [Requests -> Jobs],
         \A q \in Requests : q # r => pc'[q] = pc[q] /\ job'[q] = job[q],
         pc'[r] \in {"idle", "copying", "notifying"},
         pc'[r] # "idle" => job'[r].subject = o,
         pc'[r] = "copying" => to = "accepted" /\ job'[r].snapshot \in Snapshots
  PROVE  RequestInv'
<1>1. JobsAreWhole'
  BY DEF RequestInv, JobsAreWhole, SendTx, OfferTx, AnswerTx, DecisionTx
<1>2. OneHolder'
  BY DEF RequestInv, OneHolder, OfferTx, AnswerTx, DecisionTx
<1>3. MoveStillPermitted'
  <2>1. ASSUME NEW q \in Requests, q # r, pc[q] \in OfferTx
        PROVE  job[q].subject # o
    BY <2>1 DEF RequestInv, OneHolder
  <2>2. ASSUME NEW q \in Requests, pc[q] = "copying"
        PROVE  job[q].subject # o
    <3>1. offerState[o] # "accepted"
      BY WhereMovesStart
      DEF RequestInv, MoveStillPermitted, OfferTx, AnswerTx, DecisionTx, AnswerMove,
          DecisionMove, TypeOK, PendingOfferStates
    <3> QED BY <2>2, <3>1 DEF RequestInv, MoveStillPermitted
  <2>3. ASSUME NEW q \in Requests, q # r, pc[q] \in OfferTx \cup {"copying"}
        PROVE  offerState'[job[q].subject] = offerState[job[q].subject]
    BY <2>1, <2>2, <2>3 DEF RequestInv, JobsAreWhole, TypeOK
  <2>4. pc'[r] = "copying" => offerState'[job'[r].subject] = "accepted"
    BY DEF TypeOK
  <2> QED BY <2>3, <2>4
    DEF RequestInv, MoveStillPermitted, OfferTx, AnswerTx, DecisionTx
<1> QED BY <1>1, <1>2, <1>3 DEF RequestInv

LEMMA AnswerLockKeeps ==
  ASSUME OfferInv, NEW r \in Requests, NEW w \in Workers, NEW o \in Offers,
         NEW tx \in AnswerTx, AnswerLock(r, w, o, tx)
  PROVE  OfferInv'
<1> DEFINE J == [NoJob EXCEPT !.caller = w, !.subject = o]
<1>1. J \in Jobs /\ J.subject = o
  BY NoJobIsAJob, WorkersAssumption DEF Jobs
<1>2. RequestInv' /\ pc' \in [Requests -> PCs] /\ job' \in [Requests -> Jobs]
  <2>1. tx \in OfferTx /\ tx \notin DecisionTx
    BY DEF OfferTx, AnswerTx, DecisionTx
  <2>2. offerState[o] # "unsent"
    BY DEF AnswerLock, ReceivedOfferStates
  <2> HIDE DEF J
  <2>3. job' = [job EXCEPT ![r] = J]
    BY DEF AnswerLock, J
  <2> QED
    BY <1>1, <2>1, <2>2, <2>3, LockKeepsRequests DEF AnswerLock, OfferInv, offerVars
<1>3. TypeOK'
  BY <1>2 DEF AnswerLock, OfferInv, TypeOK, accountVars, profileVars, offerVars, recordVars
<1>4. RowInv'
  BY RowFrame DEF AnswerLock, OfferInv, profileVars
<1> QED BY <1>2, <1>3, <1>4 DEF OfferInv

LEMMA DecideLockKeeps ==
  ASSUME OfferInv, NEW r \in Requests, NEW o \in Offers,
         NEW tx \in DecisionTx, DecideLock(r, o, tx)
  PROVE  OfferInv'
<1> DEFINE J == [job[r] EXCEPT !.subject = o]
<1>1. J \in Jobs /\ J.subject = o
  BY DEF OfferInv, TypeOK, Jobs
<1>2. RequestInv' /\ pc' \in [Requests -> PCs] /\ job' \in [Requests -> Jobs]
  <2>1. tx \in OfferTx /\ tx \notin AnswerTx
    BY DEF OfferTx, AnswerTx, DecisionTx
  <2>2. job' = [job EXCEPT ![r] = J]
    BY DEF DecideLock
  <2> HIDE DEF J
  <2> QED BY <1>1, <2>1, <2>2, LockKeepsRequests DEF DecideLock, OfferInv, offerVars
<1>3. TypeOK'
  BY <1>2 DEF DecideLock, OfferInv, TypeOK, accountVars, profileVars, offerVars, recordVars
<1>4. RowInv'
  BY RowFrame DEF DecideLock, OfferInv, profileVars
<1> QED BY <1>2, <1>3, <1>4 DEF OfferInv

\* What the holder of an Offer's lock knows of it.
LEMMA UnderTheLock ==
  ASSUME OfferInv, NEW r \in Requests, pc[r] \in OfferTx, NEW o, o = job[r].subject
  PROVE  /\ o \in Offers
         /\ sender[o] \in Accounts /\ addressee[o] \in Workers
         /\ pc[r] \in AnswerTx => offerState[o] = "delivered"
         /\ pc[r] = "delivering" => offerState[o] = "pending_review"
         /\ pc[r] = "rejecting" => offerState[o] \in PendingOfferStates
<1>1. o \in Offers
  BY DEF OfferInv, RequestInv, JobsAreWhole
<1>2. offerState[o] \in OfferStateNames
  BY <1>1 DEF OfferInv, TypeOK, RequestInv, MoveStillPermitted, OfferTx
<1>3. sender[o] \in Accounts /\ addressee[o] \in Workers
  BY <1>1, <1>2 DEF OfferInv, RowInv, RowsAreWhole, OfferStateNames
<1>4. pc[r] \in AnswerTx => offerState[o] = "delivered"
  BY <1>1, <1>2, WhereMovesStart
  DEF OfferInv, RequestInv, MoveStillPermitted, AnswerTx, AnswerMove
<1>5. /\ pc[r] = "delivering" => offerState[o] = "pending_review"
      /\ pc[r] = "rejecting" => offerState[o] \in PendingOfferStates
  BY <1>1, <1>2, WhereMovesStart
  DEF OfferInv, RequestInv, MoveStillPermitted, DecisionTx, DecisionMove
<1> QED BY <1>1, <1>3, <1>4, <1>5

LEMMA SnapshotIsASnapshot ==
  ASSUME TypeOK, NEW o, sender[o] \in Accounts, addressee[o] \in Workers
  PROVE  SnapshotFor(o) \in Snapshots
BY DEF TypeOK, SnapshotFor, Snapshots

LEMMA ExchangeIsAnExchange ==
  ASSUME NEW o, SnapshotFor(o) \in Snapshots
  PROVE  ExchangeFor(o) \in Exchanges
BY DEF ExchangeFor, Exchanges, CopyStates

LEMMA AcceptKeeps ==
  ASSUME OfferInv, NEW r \in Requests, Accept(r)
  PROVE  OfferInv'
<1> DEFINE o == job[r].subject
<1>1. /\ o \in Offers /\ offerState[o] = "delivered"
      /\ sender[o] \in Accounts /\ addressee[o] \in Workers
  BY UnderTheLock DEF Accept, OfferTx, AnswerTx
<1>2. SnapshotFor(o) \in Snapshots /\ ExchangeFor(o) \in Exchanges
  BY <1>1, SnapshotIsASnapshot, ExchangeIsAnExchange DEF OfferInv
<1>3. /\ offerState' = [offerState EXCEPT ![o] = "accepted"]
      /\ contactExchange' = [contactExchange EXCEPT ![o] = ExchangeFor(o)]
      /\ pc' = [pc EXCEPT ![r] = "copying"]
      /\ job' = [job EXCEPT ![r].snapshot = SnapshotFor(o)]
      /\ UNCHANGED <<sender, addressee, deliveredAt, deliveredOfferCount, adminAction>>
  BY DEF Accept, profileVars
<1>4. pc' \in [Requests -> PCs] /\ job' \in [Requests -> Jobs]
  <2>1. [job[r] EXCEPT !.snapshot = SnapshotFor(o)] \in Jobs
    BY <1>2 DEF OfferInv, TypeOK, Jobs
  <2> QED BY <1>3, <2>1 DEF OfferInv, TypeOK, PCs
<1>5. TypeOK'
  BY <1>1, <1>2, <1>3, <1>4
  DEF Accept, OfferInv, TypeOK, accountVars, profileVars, OfferStateNames
<1>6. RowInv'
  <2>1. /\ \A p \in Offers : p # o => /\ offerState'[p] = offerState[p]
                                      /\ contactExchange'[p] = contactExchange[p]
        /\ offerState'[o] = "accepted" /\ contactExchange'[o] = ExchangeFor(o)
    BY <1>1, <1>3 DEF OfferInv, TypeOK
  <2>2. RowsAreWhole' /\ StampedIffReceived' /\ DecisionsAreAudited' /\ CountMatchesDeliveries'
    BY <1>1, <1>3, <2>1
    DEF OfferInv, RowInv, RowsAreWhole, StampedIffReceived, DecisionsAreAudited,
        CountMatchesDeliveries, ReceivedOfferStates
  <2>3. ExchangeIffAccepted'
    BY <1>2, <2>1, NoneAssumption DEF OfferInv, RowInv, ExchangeIffAccepted
  <2> QED BY <2>2, <2>3 DEF RowInv
<1>7. RequestInv'
  <2>1. /\ pc'[r] = "copying" /\ job'[r].subject = o /\ job'[r].snapshot \in Snapshots
        /\ \A q \in Requests : q # r => pc'[q] = pc[q] /\ job'[q] = job[q]
    BY <1>2, <1>3 DEF OfferInv, TypeOK, Jobs
  <2>2. pc[r] \in OfferTx
    BY DEF Accept, OfferTx, AnswerTx
  <2> QED
    BY <1>1, <1>3, <1>4, <2>1, <2>2, MoveKeepsRequests DEF OfferInv, OfferStateNames
<1> QED BY <1>5, <1>6, <1>7 DEF OfferInv

LEMMA DeclineKeeps ==
  ASSUME OfferInv, NEW r \in Requests, Decline(r)
  PROVE  OfferInv'
<1> DEFINE o == job[r].subject
<1>1. /\ o \in Offers /\ offerState[o] = "delivered"
      /\ sender[o] \in Accounts /\ addressee[o] \in Workers
  BY UnderTheLock DEF Decline, OfferTx, AnswerTx
<1>2. /\ offerState' = [offerState EXCEPT ![o] = "declined"]
      /\ UNCHANGED <<sender, addressee, deliveredAt, deliveredOfferCount,
                     contactExchange, adminAction>>
  BY DEF Decline, profileVars, recordVars
<1>3. /\ pc' \in [Requests -> PCs] /\ job' \in [Requests -> Jobs]
      /\ pc'[r] = "idle"
      /\ \A q \in Requests : q # r => pc'[q] = pc[q] /\ job'[q] = job[q]
  BY NoJobIsAJob DEF Decline, Finish, OfferInv, TypeOK, PCs
<1>4. TypeOK'
  BY <1>1, <1>2, <1>3
  DEF Decline, OfferInv, TypeOK, accountVars, profileVars, OfferStateNames
<1>5. RowInv'
  <2>1. /\ \A p \in Offers : p # o => offerState'[p] = offerState[p]
        /\ offerState'[o] = "declined"
    BY <1>1, <1>2 DEF OfferInv, TypeOK
  <2> QED
    BY <1>1, <1>2, <2>1
    DEF OfferInv, RowInv, RowsAreWhole, StampedIffReceived, ExchangeIffAccepted,
        DecisionsAreAudited, CountMatchesDeliveries, ReceivedOfferStates
<1>6. RequestInv'
  BY <1>1, <1>2, <1>3, MoveKeepsRequests
  DEF Decline, OfferInv, OfferStateNames, OfferTx, AnswerTx
<1> QED BY <1>4, <1>5, <1>6 DEF OfferInv

\* A count goes up by one when one more Offer is counted.
LEMMA OneMoreDelivered ==
  ASSUME TypeOK, NEW o \in Offers, o \notin deliveredAt, NEW w \in Workers
  PROVE  Cardinality({p \in deliveredAt \cup {o} : addressee[p] = w})
           = IF addressee[o] = w
               THEN Cardinality({p \in deliveredAt : addressee[p] = w}) + 1
               ELSE Cardinality({p \in deliveredAt : addressee[p] = w})
<1> DEFINE S == {p \in deliveredAt : addressee[p] = w}
<1>1. IsFiniteSet(S)
  <2>1. S \subseteq Offers
    BY DEF TypeOK
  <2> QED BY <2>1, OffersAssumption, FS_Subset
<1>2. CASE addressee[o] = w
  <2>1. {p \in deliveredAt \cup {o} : addressee[p] = w} = S \cup {o}
    BY <1>2
  <2>2. o \notin S
    OBVIOUS
  <2> QED BY <1>1, <1>2, <2>1, <2>2, FS_AddElement
<1>3. CASE addressee[o] # w
  <2>1. {p \in deliveredAt \cup {o} : addressee[p] = w} = S
    BY <1>3
  <2> QED BY <1>3, <2>1
<1> QED BY <1>2, <1>3

LEMMA DeliverKeeps ==
  ASSUME OfferInv, NEW r \in Requests, Deliver(r)
  PROVE  OfferInv'
<1> DEFINE o == job[r].subject
<1>1. /\ o \in Offers /\ offerState[o] = "pending_review"
      /\ sender[o] \in Accounts /\ addressee[o] \in Workers
  BY UnderTheLock DEF Deliver, OfferTx, DecisionTx
<1>2. /\ offerState' = [offerState EXCEPT ![o] = "delivered"]
      /\ deliveredAt' = deliveredAt \cup {o}
      /\ deliveredOfferCount' = [deliveredOfferCount EXCEPT ![addressee[o]] = @ + 1]
      /\ adminAction' = Audited(o, "delivering")
      /\ pc' = [pc EXCEPT ![r] = "notifying"]
      /\ UNCHANGED <<job, sender, addressee, contactExchange>>
  BY DEF Deliver, Goto
<1>3. o \notin deliveredAt
  BY <1>1 DEF OfferInv, RowInv, StampedIffReceived, ReceivedOfferStates
<1>4. /\ adminAction' = [adminAction EXCEPT ![o]["deliverOffer"] = @ + 1]
      /\ adminAction' \in [Offers -> [AuditedActions -> Nat]]
  <2>1. adminAction' = [adminAction EXCEPT ![o]["deliverOffer"] = @ + 1]
    BY <1>2 DEF Audited, ActionOf
  <2> QED BY <1>1, <2>1 DEF OfferInv, TypeOK, AuditedActions
<1>5. pc' \in [Requests -> PCs]
  BY <1>2 DEF OfferInv, TypeOK, PCs
<1>6. TypeOK'
  BY <1>1, <1>2, <1>4, <1>5
  DEF Deliver, OfferInv, TypeOK, accountVars, profileVars, OfferStateNames
<1>7. RowInv'
  <2>1. /\ \A p \in Offers : p # o => /\ offerState'[p] = offerState[p]
                                      /\ adminAction'[p] = adminAction[p]
        /\ offerState'[o] = "delivered"
        /\ adminAction'[o]["deliverOffer"] = 1
        /\ adminAction'[o]["rejectOffer"] = 0
    BY <1>1, <1>2, <1>3, <1>4
    DEF OfferInv, TypeOK, RowInv, DecisionsAreAudited, AuditedActions
  <2>2. RowsAreWhole' /\ StampedIffReceived' /\ ExchangeIffAccepted'
    BY <1>1, <1>2, <2>1
    DEF OfferInv, RowInv, RowsAreWhole, StampedIffReceived, ExchangeIffAccepted,
        ReceivedOfferStates
  <2>3. DecisionsAreAudited'
    BY <1>1, <1>2, <2>1 DEF OfferInv, RowInv, DecisionsAreAudited
  <2>4. CountMatchesDeliveries'
    <3>1. SUFFICES ASSUME NEW w \in Workers
                   PROVE  deliveredOfferCount'[w]
                            = Cardinality({p \in deliveredAt' : addressee'[p] = w})
      BY DEF CountMatchesDeliveries
    <3>2. deliveredOfferCount'[w] = IF addressee[o] = w THEN deliveredOfferCount[w] + 1
                                                       ELSE deliveredOfferCount[w]
      BY <1>1, <1>2 DEF OfferInv, TypeOK
    <3>3. deliveredOfferCount[w] = Cardinality({p \in deliveredAt : addressee[p] = w})
      BY DEF OfferInv, RowInv, CountMatchesDeliveries
    <3>4. {p \in deliveredAt' : addressee'[p] = w}
            = {p \in deliveredAt \cup {o} : addressee[p] = w}
      BY <1>2
    <3> QED BY <1>1, <1>3, <3>2, <3>3, <3>4, OneMoreDelivered DEF OfferInv
  <2> QED BY <2>2, <2>3, <2>4 DEF RowInv
<1>8. RequestInv'
  <2>1. /\ pc'[r] = "notifying" /\ job' = job
        /\ \A q \in Requests : q # r => pc'[q] = pc[q]
    BY <1>2 DEF OfferInv, TypeOK
  <2>2. pc[r] \in OfferTx /\ job' \in [Requests -> Jobs]
    BY <2>1 DEF Deliver, OfferTx, DecisionTx, OfferInv, TypeOK
  <2> QED
    BY <1>1, <1>2, <1>5, <2>1, <2>2, MoveKeepsRequests DEF OfferInv, OfferStateNames
<1> QED BY <1>6, <1>7, <1>8 DEF OfferInv

LEMMA RejectKeeps ==
  ASSUME OfferInv, NEW r \in Requests, Reject(r)
  PROVE  OfferInv'
<1> DEFINE o == job[r].subject
<1>1. /\ o \in Offers /\ offerState[o] \in PendingOfferStates
      /\ sender[o] \in Accounts /\ addressee[o] \in Workers
  BY UnderTheLock DEF Reject, OfferTx, DecisionTx
<1>2. /\ offerState' = [offerState EXCEPT ![o] = "rejected_by_admin"]
      /\ adminAction' = [adminAction EXCEPT ![o]["rejectOffer"] = @ + 1]
      /\ UNCHANGED <<sender, addressee, deliveredAt, deliveredOfferCount, contactExchange>>
  BY DEF Reject, profileVars, Audited, ActionOf
<1>3. /\ pc' \in [Requests -> PCs] /\ job' \in [Requests -> Jobs]
      /\ pc'[r] = "idle"
      /\ \A q \in Requests : q # r => pc'[q] = pc[q] /\ job'[q] = job[q]
  BY NoJobIsAJob DEF Reject, Finish, OfferInv, TypeOK, PCs
<1>4. adminAction' \in [Offers -> [AuditedActions -> Nat]]
  BY <1>1, <1>2 DEF OfferInv, TypeOK, AuditedActions
<1>5. TypeOK'
  BY <1>1, <1>2, <1>3, <1>4
  DEF Reject, OfferInv, TypeOK, accountVars, profileVars, OfferStateNames
<1>6. RowInv'
  <2>1. /\ \A p \in Offers : p # o => /\ offerState'[p] = offerState[p]
                                      /\ adminAction'[p] = adminAction[p]
        /\ offerState'[o] = "rejected_by_admin"
        /\ adminAction'[o]["rejectOffer"] = 1
        /\ adminAction'[o]["deliverOffer"] = adminAction[o]["deliverOffer"]
    BY <1>1, <1>2
    DEF OfferInv, TypeOK, RowInv, DecisionsAreAudited, AuditedActions, PendingOfferStates
  <2> QED
    BY <1>1, <1>2, <2>1
    DEF OfferInv, RowInv, RowsAreWhole, StampedIffReceived, ExchangeIffAccepted,
        DecisionsAreAudited, CountMatchesDeliveries, ReceivedOfferStates, PendingOfferStates
<1>7. RequestInv'
  BY <1>1, <1>2, <1>3, MoveKeepsRequests
  DEF Reject, OfferInv, OfferStateNames, OfferTx, DecisionTx
<1> QED BY <1>5, <1>6, <1>7 DEF OfferInv

-----------------------------------------------------------------------------
(* The two copies, and everything else *)

LEMMA ProgressKeepsRequests ==
  ASSUME TypeOK, RequestInv, NEW r \in Requests, NEW s \in Sides, NEW v \in CopyProgress,
         job' = [job EXCEPT ![r].progress[s] = v], UNCHANGED <<pc, offerState>>
  PROVE  RequestInv' /\ job' \in [Requests -> Jobs]
<1> DEFINE J == [job[r] EXCEPT !.progress = [job[r].progress EXCEPT ![s] = v]]
<1>1. J \in Jobs /\ J.subject = job[r].subject /\ J.snapshot = job[r].snapshot
      /\ J.caller = job[r].caller /\ J.profile = job[r].profile
  BY DEF TypeOK, Jobs
<1>2. job' = [job EXCEPT ![r] = J]
  OBVIOUS
<1> HIDE DEF J
<1>3. job' \in [Requests -> Jobs]
  BY <1>1, <1>2 DEF TypeOK
<1>4. \A q \in Requests : /\ job'[q].subject = job[q].subject
                          /\ job'[q].snapshot = job[q].snapshot
                          /\ job'[q].caller = job[q].caller
                          /\ job'[q].profile = job[q].profile
  BY <1>1, <1>2 DEF TypeOK
<1>5. RequestInv'
  BY <1>4 DEF RequestInv, JobsAreWhole, OneHolder, MoveStillPermitted
<1> QED BY <1>3, <1>5

LEMMA SendCopyKeeps ==
  ASSUME OfferInv, NEW r \in Requests, NEW s \in Sides, SendCopy(r, s)
  PROVE  OfferInv'
<1>1. PICK v \in CopyProgress : job' = [job EXCEPT ![r].progress[s] = v]
  BY DEF SendCopy, CopyProgress, UnansweredOutcome
<1>2. RequestInv' /\ job' \in [Requests -> Jobs]
  BY <1>1, ProgressKeepsRequests DEF SendCopy, OfferInv, offerVars
<1>3. outbox' \subseteq Mails
  <2>1. job[r].subject \in Offers /\ job[r].snapshot \in Snapshots
    BY DEF SendCopy, OfferInv, RequestInv, JobsAreWhole
  <2>2. CopyOf(r, s) \in Mails
    BY <2>1 DEF CopyOf, Mails
  <2> QED BY <2>2 DEF SendCopy, OfferInv, TypeOK
<1>4. TypeOK'
  BY <1>2, <1>3 DEF SendCopy, OfferInv, TypeOK, accountVars, profileVars, offerVars, recordVars
<1>5. RowInv'
  BY RowFrame DEF SendCopy, OfferInv, profileVars
<1> QED BY <1>2, <1>4, <1>5 DEF OfferInv

LEMMA RecordCopyKeeps ==
  ASSUME OfferInv, NEW r \in Requests, NEW s \in Sides, RecordCopy(r, s)
  PROVE  OfferInv'
<1> DEFINE o == job[r].subject
<1>1. o \in Offers /\ offerState[o] = "accepted" /\ contactExchange[o] \in Exchanges
  BY DEF RecordCopy, OfferInv, TypeOK, RequestInv, JobsAreWhole, MoveStillPermitted,
         RowInv, ExchangeIffAccepted
<1> DEFINE X == [contactExchange[o] EXCEPT !.copy =
                   [contactExchange[o].copy EXCEPT ![s] = job[r].progress[s]]]
<1>2. X \in Exchanges
  <2>1. job[r].progress[s] \in CopyStates
    BY DEF RecordCopy, CopyStates
  <2> QED BY <1>1, <2>1 DEF Exchanges
<1>3. contactExchange' = [contactExchange EXCEPT ![o] = X]
  BY DEF RecordCopy
<1> HIDE DEF X
<1>4. RequestInv' /\ job' \in [Requests -> Jobs]
  BY ProgressKeepsRequests DEF RecordCopy, OfferInv, offerVars, CopyProgress
<1>5. TypeOK'
  BY <1>1, <1>2, <1>3, <1>4
  DEF RecordCopy, OfferInv, TypeOK, accountVars, profileVars, offerVars
<1>6. RowInv'
  <2>1. \A p \in Offers : (contactExchange'[p] # None) <=> (contactExchange[p] # None)
    BY <1>1, <1>2, <1>3, NoneAssumption DEF OfferInv, TypeOK
  <2> QED
    BY <2>1
    DEF RecordCopy, OfferInv, RowInv, RowsAreWhole, StampedIffReceived, ExchangeIffAccepted,
        CountMatchesDeliveries, DecisionsAreAudited, offerVars, profileVars
<1> QED BY <1>4, <1>5, <1>6 DEF OfferInv

LEMMA RecordCopyFailsKeeps ==
  ASSUME OfferInv, NEW r \in Requests, NEW s \in Sides, RecordCopyFails(r, s)
  PROVE  OfferInv'
<1>1. RequestInv' /\ job' \in [Requests -> Jobs]
  BY ProgressKeepsRequests DEF RecordCopyFails, OfferInv, offerVars, CopyProgress
<1>2. faults' \in 0..MaxFaults
  BY BoundsAssumption DEF RecordCopyFails, OfferInv, TypeOK
<1>3. TypeOK'
  BY <1>1, <1>2
  DEF RecordCopyFails, OfferInv, TypeOK, accountVars, profileVars, offerVars, recordVars
<1>4. RowInv'
  BY RowFrame DEF RecordCopyFails, OfferInv, profileVars
<1> QED BY <1>1, <1>3, <1>4 DEF OfferInv

\* A request that ends without touching a row.
LEMMA QuietFinishKeeps ==
  ASSUME OfferInv, NEW r \in Requests, Finish(r), faults' \in 0..MaxFaults,
         outbox' \subseteq Mails,
         UNCHANGED <<accountVars, profileVars, offerVars, recordVars>>
  PROVE  OfferInv'
<1>1. /\ pc' \in [Requests -> PCs]
      /\ job' \in [Requests -> Jobs]
      /\ RequestInv'
  BY FinishKeepsRequests DEF OfferInv, offerVars
<1>2. TypeOK'
  BY <1>1 DEF OfferInv, TypeOK, accountVars, profileVars, offerVars, recordVars
<1>3. RowInv'
  BY RowFrame DEF OfferInv, profileVars
<1> QED BY <1>1, <1>2, <1>3 DEF OfferInv

LEMMA NotifyKeeps ==
  ASSUME OfferInv, NEW r \in Requests, Notify(r)
  PROVE  OfferInv'
<1>1. job[r].subject \in Offers
  BY DEF Notify, OfferInv, RequestInv, JobsAreWhole
<1>2. outbox' \subseteq Mails
  BY <1>1 DEF Notify, OfferInv, TypeOK, Mails
<1> QED BY <1>2, QuietFinishKeeps DEF Notify, OfferInv, TypeOK

LEMMA CrashKeeps ==
  ASSUME OfferInv, NEW r \in Requests, Crash(r)
  PROVE  OfferInv'
<1>1. faults' \in 0..MaxFaults
  BY BoundsAssumption DEF Crash, OfferInv, TypeOK
<1> QED BY <1>1, QuietFinishKeeps DEF Crash, OfferInv, TypeOK

\* A step that touches neither an Offer nor a request: what is left of the
\* invariant is the types of what it did touch.
LEMMA BystanderKeeps ==
  ASSUME OfferInv,
         UNCHANGED <<pc, job, outbox, faults, offerVars, recordVars, deliveredOfferCount>>,
         offerSendingState' \in [Accounts -> SendingStates],
         UNCHANGED <<hirerName, consent>>,
         block' \subseteq Workers \X Accounts,
         contact' \in [Workers -> 0..MaxEdits],
         paused' \subseteq Workers
  PROVE  OfferInv'
<1>1. RowInv'
  BY RowFrame DEF OfferInv
<1>2. RequestInv'
  BY DEF OfferInv, RequestInv, JobsAreWhole, OneHolder, MoveStillPermitted, offerVars
<1>3. TypeOK'
  BY DEF OfferInv, TypeOK, offerVars, recordVars
<1> QED BY <1>1, <1>2, <1>3 DEF OfferInv

LEMMA ProfileKeeps ==
  ASSUME OfferInv, NEW w \in Workers, Profile(w)
  PROVE  OfferInv'
<1>1. CASE PauseProfile(w)
  BY <1>1, BystanderKeeps DEF PauseProfile, OfferInv, TypeOK, accountVars, requestVars
<1>2. CASE ResumeProfile(w)
  BY <1>2, BystanderKeeps DEF ResumeProfile, OfferInv, TypeOK, accountVars, requestVars
<1>3. CASE UpdateProfile(w)
  <2>1. contact' \in [Workers -> 0..MaxEdits]
    BY <1>3, BoundsAssumption DEF UpdateProfile, OfferInv, TypeOK
  <2> QED
    BY <1>3, <2>1, BystanderKeeps DEF UpdateProfile, OfferInv, TypeOK, accountVars, requestVars
<1> QED BY <1>1, <1>2, <1>3 DEF Profile

LEMMA ElsewhereKeeps ==
  ASSUME OfferInv, Elsewhere
  PROVE  OfferInv'
<1>1. ASSUME NEW a \in Accounts, NEW to \in SendingStates, WriteSendingState(a, to)
      PROVE  OfferInv'
  <2>1. offerSendingState' \in [Accounts -> SendingStates]
    BY <1>1 DEF WriteSendingState, OfferInv, TypeOK
  <2> QED
    BY <1>1, <2>1, BystanderKeeps
    DEF WriteSendingState, OfferInv, TypeOK, profileVars, requestVars
<1>2. ASSUME NEW w \in Workers, NEW h \in Accounts, BlockHirer(w, h)
      PROVE  OfferInv'
  <2>1. block' \subseteq Workers \X Accounts
    BY <1>2 DEF BlockHirer, OfferInv, TypeOK
  <2> QED
    BY <1>2, <2>1, BystanderKeeps
    DEF BlockHirer, OfferInv, TypeOK, profileVars, requestVars
<1> QED BY <1>1, <1>2 DEF Elsewhere

LEMMA StutterKeeps ==
  ASSUME OfferInv, UNCHANGED vars
  PROVE  OfferInv'
<1>1. TypeOK'
  BY DEF OfferInv, TypeOK, vars, accountVars, profileVars, offerVars, recordVars, requestVars
<1>2. RowInv'
  BY RowFrame DEF OfferInv, vars, profileVars
<1>3. RequestInv'
  BY DEF OfferInv, RequestInv, JobsAreWhole, OneHolder, MoveStillPermitted, vars,
         offerVars, requestVars
<1> QED BY <1>1, <1>2, <1>3 DEF OfferInv

-----------------------------------------------------------------------------
(* The invariant *)

LEMMA OfferInvStep ==
  ASSUME OfferInv, [Next]_vars
  PROVE  OfferInv'
<1>1. ASSUME NEW r \in Requests, Send(r) PROVE OfferInv'
  <2>1. CASE \E h \in Accounts, w \in Workers : SendPost(r, h, w)
    BY <2>1, SendPostKeeps
  <2>2. CASE SendLock(r)
    BY <2>2, QuietSendKeeps DEF SendLock, SendTx
  <2>3. CASE SendAddress(r)
    BY <2>3, QuietSendKeeps DEF SendAddress, SendTx
  <2>4. CASE SendScreen(r)
    BY <2>4, SendScreenKeeps
  <2>5. CASE SendWrite(r)
    BY <2>5, SendWriteKeeps
  <2>6. CASE SendStale(r)
    BY <2>6, QuietSendKeeps DEF SendStale, SendTx
  <2> QED BY <1>1, <2>1, <2>2, <2>3, <2>4, <2>5, <2>6 DEF Send
<1>2. ASSUME NEW r \in Requests, Answer(r) PROVE OfferInv'
  BY <1>2, AnswerLockKeeps, AcceptKeeps, DeclineKeeps DEF Answer
<1>3. ASSUME NEW r \in Requests, Copy(r) PROVE OfferInv'
  <2>1. CASE CopiesDone(r)
    BY <2>1, QuietFinishKeeps DEF CopiesDone, OfferInv, TypeOK
  <2> QED BY <1>3, <2>1, SendCopyKeeps, RecordCopyKeeps, RecordCopyFailsKeeps DEF Copy
<1>4. ASSUME NEW r \in Requests, Decide(r) PROVE OfferInv'
  BY <1>4, DecideLockKeeps, DeliverKeeps, RejectKeeps, NotifyKeeps DEF Decide
<1>5. ASSUME NEW r \in Requests, Crash(r) PROVE OfferInv'
  BY <1>5, CrashKeeps
<1>6. CASE (\E w \in Workers : Profile(w)) \/ Elsewhere
  BY <1>6, ProfileKeeps, ElsewhereKeeps
<1>7. CASE UNCHANGED vars
  BY <1>7, StutterKeeps
<1> QED BY <1>1, <1>2, <1>3, <1>4, <1>5, <1>6, <1>7 DEF Next

THEOREM OfferInvariant == Spec => []OfferInv
<1>1. OfferInv /\ [Next]_vars => OfferInv'
  BY OfferInvStep
<1> QED BY OfferInvInit, <1>1, PTL DEF Spec

\* Every column, and every request, holds a value of its type.
THEOREM TypeCorrect == Spec => []TypeOK
<1>1. OfferInv => TypeOK
  BY DEF OfferInv
<1> QED BY OfferInvariant, <1>1, PTL

\* Details cross for exactly the accepted Offers, whoever raced or died
\* (answerReceivedOffer, offers/index.ts:631-666).
THEOREM DetailsCrossExactlyOnAccept == Spec => []ExchangeIffAccepted
<1>1. OfferInv => ExchangeIffAccepted
  BY DEF OfferInv, RowInv
<1> QED BY OfferInvariant, <1>1, PTL

\* The count that orders the browsable list is the number of deliveries
\* (deliverOffer, admin/handlers.ts:512-575).
THEOREM CountIsTheDeliveries == Spec => []CountMatchesDeliveries
<1>1. OfferInv => CountMatchesDeliveries
  BY DEF OfferInv, RowInv
<1> QED BY OfferInvariant, <1>1, PTL

\* One AdminAction per committed decision, and one decision per Offer
\* (runAdminAction, admin/index.ts:80-158).
THEOREM EveryDecisionIsAudited == Spec => []DecisionsAreAudited
<1>1. OfferInv => DecisionsAreAudited
  BY DEF OfferInv, RowInv
<1> QED BY OfferInvariant, <1>1, PTL

-----------------------------------------------------------------------------
(* The implementation of OfferLifecycle *)

LEMMA LifecycleInit == Init => Lifecycle!Init
BY DEF Init, Lifecycle!Init

\* An Offer's row and its exchange change at four steps only; each of them is
\* the abstract move of the same name, under the lock that keeps it permitted.
LEMMA LifecycleStep ==
  ASSUME OfferInv, OfferInv', [Next]_vars
  PROVE  [Lifecycle!Next]_<<offerState, deliveredAt, {o \in Offers : contactExchange[o] # None}>>
<1> DEFINE X == {o \in Offers : contactExchange[o] # None}
<1>1. X = {o \in Offers : offerState[o] = "accepted"}
      /\ X' = {o \in Offers : offerState'[o] = "accepted"}
  BY DEF OfferInv, RowInv, ExchangeIffAccepted
<1> HIDE DEF X
<1>2. ASSUME NEW r \in Requests, SendWrite(r)
      PROVE  \E o \in Offers : Lifecycle!Submit(o)
  <2>1. PICK o \in Offers : /\ offerState[o] = "unsent"
                           /\ offerState' = [offerState EXCEPT ![o] = "pending_review"]
    BY <1>2 DEF SendWrite, InitialOfferState
  <2>2. X' = X
    BY <1>1, <2>1 DEF OfferInv, TypeOK
  <2>3. UNCHANGED deliveredAt
    BY <1>2 DEF SendWrite
  <2> QED
    BY <2>1, <2>2, <2>3 DEF Lifecycle!Submit, Lifecycle!InitialOfferState, X
<1>3. ASSUME NEW o \in Offers, NEW to \in OfferStateNames, offerState[o] \in OfferStateNames,
             MayTransitionOffer(offerState[o], to),
             offerState' = [offerState EXCEPT ![o] = to],
             deliveredAt' = IF to = "delivered" THEN deliveredAt \cup {o} ELSE deliveredAt
      PROVE  Lifecycle!Next
  <2>1. offerState[o] # "unsent"
    BY <1>3 DEF OfferStateNames
  <2>2. X' = IF to = "accepted" THEN X \cup {o} ELSE X
    <3>1. offerState[o] # "accepted"
      BY <1>3 DEF MayTransitionOffer, PermittedTransitions
    <3> QED BY <1>1, <1>3, <3>1 DEF OfferInv, TypeOK
  <2>3. Lifecycle!Move(o, to)
    BY <1>3, <2>1, <2>2
    DEF Lifecycle!Move, Lifecycle!MayTransitionOffer, Lifecycle!PermittedTransitions,
        MayTransitionOffer, PermittedTransitions, Lifecycle!Stamped, Lifecycle!Crossing, X
  <2> QED
    BY <2>3 DEF Lifecycle!Next, Lifecycle!OfferStateNames, OfferStateNames
<1>4. ASSUME NEW r \in Requests, Accept(r) \/ Decline(r) PROVE Lifecycle!Next
  <2> DEFINE o == job[r].subject
             to == AnswerMove[pc[r]]
  <2>1. pc[r] \in AnswerTx /\ to \in OfferStateNames /\ to # "delivered"
    BY <1>4 DEF Accept, Decline, AnswerTx, AnswerMove, OfferStateNames
  <2>2. /\ o \in Offers /\ offerState[o] \in OfferStateNames
        /\ MayTransitionOffer(offerState[o], to)
    BY <2>1
    DEF OfferInv, TypeOK, RequestInv, JobsAreWhole, MoveStillPermitted, OfferTx
  <2>3. offerState' = [offerState EXCEPT ![o] = to] /\ deliveredAt' = deliveredAt
    BY <1>4 DEF Accept, Decline, AnswerMove
  <2> QED BY <1>3, <2>1, <2>2, <2>3
<1>5. ASSUME NEW r \in Requests, Deliver(r) \/ Reject(r) PROVE Lifecycle!Next
  <2> DEFINE o == job[r].subject
             to == DecisionMove[pc[r]]
  <2>1. pc[r] \in DecisionTx /\ to \in OfferStateNames
    BY <1>5 DEF Deliver, Reject, DecisionTx, DecisionMove, OfferStateNames
  <2>2. /\ o \in Offers /\ offerState[o] \in OfferStateNames
        /\ MayTransitionOffer(offerState[o], to)
    BY <2>1
    DEF OfferInv, TypeOK, RequestInv, JobsAreWhole, MoveStillPermitted, OfferTx
  <2>3. /\ offerState' = [offerState EXCEPT ![o] = to]
        /\ deliveredAt' = IF to = "delivered" THEN deliveredAt \cup {o} ELSE deliveredAt
    BY <1>5 DEF Deliver, Reject, DecisionMove
  <2> QED BY <1>3, <2>1, <2>2, <2>3
<1>6. ASSUME UNCHANGED <<offerState, deliveredAt>>
      PROVE  UNCHANGED <<offerState, deliveredAt, X>>
  BY <1>1, <1>6
<1>7. CASE \E r \in Requests : Send(r)
  <2>1. PICK r \in Requests : Send(r)
    BY <1>7
  <2>2. CASE SendWrite(r)
    BY <1>2, <2>2 DEF Lifecycle!Next
  <2>3. CASE ~SendWrite(r)
    <3>1. UNCHANGED offerVars
      BY <2>1, <2>3 DEF Send, SendPost, SendLock, SendAddress, SendScreen, SendStale
    <3> QED BY <1>6, <3>1 DEF offerVars, X
  <2> QED BY <2>2, <2>3
<1>8. CASE \E r \in Requests : Answer(r)
  <2>1. PICK r \in Requests : Answer(r)
    BY <1>8
  <2>2. CASE Accept(r) \/ Decline(r)
    BY <1>4, <2>2
  <2>3. CASE \E w \in Workers, o \in Offers, tx \in AnswerTx : AnswerLock(r, w, o, tx)
    BY <1>6, <2>3 DEF AnswerLock, offerVars, X
  <2> QED BY <2>1, <2>2, <2>3 DEF Answer
<1>9. CASE \E r \in Requests : Decide(r)
  <2>1. PICK r \in Requests : Decide(r)
    BY <1>9
  <2>2. CASE Deliver(r) \/ Reject(r)
    BY <1>5, <2>2
  <2>3. CASE Notify(r) \/ \E o \in Offers, tx \in DecisionTx : DecideLock(r, o, tx)
    BY <1>6, <2>3 DEF DecideLock, Notify, offerVars, X
  <2> QED BY <2>1, <2>2, <2>3 DEF Decide
<1>10. CASE \E r \in Requests : Copy(r) \/ Crash(r)
  <2>1. UNCHANGED offerVars
    BY <1>10 DEF Copy, Crash, SendCopy, RecordCopy, RecordCopyFails, CopiesDone
  <2> QED BY <1>6, <2>1 DEF offerVars, X
<1>11. CASE (\E w \in Workers : Profile(w)) \/ Elsewhere \/ UNCHANGED vars
  <2>1. UNCHANGED offerVars
    BY <1>11 DEF Profile, PauseProfile, ResumeProfile, UpdateProfile, Elsewhere,
                 WriteSendingState, BlockHirer, vars
  <2> QED BY <1>6, <2>1 DEF offerVars, X
<1> QED BY <1>7, <1>8, <1>9, <1>10, <1>11 DEF Next

\* Transactions, row locks, crashes and copies included, an Offer does what
\* OfferLifecycle promises.
THEOREM OfferLifecycleIsImplemented == Spec => LifecycleSpec
<1>1. OfferInv /\ OfferInv' /\ [Next]_vars => [Lifecycle!Next]_Lifecycle!lifecycleVars
  BY LifecycleStep DEF Lifecycle!lifecycleVars
<1> QED
  BY OfferInvariant, LifecycleInit, <1>1, PTL DEF Spec, LifecycleSpec, Lifecycle!Spec

-----------------------------------------------------------------------------
(* What the lifecycle's own theorems then say of the Offers *)

Promised == INSTANCE OfferLifecycle_proofs WITH
  life <- offerState,
  crossed <- {o \in Offers : contactExchange[o] # None}

\* The module proved about and the one implemented are one.
LEMMA SamePromise == LifecycleSpec => Promised!Spec
<1>1. Lifecycle!Init => Promised!Init
  BY DEF Lifecycle!Init, Promised!Init
<1>2. Lifecycle!OfferStateNames = Promised!OfferStateNames
  BY DEF Lifecycle!OfferStateNames, Promised!OfferStateNames
<1>3. ASSUME NEW o \in Offers, Lifecycle!Submit(o)
      PROVE  Promised!Submit(o)
  BY <1>3 DEF Lifecycle!Submit, Promised!Submit, Lifecycle!InitialOfferState, Promised!InitialOfferState
<1>4. ASSUME NEW o \in Offers, NEW to, Lifecycle!Move(o, to)
      PROVE  Promised!Move(o, to)
  <2>1. Promised!MayTransitionOffer(offerState[o], to)
    BY <1>4 DEF Lifecycle!Move, Lifecycle!MayTransitionOffer, Promised!MayTransitionOffer,
                Lifecycle!PermittedTransitions, Promised!PermittedTransitions
  <2> QED
    BY <1>4, <2>1 DEF Lifecycle!Move, Promised!Move, Lifecycle!Stamped, Promised!Stamped,
                      Lifecycle!Crossing, Promised!Crossing
<1>5. [Lifecycle!Next]_(Lifecycle!lifecycleVars) => [Promised!Next]_(Promised!lifecycleVars)
  BY <1>2, <1>3, <1>4
  DEF Lifecycle!Next, Promised!Next, Lifecycle!lifecycleVars, Promised!lifecycleVars
<1> QED BY <1>1, <1>5, PTL DEF LifecycleSpec, Lifecycle!Spec, Promised!Spec

\* No answer, decision, crash or overlap of requests puts an Offer back before an
\* Admin once a Worker has it or an Admin refused it (offer-states.ts:118-137).
THEOREM ReviewIsLeftForGood == Spec => Lifecycle!NoWayBackToReview
<1>1. [\A o \in Offers :
         offerState[o] \notin Promised!PendingOfferStates \cup {"unsent"} =>
           offerState'[o] \notin Promised!PendingOfferStates]_(Promised!lifecycleVars)
      => [\A o \in Offers :
            offerState[o] \notin Lifecycle!PendingOfferStates \cup {"unsent"} =>
              offerState'[o] \notin Lifecycle!PendingOfferStates]_(Lifecycle!lifecycleVars)
  BY DEF Promised!PendingOfferStates, Lifecycle!PendingOfferStates,
         Promised!lifecycleVars, Lifecycle!lifecycleVars
<1> QED
  BY <1>1, OfferLifecycleIsImplemented, SamePromise, Promised!ReviewIsNotReentered, PTL
  DEF Lifecycle!NoWayBackToReview, Promised!NoWayBackToReview

\* The stamp a delivery leaves is set exactly on the Offers a Worker has received,
\* under every interleaving of decisions and answers (offer-states.ts:72-92).
THEOREM StampIsReceipt == Spec => []Lifecycle!ReceivedIsStampedButForReports
<1>1. Promised!ReceivedIsStampedButForReports => Lifecycle!ReceivedIsStampedButForReports
  BY DEF Promised!ReceivedIsStampedButForReports, Lifecycle!ReceivedIsStampedButForReports,
         Promised!ReceivedOfferStates, Lifecycle!ReceivedOfferStates
<1> QED
  BY <1>1, OfferLifecycleIsImplemented, SamePromise, Promised!ReceivedIsStamped, PTL

-----------------------------------------------------------------------------
(* What a send read stays true until it writes *)

\* A step of a request that is not inside a send, before or after, and that
\* leaves the Accounts and the existence of every Offer alone.
LEMMA SendFrame ==
  ASSUME SendInv, UNCHANGED <<accountVars, sender>>,
         \A q \in Requests :
           pc'[q] \in SendTx => pc'[q] = pc[q] /\ job'[q] = job[q],
         \A o \in Offers : offerState'[o] # "unsent" => offerState[o] # "unsent"
  PROVE  SendInv'
BY DEF SendInv, OneSender, SenderIsActive, ScreenStillHolds, ConsentBehindEveryOffer,
       accountVars, SendTx

LEMMA SendInvInit == Init => SendInv
BY DEF Init, SendInv, OneSender, SenderIsActive, ScreenStillHolds,
       ConsentBehindEveryOffer, SendTx

LEMMA FinishLeavesTheOthers ==
  ASSUME TypeOK, NEW r \in Requests, Finish(r)
  PROVE  /\ pc'[r] = "idle"
         /\ \A q \in Requests : q # r => pc'[q] = pc[q] /\ job'[q] = job[q]
BY DEF Finish, TypeOK

LEMMA SendLockKeepsSends ==
  ASSUME OfferInv, SendInv, NEW r \in Requests, SendLock(r)
  PROVE  SendInv'
<1>1. UNCHANGED <<accountVars, sender, offerState>>
  BY DEF SendLock, offerVars
<1>2. CASE Finish(r)
  <2>1. \A q \in Requests : pc'[q] \in SendTx => pc'[q] = pc[q] /\ job'[q] = job[q]
    BY <1>2, FinishLeavesTheOthers DEF OfferInv, SendTx
  <2> QED BY <1>1, <2>1, SendFrame
<1>3. CASE offerSendingState[job[r].caller] = "active" /\ Goto(r, "locked")
  <2>1. pc'[r] = "locked" /\ job' = job /\ \A q \in Requests : q # r => pc'[q] = pc[q]
    BY <1>3 DEF Goto, OfferInv, TypeOK
  <2>2. OneSender'
    BY <2>1 DEF SendLock, UserRowFree, SendInv, OneSender
  <2>3. SenderIsActive' /\ ScreenStillHolds' /\ ConsentBehindEveryOffer'
    BY <1>1, <1>3, <2>1
    DEF SendInv, SenderIsActive, ScreenStillHolds, ConsentBehindEveryOffer, accountVars
  <2> QED BY <2>2, <2>3 DEF SendInv
<1> QED BY <1>2, <1>3 DEF SendLock

LEMMA SendAddressKeepsSends ==
  ASSUME OfferInv, SendInv, NEW r \in Requests, SendAddress(r)
  PROVE  SendInv'
<1>1. UNCHANGED <<accountVars, sender, offerState>>
  BY DEF SendAddress, offerVars
<1>2. CASE Finish(r)
  <2>1. \A q \in Requests : pc'[q] \in SendTx => pc'[q] = pc[q] /\ job'[q] = job[q]
    BY <1>2, FinishLeavesTheOthers DEF OfferInv, SendTx
  <2> QED BY <1>1, <2>1, SendFrame
<1>3. CASE Goto(r, "addressed")
  <2>1. /\ pc[r] = "locked" /\ pc'[r] = "addressed" /\ job' = job
        /\ \A q \in Requests : q # r => pc'[q] = pc[q]
    BY <1>3 DEF SendAddress, Goto, OfferInv, TypeOK
  <2> QED
    BY <1>1, <2>1
    DEF SendInv, OneSender, SenderIsActive, ScreenStillHolds, ConsentBehindEveryOffer,
        accountVars, SendTx
<1> QED BY <1>2, <1>3 DEF SendAddress

LEMMA SendScreenKeepsSends ==
  ASSUME OfferInv, SendInv, NEW r \in Requests, SendScreen(r)
  PROVE  SendInv'
<1>1. UNCHANGED <<accountVars, sender, offerState>>
  BY DEF SendScreen, offerVars
<1>2. CASE Finish(r)
  <2>1. \A q \in Requests : pc'[q] \in SendTx => pc'[q] = pc[q] /\ job'[q] = job[q]
    BY <1>2, FinishLeavesTheOthers DEF OfferInv, SendTx
  <2> QED BY <1>1, <2>1, SendFrame
<1>3. CASE /\ MayWrite(job[r])
           /\ pc' = [pc EXCEPT ![r] = "screened"]
           /\ job' = [job EXCEPT ![r].first = IsFirst(job[r])]
  <2>1. /\ pc[r] = "addressed" /\ pc'[r] = "screened"
        /\ job'[r].caller = job[r].caller /\ job'[r].profile = job[r].profile
        /\ job'[r].identity = job[r].identity
        /\ job'[r].first <=> job[r].caller \notin consent
        /\ \A q \in Requests : q # r => pc'[q] = pc[q] /\ job'[q] = job[q]
    <3>1. pc[r] = "addressed" /\ pc'[r] = "screened"
          /\ \A q \in Requests : q # r => pc'[q] = pc[q] /\ job'[q] = job[q]
      BY <1>3 DEF SendScreen, OfferInv, TypeOK
    <3>2. job'[r] = [job[r] EXCEPT !.first = IsFirst(job[r])]
      BY <1>3 DEF OfferInv, TypeOK
    <3>3. job[r] \in Jobs
      BY DEF OfferInv, TypeOK
    <3>4. /\ job'[r].caller = job[r].caller /\ job'[r].profile = job[r].profile
          /\ job'[r].identity = job[r].identity
      BY <3>2, <3>3 DEF Jobs
    <3>5. job'[r].first <=> job[r].caller \notin consent
      <4>1. job'[r].first = IsFirst(job[r])
        BY <3>2, <3>3, Zenon DEF Jobs
      <4> QED BY <4>1, Zenon DEF IsFirst
    <3> QED BY <3>1, <3>4, <3>5
  <2>2. OneSender' /\ SenderIsActive'
    BY <1>1, <2>1 DEF SendInv, OneSender, SenderIsActive, accountVars, SendTx
  <2>3. ScreenStillHolds' /\ ConsentBehindEveryOffer'
    BY <1>1, <1>3, <2>1
    DEF SendInv, ScreenStillHolds, ConsentBehindEveryOffer, accountVars, MayWrite, IsFirst
  <2> QED BY <2>2, <2>3 DEF SendInv
<1> QED BY <1>2, <1>3 DEF SendScreen

LEMMA SendWriteKeepsSends ==
  ASSUME OfferInv, SendInv, NEW r \in Requests, SendWrite(r)
  PROVE  SendInv'
<1> DEFINE j == job[r]
<1>1. /\ j.caller \in Accounts /\ pc[r] = "screened" /\ pc[r] \in SendTx
      /\ j.first <=> (j.caller \notin consent)
      /\ j.first => j.identity # None
  BY DEF SendWrite, OfferInv, RequestInv, JobsAreWhole, SendTx, SendInv, ScreenStillHolds
<1>2. PICK o \in Offers : /\ offerState' = [offerState EXCEPT ![o] = InitialOfferState]
                         /\ sender' = [sender EXCEPT ![o] = j.caller]
  BY DEF SendWrite
<1>3. /\ pc'[r] = "idle"
      /\ \A q \in Requests : q # r => pc'[q] = pc[q] /\ job'[q] = job[q]
      /\ UNCHANGED <<offerSendingState, block>>
  BY FinishLeavesTheOthers DEF SendWrite, OfferInv
<1>4. consent' = consent \cup {j.caller}
  BY <1>1 DEF SendWrite, ConsentAfter
<1>5. OneSender' /\ SenderIsActive'
  BY <1>3 DEF SendInv, OneSender, SenderIsActive, SendTx
<1>6. ScreenStillHolds'
  <2>1. ASSUME NEW q \in Requests, q # r, pc[q] = "screened"
        PROVE  (job[q].caller \in consent') <=> (job[q].caller \in consent)
    BY <1>1, <1>4, <2>1 DEF SendInv, OneSender, SendTx
  <2> QED BY <1>3, <2>1 DEF SendInv, ScreenStillHolds
<1>7. ConsentBehindEveryOffer'
  <2>1. \A p \in Offers : offerState'[p] # "unsent" => sender'[p] \in consent'
    BY <1>2, <1>4 DEF OfferInv, TypeOK, SendInv, ConsentBehindEveryOffer
  <2>2. \A a \in Accounts : (hirerName'[a] # None) <=> (a \in consent')
    BY <1>1, <1>4
    DEF SendWrite, NameAfter, OfferInv, TypeOK, SendInv, ConsentBehindEveryOffer
  <2> QED BY <2>1, <2>2 DEF ConsentBehindEveryOffer
<1> QED BY <1>5, <1>6, <1>7 DEF SendInv

\* A freeze and a Block wait for the row of whoever is inside a send.
LEMMA ElsewhereKeepsSends ==
  ASSUME OfferInv, SendInv, Elsewhere
  PROVE  SendInv'
<1>1. ASSUME NEW a \in Accounts, NEW to \in SendingStates, WriteSendingState(a, to)
      PROVE  SendInv'
  <2>1. UNCHANGED <<hirerName, consent, block, sender, offerState, pc, job>>
    BY <1>1 DEF WriteSendingState, offerVars, requestVars
  <2>2. \A b \in Accounts : b # a => offerSendingState'[b] = offerSendingState[b]
    BY <1>1 DEF WriteSendingState, OfferInv, TypeOK
  <2>3. \A r \in Requests : pc[r] \in SendTx => job[r].caller \in Accounts /\ job[r].caller # a
    BY <1>1 DEF WriteSendingState, UserRowFree, OfferInv, RequestInv, JobsAreWhole
  <2> QED
    BY <2>1, <2>2, <2>3
    DEF SendInv, OneSender, SenderIsActive, ScreenStillHolds, ConsentBehindEveryOffer
<1>2. ASSUME NEW w \in Workers, NEW h \in Accounts, BlockHirer(w, h)
      PROVE  SendInv'
  <2>1. UNCHANGED <<hirerName, consent, offerSendingState, sender, offerState, pc, job>>
        /\ block' = block \cup {<<w, h>>}
    BY <1>2 DEF BlockHirer, offerVars, requestVars
  <2>2. \A r \in Requests : pc[r] \in SendTx => job[r].caller # h
    BY <1>2 DEF BlockHirer, UserRowFree
  <2> QED
    BY <2>1, <2>2
    DEF SendInv, OneSender, SenderIsActive, ScreenStillHolds, ConsentBehindEveryOffer, SendTx
<1> QED BY <1>1, <1>2 DEF Elsewhere

LEMMA SendInvStep ==
  ASSUME OfferInv, SendInv, [Next]_vars
  PROVE  SendInv'
<1>1. ASSUME NEW r \in Requests, UNCHANGED <<accountVars, sender>>,
             pc'[r] \notin SendTx,
             \A q \in Requests : q # r => pc'[q] = pc[q] /\ job'[q] = job[q],
             \A o \in Offers : offerState'[o] # "unsent" => offerState[o] # "unsent"
      PROVE  SendInv'
  BY <1>1, SendFrame
<1>2. ASSUME NEW r \in Requests, Send(r) PROVE SendInv'
  <2>1. CASE \E h \in Accounts, w \in Workers : SendPost(r, h, w)
    BY <1>1, <2>1 DEF SendPost, OfferInv, TypeOK, SendTx, offerVars
  <2>2. CASE SendStale(r)
    BY <1>1, <2>2, FinishLeavesTheOthers DEF SendStale, OfferInv, SendTx, offerVars
  <2> QED
    BY <1>2, <2>1, <2>2, SendLockKeepsSends, SendAddressKeepsSends, SendScreenKeepsSends,
       SendWriteKeepsSends DEF Send
<1>3. ASSUME NEW r \in Requests, Answer(r) PROVE SendInv'
  <2>1. CASE \E w \in Workers, o \in Offers, tx \in AnswerTx : AnswerLock(r, w, o, tx)
    BY <1>1, <2>1 DEF AnswerLock, OfferInv, TypeOK, SendTx, AnswerTx, offerVars
  <2>2. CASE Accept(r)
    <3>1. offerState[job[r].subject] = "delivered"
      BY <2>2, UnderTheLock DEF Accept, OfferTx, AnswerTx
    <3> QED BY <1>1, <2>2, <3>1 DEF Accept, OfferInv, TypeOK, SendTx
  <2>3. CASE Decline(r)
    <3>1. offerState[job[r].subject] = "delivered"
      BY <2>3, UnderTheLock DEF Decline, OfferTx, AnswerTx
    <3> QED
      BY <1>1, <2>3, <3>1, FinishLeavesTheOthers DEF Decline, OfferInv, TypeOK, SendTx
  <2> QED BY <1>3, <2>1, <2>2, <2>3 DEF Answer
<1>4. ASSUME NEW r \in Requests, Copy(r) PROVE SendInv'
  <2>1. CASE CopiesDone(r)
    BY <1>1, <2>1, FinishLeavesTheOthers DEF CopiesDone, OfferInv, SendTx, offerVars
  <2>2. CASE \E s \in Sides : SendCopy(r, s) \/ RecordCopy(r, s) \/ RecordCopyFails(r, s)
    BY <1>1, <2>2
    DEF SendCopy, RecordCopy, RecordCopyFails, OfferInv, TypeOK, SendTx, offerVars
  <2> QED BY <1>4, <2>1, <2>2 DEF Copy
<1>5. ASSUME NEW r \in Requests, Decide(r) PROVE SendInv'
  <2>1. CASE \E o \in Offers, tx \in DecisionTx : DecideLock(r, o, tx)
    BY <1>1, <2>1 DEF DecideLock, OfferInv, TypeOK, SendTx, DecisionTx, offerVars
  <2>2. CASE Deliver(r)
    <3>1. offerState[job[r].subject] = "pending_review"
      BY <2>2, UnderTheLock DEF Deliver, OfferTx, DecisionTx
    <3> QED BY <1>1, <2>2, <3>1 DEF Deliver, Goto, OfferInv, TypeOK, SendTx
  <2>3. CASE Reject(r)
    <3>1. offerState[job[r].subject] \in PendingOfferStates
      BY <2>3, UnderTheLock DEF Reject, OfferTx, DecisionTx
    <3> QED
      BY <1>1, <2>3, <3>1, FinishLeavesTheOthers
      DEF Reject, OfferInv, TypeOK, SendTx, PendingOfferStates
  <2>4. CASE Notify(r)
    BY <1>1, <2>4, FinishLeavesTheOthers DEF Notify, OfferInv, SendTx, offerVars
  <2> QED BY <1>5, <2>1, <2>2, <2>3, <2>4 DEF Decide
<1>6. ASSUME NEW r \in Requests, Crash(r) PROVE SendInv'
  BY <1>1, <1>6, FinishLeavesTheOthers DEF Crash, OfferInv, SendTx, offerVars
<1>7. CASE (\E w \in Workers : Profile(w)) \/ UNCHANGED vars
  BY <1>7, SendFrame
  DEF Profile, PauseProfile, ResumeProfile, UpdateProfile, vars, offerVars, requestVars
<1>8. CASE Elsewhere
  BY <1>8, ElsewhereKeepsSends
<1> QED BY <1>2, <1>3, <1>4, <1>5, <1>6, <1>7, <1>8 DEF Next

THEOREM SendInvariant == Spec => []SendInv
<1>1. OfferInv /\ SendInv /\ [Next]_vars => SendInv'
  BY SendInvStep
<1> QED BY OfferInvariant, SendInvInit, <1>1, PTL DEF Spec

\* Nobody's Offer, and nobody's name, is held without his Consent row
\* (consent/index.ts:5-6).
THEOREM ConsentComesFirst == Spec => []ConsentBehindEveryOffer
<1>1. SendInv => ConsentBehindEveryOffer
  BY DEF SendInv
<1> QED BY SendInvariant, <1>1, PTL

\* Every step but the write of a send leaves unsent Offers unsent and names
\* as they are.
LEMMA OnlySendWrites ==
  ASSUME OfferInv, [Next]_vars, ~\E r \in Requests : SendWrite(r)
  PROVE  /\ \A o \in Offers : offerState'[o] # "unsent" => offerState[o] # "unsent"
         /\ UNCHANGED hirerName
<1>1. ASSUME NEW r \in Requests, Accept(r) \/ Decline(r) \/ Deliver(r) \/ Reject(r)
      PROVE  /\ \A o \in Offers : offerState'[o] # "unsent" => offerState[o] # "unsent"
             /\ UNCHANGED hirerName
  <2>1. pc[r] \in OfferTx
    BY <1>1 DEF Accept, Decline, Deliver, Reject, OfferTx, AnswerTx, DecisionTx
  <2>2. offerState[job[r].subject] # "unsent"
    BY <2>1 DEF OfferInv, RequestInv, MoveStillPermitted, OfferTx
  <2>3. \A o \in Offers : o # job[r].subject => offerState'[o] = offerState[o]
    BY <1>1 DEF Accept, Decline, Deliver, Reject, OfferInv, TypeOK
  <2> QED BY <1>1, <2>2, <2>3 DEF Accept, Decline, Deliver, Reject, accountVars
<1>2. ASSUME NEW r \in Requests, Send(r) PROVE UNCHANGED <<offerState, hirerName>>
  BY <1>2 DEF Send, SendPost, SendLock, SendAddress, SendScreen, SendStale,
              accountVars, offerVars
<1>3. ASSUME NEW r \in Requests, Copy(r) \/ Crash(r) PROVE UNCHANGED <<offerState, hirerName>>
  BY <1>3 DEF Copy, Crash, SendCopy, RecordCopy, RecordCopyFails, CopiesDone,
              accountVars, offerVars
<1>4. ASSUME NEW r \in Requests, Answer(r), ~(Accept(r) \/ Decline(r))
      PROVE  UNCHANGED <<offerState, hirerName>>
  BY <1>4 DEF Answer, AnswerLock, accountVars, offerVars
<1>5. ASSUME NEW r \in Requests, Decide(r), ~(Deliver(r) \/ Reject(r))
      PROVE  UNCHANGED <<offerState, hirerName>>
  BY <1>5 DEF Decide, DecideLock, Notify, accountVars, offerVars
<1>6. CASE (\E w \in Workers : Profile(w)) \/ Elsewhere \/ UNCHANGED vars
  <2>1. UNCHANGED <<offerState, hirerName>>
    BY <1>6 DEF Profile, PauseProfile, ResumeProfile, UpdateProfile, Elsewhere,
                WriteSendingState, BlockHirer, vars, accountVars, offerVars
  <2> QED BY <2>1
<1> QED BY <1>1, <1>2, <1>3, <1>4, <1>5, <1>6 DEF Next

\* From the commit of a freeze, a ban or a Block nothing more of his is written,
\* whatever send had begun before it (offers/index.ts:201-236).
THEOREM NothingPastAFreezeOrBlock == Spec => NoOfferPastAFreezeOrBlock
<1>1. ASSUME OfferInv, SendInv, [Next]_vars
      PROVE  \A o \in Offers :
               offerState[o] = "unsent" /\ offerState'[o] # "unsent" =>
                 /\ offerSendingState[sender'[o]] = "active"
                 /\ <<addressee'[o], sender'[o]>> \notin block
  <2>1. CASE \E r \in Requests : SendWrite(r)
    <3>1. PICK r \in Requests : SendWrite(r)
      BY <2>1
    <3>2. PICK p \in Offers : /\ offerState' = [offerState EXCEPT ![p] = InitialOfferState]
                             /\ sender' = [sender EXCEPT ![p] = job[r].caller]
                             /\ addressee' = [addressee EXCEPT ![p] = job[r].profile]
      BY <3>1 DEF SendWrite
    <3>3. /\ offerSendingState[job[r].caller] = "active"
          /\ <<job[r].profile, job[r].caller>> \notin block
      BY <1>1, <3>1 DEF SendWrite, SendInv, SenderIsActive, ScreenStillHolds, SendTx
    <3> QED BY <1>1, <3>2, <3>3 DEF OfferInv, TypeOK
  <2>2. CASE ~\E r \in Requests : SendWrite(r)
    BY <1>1, <2>2, OnlySendWrites
  <2> QED BY <2>1, <2>2
<1> QED
  BY OfferInvariant, SendInvariant, <1>1, PTL DEF Spec, NoOfferPastAFreezeOrBlock

\* The name a Worker may already have read does not change under her
\* (offers/index.ts:361-376).
THEOREM NameStands == Spec => NameIsWrittenOnce
<1>1. ASSUME OfferInv, SendInv, [Next]_vars
      PROVE  \A a \in Accounts : hirerName[a] # None => hirerName'[a] = hirerName[a]
  <2>1. CASE \E r \in Requests : SendWrite(r)
    <3>1. PICK r \in Requests : SendWrite(r)
      BY <2>1
    <3>2. job[r].first => hirerName[job[r].caller] = None
      BY <1>1, <3>1
      DEF SendWrite, OfferInv, RequestInv, JobsAreWhole, SendTx,
          SendInv, ScreenStillHolds, ConsentBehindEveryOffer
    <3> QED BY <1>1, <3>1, <3>2 DEF SendWrite, NameAfter, OfferInv, TypeOK
  <2>2. CASE ~\E r \in Requests : SendWrite(r)
    BY <1>1, <2>2, OnlySendWrites
  <2> QED BY <2>1, <2>2
<1> QED
  BY OfferInvariant, SendInvariant, <1>1, PTL DEF Spec, NameIsWrittenOnce

-----------------------------------------------------------------------------
(* What the emails and the pages say *)

LEMMA MailInvInit == Init => MailInv
BY DEF Init, MailInv, CopiesOnTheirWay, CopySentWasMailed, MailMatchesThePage,
       PendingCopyIsExplained, AnswerTx

\* A step that writes no exchange and sends no copy: whoever leaves `copying`
\* has recorded both, or has faulted.
LEMMA MailFrame ==
  ASSUME MailInv, UNCHANGED contactExchange, outbox \subseteq outbox',
         \A m \in outbox' : m \in outbox \/ m.kind = "offer-delivered",
         faults > 0 => faults' > 0,
         \A q \in Requests :
           pc'[q] \in AnswerTx \cup {"copying"} =>
             \/ pc'[q] = pc[q] /\ job'[q] = job[q]
             \/ pc'[q] \in AnswerTx /\ job'[q].progress = [s \in Sides |-> "unsent"],
         \A q \in Requests :
           pc[q] = "copying" =>
             \/ pc'[q] = pc[q] /\ job'[q] = job[q]
             \/ faults' > 0
             \/ BothRecorded(job[q].progress)
  PROVE  MailInv'
<1>1. CopiesOnTheirWay'
  BY DEF MailInv, CopiesOnTheirWay, AnswerTx
<1>2. CopySentWasMailed'
  BY DEF MailInv, CopySentWasMailed
<1>3. MailMatchesThePage'
  BY DEF MailInv, MailMatchesThePage
<1>4. PendingCopyIsExplained'
  BY DEF MailInv, PendingCopyIsExplained, BothRecorded
<1> QED BY <1>1, <1>2, <1>3, <1>4 DEF MailInv

LEMMA AcceptKeepsMail ==
  ASSUME OfferInv, MailInv, NEW r \in Requests, Accept(r)
  PROVE  MailInv'
<1> DEFINE o == job[r].subject
<1>1. o \in Offers /\ offerState[o] = "delivered" /\ contactExchange[o] = None
  BY UnderTheLock DEF Accept, OfferTx, AnswerTx
<1>2. /\ pc'[r] = "copying" /\ job'[r].subject = o /\ job'[r].snapshot = SnapshotFor(o)
      /\ job'[r].progress = [s \in Sides |-> "unsent"]
  <2>1. job[r] \in Jobs /\ job[r].progress = [s \in Sides |-> "unsent"]
    BY DEF Accept, OfferInv, TypeOK, MailInv, CopiesOnTheirWay, AnswerTx
  <2>2. job'[r] = [job[r] EXCEPT !.snapshot = SnapshotFor(o)] /\ pc'[r] = "copying"
    BY DEF Accept, OfferInv, TypeOK
  <2> QED BY <2>1, <2>2 DEF Jobs
<1>3. /\ \A q \in Requests : q # r => pc'[q] = pc[q] /\ job'[q] = job[q]
      /\ UNCHANGED <<outbox, faults>>
  BY DEF Accept, OfferInv, TypeOK
<1>4. /\ contactExchange'[o] = ExchangeFor(o)
      /\ \A p \in Offers : p # o => contactExchange'[p] = contactExchange[p]
  BY <1>1 DEF Accept, OfferInv, TypeOK
<1>5. CopiesOnTheirWay'
  <2>1. ASSUME NEW q \in Requests, pc[q] = "copying"
        PROVE  job[q].subject \in Offers /\ job[q].subject # o
    BY <1>1, <2>1 DEF OfferInv, RequestInv, JobsAreWhole, MoveStillPermitted
  <2>2. contactExchange'[o].snapshot = SnapshotFor(o)
    BY <1>4 DEF ExchangeFor
  <2> QED
    BY <1>2, <1>3, <1>4, <2>1, <2>2 DEF MailInv, CopiesOnTheirWay, AnswerTx
<1>6. CopySentWasMailed'
  <2>1. \A s \in Sides : contactExchange'[o].copy[s] = "pending"
    BY <1>4 DEF ExchangeFor
  <2> QED BY <1>3, <1>4, <2>1 DEF MailInv, CopySentWasMailed
<1>7. MailMatchesThePage'
  <2>1. ASSUME NEW m \in outbox, m.kind = "contact-exchange"
        PROVE  m.offer \in Offers /\ m.offer # o
    <3>1. m.offer \in Offers
      BY <2>1 DEF OfferInv, TypeOK, Mails
    <3> QED BY <1>1, <2>1, <3>1 DEF MailInv, MailMatchesThePage
  <2> QED BY <1>3, <1>4, <2>1 DEF MailInv, MailMatchesThePage
<1>8. PendingCopyIsExplained'
  <2>1. ASSUME NEW p \in Offers, NEW s \in Sides, p # o,
               contactExchange'[p] # None, contactExchange'[p].copy[s] = "pending",
               ~(faults' > 0)
        PROVE  \E q \in Requests : /\ pc'[q] = "copying" /\ job'[q].subject = p
                                   /\ job'[q].progress[s] # "recorded"
    <3>1. PICK q \in Requests : /\ pc[q] = "copying" /\ job[q].subject = p
                               /\ job[q].progress[s] # "recorded"
      BY <1>3, <1>4, <2>1 DEF MailInv, PendingCopyIsExplained
    <3>2. q # r
      BY <3>1 DEF Accept
    <3> QED BY <1>3, <3>1, <3>2
  <2>2. \A s \in Sides : job'[r].progress[s] # "recorded"
    BY <1>2
  <2> QED BY <1>2, <2>1, <2>2 DEF PendingCopyIsExplained
<1> QED BY <1>5, <1>6, <1>7, <1>8 DEF MailInv

\* What a step of a copy does to the request that takes it.
LEMMA ProgressOfOne ==
  ASSUME TypeOK, NEW r \in Requests, NEW s \in Sides, NEW v \in CopyProgress,
         job' = [job EXCEPT ![r].progress[s] = v]
  PROVE  /\ \A q \in Requests : q # r => job'[q] = job[q]
         /\ job'[r].subject = job[r].subject /\ job'[r].snapshot = job[r].snapshot
         /\ job'[r].progress[s] = v
         /\ \A t \in Sides : t # s => job'[r].progress[t] = job[r].progress[t]
<1>1. job[r] \in Jobs /\ \A q \in Requests : q # r => job'[q] = job[q]
  BY DEF TypeOK
<1>2. job'[r] = [job[r] EXCEPT !.progress = [job[r].progress EXCEPT ![s] = v]]
  BY DEF TypeOK
<1> QED BY <1>1, <1>2 DEF Jobs

LEMMA SendCopyKeepsMail ==
  ASSUME OfferInv, MailInv, NEW r \in Requests, NEW s \in Sides, SendCopy(r, s)
  PROVE  MailInv'
<1> DEFINE o == job[r].subject
           m0 == [kind |-> "contact-exchange", offer |-> o, side |-> s,
                  about |-> contactExchange[o].snapshot]
<1>1. /\ o \in Offers /\ contactExchange[o] # None
      /\ job[r].snapshot = contactExchange[o].snapshot
  BY DEF SendCopy, OfferInv, RequestInv, JobsAreWhole, MoveStillPermitted, RowInv,
         ExchangeIffAccepted, MailInv, CopiesOnTheirWay
<1>2. UNCHANGED <<pc, contactExchange, faults>>
  BY DEF SendCopy, recordVars
<1>3. PICK v \in {"sent", "failed"} :
        /\ job' = [job EXCEPT ![r].progress[s] = v]
        /\ outbox' = outbox \/ outbox' = outbox \cup {m0}
        /\ v = "sent" => m0 \in outbox'
  BY <1>1 DEF SendCopy, CopyOf, UnansweredOutcome
<1>4. /\ \A q \in Requests : q # r => job'[q] = job[q]
      /\ job'[r].subject = o /\ job'[r].snapshot = job[r].snapshot
      /\ job'[r].progress[s] = v
      /\ \A t \in Sides : t # s => job'[r].progress[t] = job[r].progress[t]
  BY <1>3, ProgressOfOne DEF OfferInv, CopyProgress
<1>5. CopiesOnTheirWay'
  <2>1. pc[r] = "copying"
    BY DEF SendCopy
  <2>2. \A t \in Sides : job'[r].progress[t] = "sent" =>
          [kind |-> "contact-exchange", offer |-> o, side |-> t,
           about |-> contactExchange[o].snapshot] \in outbox'
    BY <1>3, <1>4, <2>1 DEF MailInv, CopiesOnTheirWay
  <2> HIDE DEF m0
  <2> QED
    BY <1>1, <1>2, <1>3, <1>4, <2>1, <2>2 DEF MailInv, CopiesOnTheirWay, AnswerTx
<1>6. CopySentWasMailed'
  BY <1>2, <1>3 DEF MailInv, CopySentWasMailed
<1>7. MailMatchesThePage'
  BY <1>1, <1>2, <1>3 DEF MailInv, MailMatchesThePage
<1>8. PendingCopyIsExplained'
  BY <1>2, <1>4 DEF SendCopy, MailInv, PendingCopyIsExplained
<1> QED BY <1>5, <1>6, <1>7, <1>8 DEF MailInv

LEMMA RecordCopyKeepsMail ==
  ASSUME OfferInv, MailInv, NEW r \in Requests, NEW s \in Sides, RecordCopy(r, s)
  PROVE  MailInv'
<1> DEFINE o == job[r].subject
           v == job[r].progress[s]
<1>1. o \in Offers /\ contactExchange[o] \in Exchanges /\ pc[r] = "copying"
  BY DEF RecordCopy, OfferInv, TypeOK, RequestInv, JobsAreWhole, MoveStillPermitted,
         RowInv, ExchangeIffAccepted
<1>2. UNCHANGED <<pc, outbox, faults>> /\ v \in {"sent", "failed"}
  BY DEF RecordCopy
<1>3. /\ \A q \in Requests : q # r => job'[q] = job[q]
      /\ job'[r].subject = o /\ job'[r].snapshot = job[r].snapshot
      /\ job'[r].progress[s] = "recorded"
      /\ \A t \in Sides : t # s => job'[r].progress[t] = job[r].progress[t]
  <2>1. job' = [job EXCEPT ![r].progress[s] = "recorded"] /\ "recorded" \in CopyProgress
    BY DEF RecordCopy, CopyProgress
  <2>2. TypeOK
    BY DEF OfferInv
  <2> QED BY <2>1, <2>2, ProgressOfOne
<1>4. /\ \A p \in Offers : p # o => contactExchange'[p] = contactExchange[p]
      /\ contactExchange'[o].snapshot = contactExchange[o].snapshot
      /\ contactExchange'[o].copy[s] = v
      /\ \A t \in Sides : t # s => contactExchange'[o].copy[t] = contactExchange[o].copy[t]
  <2>1. contactExchange' = [contactExchange EXCEPT ![o] =
          [contactExchange[o] EXCEPT !.copy = [contactExchange[o].copy EXCEPT ![s] = v]]]
    BY DEF RecordCopy
  <2>2. contactExchange[o].copy \in [Sides -> CopyStates]
    BY <1>1 DEF Exchanges
  <2> QED BY <1>1, <2>1, <2>2 DEF OfferInv, TypeOK, Exchanges
<1>5. \A p \in Offers : (contactExchange'[p] # None) <=> (contactExchange[p] # None)
  <2>1. ExchangeIffAccepted /\ ExchangeIffAccepted' /\ UNCHANGED offerState
    BY RecordCopyKeeps DEF RecordCopy, OfferInv, RowInv, offerVars
  <2> QED BY <2>1 DEF ExchangeIffAccepted
<1>6. CopiesOnTheirWay'
  <2>1. \A q \in Requests : pc[q] = "copying" => job[q].subject \in Offers
    BY DEF OfferInv, RequestInv, JobsAreWhole
  <2>2. \A q \in Requests : pc[q] = "copying" =>
          /\ job'[q].subject = job[q].subject /\ job'[q].snapshot = job[q].snapshot
          /\ contactExchange'[job[q].subject].snapshot = contactExchange[job[q].subject].snapshot
          /\ \A t \in Sides : job'[q].progress[t] = "sent" => job[q].progress[t] = "sent"
    BY <1>3, <1>4, <2>1
  <2>3. \A q \in Requests : pc[q] \in AnswerTx => job'[q] = job[q]
    BY <1>1, <1>3 DEF AnswerTx
  <2> QED BY <1>2, <2>2, <2>3 DEF MailInv, CopiesOnTheirWay
<1>7. CopySentWasMailed'
  <2>1. v = "sent" => [kind |-> "contact-exchange", offer |-> o, side |-> s,
                       about |-> contactExchange[o].snapshot] \in outbox
    BY <1>1 DEF MailInv, CopiesOnTheirWay
  <2> QED BY <1>2, <1>4, <1>5, <2>1 DEF MailInv, CopySentWasMailed
<1>8. MailMatchesThePage'
  <2>1. \A m \in outbox : m.kind = "contact-exchange" => m.offer \in Offers
    BY DEF OfferInv, TypeOK, Mails
  <2> QED BY <1>2, <1>4, <1>5, <2>1 DEF MailInv, MailMatchesThePage
<1>9. PendingCopyIsExplained'
  BY <1>2, <1>3, <1>4, <1>5 DEF MailInv, PendingCopyIsExplained
<1> QED BY <1>6, <1>7, <1>8, <1>9 DEF MailInv

LEMMA RecordCopyFailsKeepsMail ==
  ASSUME OfferInv, MailInv, NEW r \in Requests, NEW s \in Sides, RecordCopyFails(r, s)
  PROVE  MailInv'
<1>1. UNCHANGED <<pc, outbox, contactExchange>> /\ faults' > 0
  BY DEF RecordCopyFails, recordVars, OfferInv, TypeOK
<1>2. /\ \A q \in Requests : q # r => job'[q] = job[q]
      /\ job'[r].subject = job[r].subject /\ job'[r].snapshot = job[r].snapshot
      /\ job'[r].progress[s] = "recorded"
      /\ \A t \in Sides : t # s => job'[r].progress[t] = job[r].progress[t]
  <2>1. job' = [job EXCEPT ![r].progress[s] = "recorded"] /\ "recorded" \in CopyProgress
    BY DEF RecordCopyFails, CopyProgress
  <2>2. TypeOK
    BY DEF OfferInv
  <2> QED BY <2>1, <2>2, ProgressOfOne
<1>3. CopiesOnTheirWay'
  BY <1>1, <1>2 DEF RecordCopyFails, MailInv, CopiesOnTheirWay, AnswerTx
<1>4. CopySentWasMailed' /\ MailMatchesThePage'
  BY <1>1 DEF MailInv, CopySentWasMailed, MailMatchesThePage
<1>5. PendingCopyIsExplained'
  BY <1>1 DEF PendingCopyIsExplained
<1> QED BY <1>3, <1>4, <1>5 DEF MailInv

\* A step of a request that is not at its copies and does not come to them.
LEMMA ElsewhereThanCopies ==
  ASSUME OfferInv, MailInv, NEW r \in Requests, pc[r] # "copying",
         pc'[r] \in AnswerTx => job'[r].progress = [s \in Sides |-> "unsent"],
         pc'[r] # "copying",
         \A q \in Requests : q # r => pc'[q] = pc[q] /\ job'[q] = job[q],
         UNCHANGED contactExchange, outbox \subseteq outbox',
         \A m \in outbox' : m \in outbox \/ m.kind = "offer-delivered",
         faults > 0 => faults' > 0
  PROVE  MailInv'
BY MailFrame DEF AnswerTx

LEMMA SendKeepsMail ==
  ASSUME OfferInv, MailInv, NEW r \in Requests, Send(r)
  PROVE  MailInv'
<1>1. /\ pc[r] \in SendTx \cup {"idle", "posted"}
      /\ pc'[r] \in SendTx \cup {"idle", "posted"}
      /\ \A q \in Requests : q # r => pc'[q] = pc[q] /\ job'[q] = job[q]
  <2>1. TypeOK
    BY DEF OfferInv
  <2>2. CASE Finish(r)
    <3>1. pc[r] \in SendTx \cup {"idle", "posted"}
      BY DEF Send, SendPost, SendLock, SendAddress, SendScreen, SendWrite, SendStale, SendTx
    <3> QED BY <2>1, <2>2, <3>1, FinishLeavesTheOthers
  <2>3. CASE Goto(r, "locked") /\ pc[r] = "posted"
    BY <2>1, <2>3 DEF Goto, TypeOK, SendTx
  <2>4. CASE Goto(r, "addressed") /\ pc[r] = "locked"
    BY <2>1, <2>4 DEF Goto, TypeOK, SendTx
  <2>5. CASE /\ pc[r] = "addressed" /\ pc' = [pc EXCEPT ![r] = "screened"]
             /\ job' = [job EXCEPT ![r].first = IsFirst(job[r])]
    BY <2>1, <2>5 DEF TypeOK, SendTx
  <2>6. CASE \E h \in Accounts, w \in Workers : SendPost(r, h, w)
    BY <2>1, <2>6 DEF SendPost, TypeOK, SendTx
  <2> QED
    BY <2>2, <2>3, <2>4, <2>5, <2>6
    DEF Send, SendLock, SendAddress, SendScreen, SendWrite, SendStale
<1>2. UNCHANGED <<contactExchange, outbox, faults>>
  BY DEF Send, SendPost, SendLock, SendAddress, SendScreen, SendWrite, SendStale, recordVars
<1> QED BY <1>1, <1>2, ElsewhereThanCopies DEF SendTx, AnswerTx

LEMMA AnswerKeepsMail ==
  ASSUME OfferInv, MailInv, NEW r \in Requests, Answer(r)
  PROVE  MailInv'
<1>1. ASSUME NEW w \in Workers, NEW o \in Offers, NEW tx \in AnswerTx, AnswerLock(r, w, o, tx)
      PROVE  MailInv'
  <2>1. /\ pc[r] = "idle" /\ pc'[r] = tx
        /\ job'[r] = [NoJob EXCEPT !.caller = w, !.subject = o]
        /\ \A q \in Requests : q # r => pc'[q] = pc[q] /\ job'[q] = job[q]
        /\ UNCHANGED <<contactExchange, outbox, faults>>
    BY <1>1 DEF AnswerLock, OfferInv, TypeOK, recordVars
  <2>2. job'[r].progress = [s \in Sides |-> "unsent"]
    BY <2>1 DEF NoJob
  <2> QED BY <2>1, <2>2, ElsewhereThanCopies DEF AnswerTx
<1>2. CASE Decline(r)
  <2>1. /\ pc'[r] = "idle"
        /\ \A q \in Requests : q # r => pc'[q] = pc[q] /\ job'[q] = job[q]
    BY <1>2, FinishLeavesTheOthers DEF Decline, OfferInv
  <2>2. pc[r] = "declining" /\ UNCHANGED <<contactExchange, outbox, faults>>
    BY <1>2 DEF Decline, recordVars
  <2> QED BY <2>1, <2>2, ElsewhereThanCopies DEF AnswerTx
<1> QED BY <1>1, <1>2, AcceptKeepsMail DEF Answer

LEMMA DecideKeepsMail ==
  ASSUME OfferInv, MailInv, NEW r \in Requests, Decide(r)
  PROVE  MailInv'
<1>1. /\ pc[r] \in DecisionTx \cup {"idle", "notifying"}
      /\ pc'[r] \in DecisionTx \cup {"idle", "notifying"}
      /\ \A q \in Requests : q # r => pc'[q] = pc[q] /\ job'[q] = job[q]
  <2>1. TypeOK
    BY DEF OfferInv
  <2>2. CASE Reject(r) \/ Notify(r)
    BY <2>1, <2>2, FinishLeavesTheOthers DEF Reject, Notify, DecisionTx
  <2>3. CASE Deliver(r)
    BY <2>1, <2>3 DEF Deliver, Goto, TypeOK, DecisionTx
  <2>4. CASE \E o \in Offers, tx \in DecisionTx : DecideLock(r, o, tx)
    BY <2>1, <2>4 DEF DecideLock, TypeOK
  <2> QED BY <2>2, <2>3, <2>4 DEF Decide
<1>2. /\ UNCHANGED <<contactExchange, faults>>
      /\ outbox \subseteq outbox'
      /\ \A m \in outbox' : m \in outbox \/ m.kind = "offer-delivered"
  BY DEF Decide, DecideLock, Deliver, Reject, Notify, recordVars
<1> QED BY <1>1, <1>2, ElsewhereThanCopies DEF DecisionTx, AnswerTx

\* Whoever leaves its copies has recorded both, or has faulted.
LEMMA LeavingCopiesKeepsMail ==
  ASSUME OfferInv, MailInv, NEW r \in Requests, CopiesDone(r) \/ Crash(r)
  PROVE  MailInv'
<1>1. /\ pc'[r] = "idle"
      /\ \A q \in Requests : q # r => pc'[q] = pc[q] /\ job'[q] = job[q]
  BY FinishLeavesTheOthers DEF CopiesDone, Crash, OfferInv
<1>2. UNCHANGED <<contactExchange, outbox>>
  BY DEF CopiesDone, Crash, recordVars
<1>3. /\ faults > 0 => faults' > 0
      /\ faults' > 0 \/ BothRecorded(job[r].progress)
  BY DEF CopiesDone, Crash, OfferInv, TypeOK
<1> QED BY <1>1, <1>2, <1>3, MailFrame DEF AnswerTx

LEMMA MailInvStep ==
  ASSUME OfferInv, MailInv, [Next]_vars
  PROVE  MailInv'
<1>1. ASSUME NEW r \in Requests, Copy(r) PROVE MailInv'
  BY <1>1, SendCopyKeepsMail, RecordCopyKeepsMail, RecordCopyFailsKeepsMail,
     LeavingCopiesKeepsMail DEF Copy
<1>2. CASE (\E w \in Workers : Profile(w)) \/ Elsewhere \/ UNCHANGED vars
  <2>1. UNCHANGED <<pc, job, contactExchange, outbox, faults>>
    BY <1>2 DEF Profile, PauseProfile, ResumeProfile, UpdateProfile, Elsewhere,
                WriteSendingState, BlockHirer, vars, recordVars, requestVars
  <2> QED BY <2>1, MailFrame
<1> QED
  BY <1>1, <1>2, SendKeepsMail, AnswerKeepsMail, DecideKeepsMail, LeavingCopiesKeepsMail
  DEF Next

THEOREM MailInvariant == Spec => []MailInv
<1>1. OfferInv /\ MailInv /\ [Next]_vars => MailInv'
  BY MailInvStep
<1> QED BY OfferInvariant, MailInvInit, <1>1, PTL DEF Spec

\* The page says a copy was sent only when the transport has it
\* (sendCopy, deliver-exchange.tsx:48-85).
THEOREM SentMeansMailed == Spec => []CopySentWasMailed
<1>1. MailInv => CopySentWasMailed
  BY DEF MailInv
<1> QED BY MailInvariant, <1>1, PTL

\* What left in an email is what the two pages show, whatever was edited since
\* (writeExchange, exchange/index.ts:64-130).
THEOREM MailIsThePage == Spec => []MailMatchesThePage
<1>1. MailInv => MailMatchesThePage
  BY DEF MailInv
<1> QED BY MailInvariant, <1>1, PTL

\* A copy is left `pending` by a fault or by a request that is still at it, and
\* by nothing else (deliver-exchange.tsx:95-102).
THEOREM PendingIsExplained == Spec => []PendingCopyIsExplained
<1>1. MailInv => PendingCopyIsExplained
  BY DEF MailInv
<1> QED BY MailInvariant, <1>1, PTL

\* The inductive invariant, of every transaction of the Offers and the exchange
\* and of the copies that follow an accept.
THEOREM ExchangeInvariant == Spec => []ExchangeInv
<1>1. OfferInv /\ SendInv /\ MailInv => ExchangeInv
  BY DEF ExchangeInv
<1> QED BY OfferInvariant, SendInvariant, MailInvariant, <1>1, PTL

=============================================================================
