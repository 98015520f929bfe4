----------------------- MODULE OfferExchangeInvariant -----------------------
(***************************************************************************)
(* The inductive invariant behind the safety of OfferExchange.  Its        *)
(* properties are not inductive as they stand: an Accept keeps the         *)
(* exchange and the state together only because the state it read under    *)
(* its row lock cannot have moved since, and a send writes his name once   *)
(* only because nobody else can be between its own reads and its write.    *)
(***************************************************************************)
EXTENDS OfferExchange

\* What a request reads at its next step is there to be read.
JobsAreWhole ==
  \A r \in Requests :
    /\ pc[r] \in SendTx \cup {"posted"} =>
         job[r].caller \in Accounts /\ job[r].profile \in Workers
    /\ pc[r] \in OfferTx \cup {"copying", "notifying"} => job[r].subject \in Offers
    /\ pc[r] = "copying" => job[r].snapshot \in Snapshots

\* NOT NULL on both of an Offer's foreign keys.
RowsAreWhole ==
  \A o \in Offers :
    IF offerState[o] = "unsent"
      THEN sender[o] = None /\ addressee[o] = None
      ELSE sender[o] \in Accounts /\ addressee[o] \in Workers

\* An Offer row has one transaction inside at a time.
OneHolder ==
  \A r, q \in Requests :
    pc[r] \in OfferTx /\ pc[q] \in OfferTx /\ job[r].subject = job[q].subject => r = q

\* The move a transaction was granted beneath its lock is still permitted, and
\* an accept is never undone while its copies are on their way.
MoveStillPermitted ==
  \A r \in Requests :
    LET state == offerState[job[r].subject] IN
    /\ pc[r] \in AnswerTx =>
         state # "unsent" /\ MayTransitionOffer(state, AnswerMove[pc[r]])
    /\ pc[r] \in DecisionTx =>
         state # "unsent" /\ MayTransitionOffer(state, DecisionMove[pc[r]])
    /\ pc[r] = "copying" => state = "accepted"

\* OfferLifecycle's reading of delivered_at, on the detailed state.
StampedIffReceived ==
  \A o \in Offers :
    (o \in deliveredAt) <=> (offerState[o] \in ReceivedOfferStates \cup {"reported"})

RowInv ==
  /\ RowsAreWhole
  /\ StampedIffReceived
  /\ ExchangeIffAccepted
  /\ CountMatchesDeliveries
  /\ DecisionsAreAudited

RequestInv == JobsAreWhole /\ OneHolder /\ MoveStillPermitted

OfferInv == TypeOK /\ RowInv /\ RequestInv
-----------------------------------------------------------------------------
\* A Hirer's row has one send inside at a time, and while it is there nothing
\* that the send read beneath the lock can have become untrue.
OneSender ==
  \A r, q \in Requests :
    pc[r] \in SendTx /\ pc[q] \in SendTx /\ job[r].caller = job[q].caller => r = q

SenderIsActive ==
  \A r \in Requests : pc[r] \in SendTx => offerSendingState[job[r].caller] = "active"

ScreenStillHolds ==
  \A r \in Requests :
    pc[r] = "screened" =>
      /\ <<job[r].profile, job[r].caller>> \notin block
      /\ job[r].first <=> (job[r].caller \notin consent)
      /\ job[r].first => job[r].identity # None

SendInv == OneSender /\ SenderIsActive /\ ScreenStillHolds /\ ConsentBehindEveryOffer
-----------------------------------------------------------------------------
\* The copies on their way carry what the row holds, and are marked sent only
\* once the transport has them.
CopiesOnTheirWay ==
  \A r \in Requests :
    LET o == job[r].subject IN
    /\ pc[r] \in AnswerTx => job[r].progress = [s \in Sides |-> "unsent"]
    /\ pc[r] = "copying" =>
         /\ job[r].snapshot = contactExchange[o].snapshot
         /\ \A s \in Sides : job[r].progress[s] = "sent" =>
              [kind |-> "contact-exchange", offer |-> o, side |-> s,
               about |-> contactExchange[o].snapshot] \in outbox

MailInv ==
  /\ CopiesOnTheirWay
  /\ CopySentWasMailed
  /\ MailMatchesThePage
  /\ PendingCopyIsExplained
-----------------------------------------------------------------------------
\* The whole of it, each part inductive relative to the ones before: no request
\* acts on what its locks no longer hold, and no copy on what the row no longer
\* says.
ExchangeInv == OfferInv /\ SendInv /\ MailInv
=============================================================================
