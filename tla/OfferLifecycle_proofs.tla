----------------------- MODULE OfferLifecycle_proofs -----------------------
(***************************************************************************)
(* Proofs about the promise itself.  With OfferLifecycleIsImplemented they *)
(* hold of every behaviour of OfferExchange.                               *)
(***************************************************************************)
EXTENDS OfferLifecycle, TLAPS

LEMMA InvInit == Init => LifecycleInv
BY DEF Init, LifecycleInv, LifecycleTypeOK, ReceivedIsStampedButForReports, CrossedIsAccepted,
       ReceivedOfferStates

LEMMA SubmitKeeps ==
  ASSUME LifecycleInv, NEW o \in Offers, Submit(o)
  PROVE  LifecycleInv'
BY DEF Submit, LifecycleInv, LifecycleTypeOK, ReceivedIsStampedButForReports, CrossedIsAccepted,
       ReceivedOfferStates, OfferStateNames, InitialOfferState

\* A received Offer has been stamped, and no move leads out of `accepted`.
LEMMA MoveKeeps ==
  ASSUME LifecycleInv, NEW o \in Offers, NEW to \in OfferStateNames, Move(o, to)
  PROVE  LifecycleInv'
<1>1. /\ life[o] \in OfferStateNames /\ to \in PermittedTransitions[life[o]]
      /\ life' = [life EXCEPT ![o] = to]
      /\ deliveredAt' = IF to = "delivered" THEN deliveredAt \cup {o} ELSE deliveredAt
      /\ crossed' = IF to = "accepted" THEN crossed \cup {o} ELSE crossed
  BY DEF Move, LifecycleInv, LifecycleTypeOK, MayTransitionOffer, Stamped, Crossing
<1>2. LifecycleTypeOK'
  BY <1>1 DEF LifecycleInv, LifecycleTypeOK
<1>3. /\ life[o] # "accepted"
      /\ to \in ReceivedOfferStates \cup {"reported"} =>
           to = "delivered" \/ life[o] = "delivered"
      /\ life[o] = "delivered" => to \in ReceivedOfferStates \cup {"reported"}
      /\ life[o] \in ReceivedOfferStates \cup {"reported"} => life[o] = "delivered"
  BY <1>1 DEF PermittedTransitions, OfferStateNames, ReceivedOfferStates
<1>4. ReceivedIsStampedButForReports'
  BY <1>1, <1>3 DEF LifecycleInv, LifecycleTypeOK, ReceivedIsStampedButForReports, ReceivedOfferStates
<1>5. CrossedIsAccepted'
  BY <1>1, <1>3 DEF LifecycleInv, LifecycleTypeOK, CrossedIsAccepted
<1> QED BY <1>2, <1>4, <1>5 DEF LifecycleInv

\* Type, stamp and exchange hold together in every reachable state.
THEOREM LifecycleInvariant == Spec => []LifecycleInv
<1>1. LifecycleInv /\ [Next]_lifecycleVars => LifecycleInv'
  <2> SUFFICES ASSUME LifecycleInv, [Next]_lifecycleVars PROVE LifecycleInv'
    OBVIOUS
  <2>1. CASE Next
    BY <2>1, SubmitKeeps, MoveKeeps DEF Next
  <2>2. CASE UNCHANGED lifecycleVars
    BY <2>2 DEF lifecycleVars, LifecycleInv, LifecycleTypeOK, ReceivedIsStampedButForReports,
                CrossedIsAccepted
  <2> QED BY <2>1, <2>2
<1> QED BY InvInit, <1>1, PTL DEF Spec

\* Every Offer is in a state the registry names, or was never sent.
THEOREM LifecycleTypeCorrect == Spec => []LifecycleTypeOK
<1>1. LifecycleInv => LifecycleTypeOK
  BY DEF LifecycleInv
<1> QED BY LifecycleInvariant, <1>1, PTL

\* "Received" and "delivered_at is set" are one reading, but for `reported`
\* (offer-states.ts:72-92).
THEOREM ReceivedIsStamped == Spec => []ReceivedIsStampedButForReports
<1>1. LifecycleInv => ReceivedIsStampedButForReports
  BY DEF LifecycleInv
<1> QED BY LifecycleInvariant, <1>1, PTL

\* Details have crossed for the accepted Offers and for no other.
THEOREM CrossedIffAccepted == Spec => []CrossedIsAccepted
<1>1. LifecycleInv => CrossedIsAccepted
  BY DEF LifecycleInv
<1> QED BY LifecycleInvariant, <1>1, PTL

\* What left review never returns to it (offer-states.ts:118-137).
THEOREM ReviewIsNotReentered == Spec => NoWayBackToReview
<1>1. ASSUME LifecycleInv, [Next]_lifecycleVars, NEW o \in Offers,
             life[o] \notin PendingOfferStates \cup {"unsent"}
      PROVE  life'[o] \notin PendingOfferStates
  <2>1. ASSUME NEW p \in Offers, Submit(p)
        PROVE  life'[o] \notin PendingOfferStates
    BY <1>1, <2>1 DEF Submit, LifecycleInv, LifecycleTypeOK
  <2>2. ASSUME NEW p \in Offers, NEW to \in OfferStateNames, Move(p, to)
        PROVE  life'[o] \notin PendingOfferStates
    <3>1. life[p] \in OfferStateNames /\ to \in PermittedTransitions[life[p]]
      BY <1>1, <2>2 DEF Move, MayTransitionOffer, LifecycleInv, LifecycleTypeOK
    <3>2. life'[o] = IF o = p THEN to ELSE life[o]
      BY <1>1, <2>2 DEF Move, LifecycleInv, LifecycleTypeOK
    <3>3. life[p] \notin PendingOfferStates => to \notin PendingOfferStates
      BY <3>1 DEF PermittedTransitions, PendingOfferStates, OfferStateNames
    <3> QED BY <1>1, <3>2, <3>3
  <2>3. CASE UNCHANGED lifecycleVars
    BY <1>1, <2>3 DEF lifecycleVars
  <2> QED BY <1>1, <2>1, <2>2, <2>3 DEF Next
<1>2. ASSUME LifecycleInv, [Next]_lifecycleVars
      PROVE  \A o \in Offers :
               life[o] \notin PendingOfferStates \cup {"unsent"} =>
                 life'[o] \notin PendingOfferStates
  BY <1>1, <1>2
<1> QED BY LifecycleInvariant, <1>2, PTL DEF Spec, NoWayBackToReview

=============================================================================
