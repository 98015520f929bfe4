---------------------------- MODULE OfferLifecycle ----------------------------
(***************************************************************************)
(* What the product promises about one Offer, said without transactions,   *)
(* locks, requests or crashes: an Offer is submitted once, moves only      *)
(* along the permitted transitions, and the two parties' details cross     *)
(* exactly when it is accepted, in that same step.  OfferExchange is the   *)
(* detailed specification shown to implement this one.                     *)
(*                                                                         *)
(* The table holds moves whose writers the repository does not have yet    *)
(* (holding, expiring and reporting an Offer); the promise covers them.    *)
(***************************************************************************)
EXTENDS OfferStates

CONSTANT Offers

VARIABLES
  life,         \* offer.state, or "unsent" where there is no row
  deliveredAt,  \* the Offers whose delivered_at is stamped
  crossed       \* the Offers a ContactExchange row was written for

lifecycleVars == <<life, deliveredAt, crossed>>

Init ==
  /\ life = [o \in Offers |-> "unsent"]
  /\ deliveredAt = {}
  /\ crossed = {}

Submit(o) ==
  /\ life[o] = "unsent"
  /\ life' = [life EXCEPT ![o] = InitialOfferState]
  /\ UNCHANGED <<deliveredAt, crossed>>

Stamped(o, to) == IF to = "delivered" THEN deliveredAt \cup {o} ELSE deliveredAt

Crossing(o, to) == IF to = "accepted" THEN crossed \cup {o} ELSE crossed

Move(o, to) ==
  /\ life[o] # "unsent"
  /\ MayTransitionOffer(life[o], to)
  /\ life' = [life EXCEPT ![o] = to]
  /\ deliveredAt' = Stamped(o, to)
  /\ crossed' = Crossing(o, to)

Next == \E o \in Offers : Submit(o) \/ \E to \in OfferStateNames : Move(o, to)

Spec == Init /\ [][Next]_lifecycleVars
-----------------------------------------------------------------------------
\* Every state has one of the registry's names, and only submitted Offers
\* are stamped or crossed (offer-states.ts, the CHECKs of schema.ts).
LifecycleTypeOK ==
  /\ life \in [Offers -> OfferStateNames \cup {"unsent"}]
  /\ deliveredAt \subseteq Offers
  /\ crossed \subseteq Offers

\* The claim of offer-states.ts:83-85: a received Offer is one that was
\* delivered, and the two readings ("state is received", "delivered_at is
\* stamped") disagree about nothing but `reported`.
ReceivedIsStampedButForReports ==
  \A o \in Offers :
    (o \in deliveredAt) <=> (life[o] \in ReceivedOfferStates \cup {"reported"})

\* Details cross for accepted Offers and for no other: no transition leads
\* away from `accepted`, so a crossing is never followed by another answer.
CrossedIsAccepted == \A o \in Offers : (o \in crossed) <=> (life[o] = "accepted")

\* What an Offer's row and its exchange say of each other after any moves, as
\* one inductive invariant: what is stamped and what has crossed follow the state.
LifecycleInv ==
  /\ LifecycleTypeOK
  /\ ReceivedIsStampedButForReports
  /\ CrossedIsAccepted

\* An Offer never returns to review once a Worker has it or an Admin refused
\* it, however long the sequence of moves (offer-states.ts:118-137).
NoWayBackToReview ==
  [][\A o \in Offers :
       life[o] \notin PendingOfferStates \cup {"unsent"} =>
         life'[o] \notin PendingOfferStates]_lifecycleVars

=============================================================================
