----------------------------- MODULE OfferStates -----------------------------
(***************************************************************************)
(* The registry of states an Offer can be in and the moves the product     *)
(* has (packages/domain/src/policy/offer-states.ts).  Pure definitions: no *)
(* clock, no connection.                                                   *)
(***************************************************************************)

OfferStateNames ==
  {"pending_review", "on_hold", "delivered", "accepted", "declined",
   "expired", "rejected_by_admin", "reported"}

InitialOfferState == "pending_review"

PendingOfferStates == {"pending_review", "on_hold"}

ReceivedOfferStates == {"delivered", "accepted", "declined", "expired"}

\* The whitelist: whatever is absent from it is refused.
PermittedTransitions ==
  [pending_review    |-> {"delivered", "on_hold", "rejected_by_admin"},
   on_hold           |-> {"pending_review", "rejected_by_admin"},
   delivered         |-> {"accepted", "declined", "expired", "reported"},
   accepted          |-> {},
   declined          |-> {},
   expired           |-> {},
   rejected_by_admin |-> {},
   reported          |-> {}]

MayTransitionOffer(from, to) == to \in PermittedTransitions[from]

IsTerminalOfferState(state) == PermittedTransitions[state] = {}

=============================================================================
