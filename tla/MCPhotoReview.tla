---------------------------- MODULE MCPhotoReview ----------------------------
(***************************************************************************)
(* PhotoReview for TLC.  The instance is one of two, chosen at the start:    *)
(* two Accounts whose uploads are attached, decided and lost against one    *)
(* another, or one Account whose objects are written over meanwhile.        *)
(* Workers, public keys and requests are interchangeable where only a set   *)
(* of them is given: nothing in the module or its properties orders them.   *)
(***************************************************************************)
EXTENDS PhotoReviewInvariant, TLC

CONSTANTS
  first,  \* the Account of the instance that has one
  this    \* what every object holds where none is written over

VARIABLE instance
mcVars == <<photoVars, instance>>

Symmetry == Permutations(PublicKeys) \cup Permutations(Requests)

MCInit == Init /\ instance \in {"races", "rewritten"}

\* At most one crash, and nothing written over.
Races ==
  /\ faults' <= 1 /\ rewrites' = rewrites
  /\ \A k \in Keys : quarantine'[k] \in {this, None}

\* One Account, and no object is collected.
Rewritten ==
  /\ published' \subseteq {first} /\ \A k \in Keys : mintedFor'[k] \in {first, None}
  /\ collected' = {}

MCNext ==
  /\ Next
  /\ instance = "races" => Races
  /\ instance = "rewritten" => Rewritten
  /\ UNCHANGED instance

MCSpec == MCInit /\ [][MCNext]_mcVars
=============================================================================
