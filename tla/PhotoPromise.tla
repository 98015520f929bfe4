------------------------------ MODULE PhotoPromise ------------------------------
(***************************************************************************)
(* What the product promises about photos, said without stores, requests,  *)
(* keys posted back or crashes: an upload is attached at most once and to   *)
(* the profile it was minted for; while it waits nothing is shown; it is    *)
(* shown from the step an Admin decides so, as the bytes that were recorded *)
(* when it was attached, and only if an Admin was shown that upload; and no *)
(* upload is decided twice.  Stores that forget or write over an object do  *)
(* not show here.  PhotoReview is the detailed specification shown to       *)
(* implement this one.                                                      *)
(***************************************************************************)
CONSTANTS
  Workers,   \* Accounts that may have a profile
  Keys,      \* uploads
  Contents,  \* what the object of an upload may hold
  None       \* nothing

VARIABLES
  owner,    \* the Account an upload was minted for, or None
  fresh,    \* uploads that may still be attached
  waiting,  \* the picture each profile has waiting for an Admin, or None
  shown,    \* the picture each profile shows, or None
  seen,     \* uploads an Admin was shown
  verdict   \* what was decided of each upload: "none", "approved" or "rejected"

promiseVars == <<owner, fresh, waiting, shown, seen, verdict>>

Init ==
  /\ owner = [k \in Keys |-> None]
  /\ fresh = {}
  /\ waiting = [w \in Workers |-> None]
  /\ shown = [w \in Workers |-> None]
  /\ seen = {}
  /\ verdict = [k \in Keys |-> "none"]

\* An upload begins; older ones may lapse with it, or by themselves.
Mint(w, k) ==
  /\ owner[k] = None
  /\ owner' = [owner EXCEPT ![k] = w]
  /\ \E lapsed \in SUBSET fresh : fresh' = (fresh \ lapsed) \cup {k}
  /\ UNCHANGED <<waiting, shown, seen, verdict>>

Lapse(k) ==
  /\ k \in fresh
  /\ fresh' = fresh \ {k}
  /\ UNCHANGED <<owner, waiting, shown, seen, verdict>>

\* She picks it, as it is then: whatever waited gives way, and whatever was shown is
\* hidden.
Attach(w, k, b) ==
  /\ k \in fresh
  /\ owner[k] = w
  /\ fresh' = fresh \ {k}
  /\ waiting' = [waiting EXCEPT ![w] = [key |-> k, bytes |-> b]]
  /\ shown' = [shown EXCEPT ![w] = None]
  /\ UNCHANGED <<owner, seen, verdict>>

See(w) ==
  /\ waiting[w] # None
  /\ seen' = seen \cup {waiting[w].key}
  /\ UNCHANGED <<owner, fresh, waiting, shown, verdict>>

Approve(w) ==
  /\ waiting[w] # None
  /\ waiting[w].key \in seen
  /\ waiting' = [waiting EXCEPT ![w] = None]
  /\ shown' = [shown EXCEPT ![w] = waiting[w]]
  /\ verdict' = [verdict EXCEPT ![waiting[w].key] = "approved"]
  /\ UNCHANGED <<owner, fresh, seen>>

Reject(w) ==
  /\ waiting[w] # None
  /\ waiting[w].key \in seen
  /\ waiting' = [waiting EXCEPT ![w] = None]
  /\ verdict' = [verdict EXCEPT ![waiting[w].key] = "rejected"]
  /\ UNCHANGED <<owner, fresh, shown, seen>>

Next ==
  \/ \E k \in Keys : Lapse(k)
  \/ \E w \in Workers :
       \/ \E k \in Keys : Mint(w, k) \/ \E b \in Contents : Attach(w, k, b)
       \/ See(w) \/ Approve(w) \/ Reject(w)

Spec == Init /\ [][Next]_promiseVars

=============================================================================
