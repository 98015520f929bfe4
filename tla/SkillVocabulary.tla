---------------------------- MODULE SkillVocabulary ----------------------------
(***************************************************************************)
(* What the product promises about the vocabulary, said without row locks,  *)
(* claimed slugs or transactions that die: an entry comes from the seed or  *)
(* from one request, in the very step that resolves the request and records *)
(* who did it; and an entry stays, active or retired.  Skills is the        *)
(* detailed specification shown to implement this one.                      *)
(***************************************************************************)
EXTENDS Naturals

CONSTANTS
  Slugs,          \* slugs an entry may be given
  Seeded,         \* slugs the vocabulary is seeded with
  SkillRequests,  \* requests that may be made
  None            \* nothing

VARIABLES
  skill,         \* an entry: absent, active or retired
  entryFrom,     \* the request an entry came from, "seed" or None
  skillRequest,  \* a request: unasked, pending or promoted
  promotions     \* how many records name a request as promoted

vocabularyVars == <<skill, entryFrom, skillRequest, promotions>>

Init ==
  /\ skill = [s \in Slugs |-> IF s \in Seeded THEN "active" ELSE "absent"]
  /\ entryFrom = [s \in Slugs |-> IF s \in Seeded THEN "seed" ELSE None]
  /\ skillRequest = [q \in SkillRequests |-> "unasked"]
  /\ promotions = [q \in SkillRequests |-> 0]

Request(q) ==
  /\ skillRequest[q] = "unasked"
  /\ skillRequest' = [skillRequest EXCEPT ![q] = "pending"]
  /\ UNCHANGED <<skill, entryFrom, promotions>>

Retire(s) ==
  /\ skill[s] = "active"
  /\ skill' = [skill EXCEPT ![s] = "retired"]
  /\ UNCHANGED <<entryFrom, skillRequest, promotions>>

Promote(q, s) ==
  /\ skillRequest[q] = "pending"
  /\ skill[s] = "absent"
  /\ skill' = [skill EXCEPT ![s] = "active"]
  /\ entryFrom' = [entryFrom EXCEPT ![s] = q]
  /\ skillRequest' = [skillRequest EXCEPT ![q] = "promoted"]
  /\ promotions' = [promotions EXCEPT ![q] = @ + 1]

Next ==
  \/ \E q \in SkillRequests : Request(q) \/ \E s \in Slugs : Promote(q, s)
  \/ \E s \in Slugs : Retire(s)

Spec == Init /\ [][Next]_vocabularyVars

=============================================================================
