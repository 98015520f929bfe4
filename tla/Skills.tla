--------------------------------- MODULE Skills ---------------------------------
(***************************************************************************)
(* The closed vocabulary of Skills and the requests Workers make of it:     *)
(* packages/domain/src/skills and promoteSkill in packages/domain/src/      *)
(* admin/handlers.ts, as runAdminAction runs it.                            *)
(*                                                                          *)
(* A promotion is one transaction of three steps that others can come       *)
(* between: the request's row is locked and read, the entry is inserted     *)
(* under the unique slug, and the rest is written and committed.  A row     *)
(* lock, and the claim of an uncommitted slug, are held until the           *)
(* transaction ends; whoever needs one waits.                               *)
(***************************************************************************)
EXTENDS Naturals, FiniteSets

CONSTANTS
  Slugs,          \* slugs an entry may be given
  Seeded,         \* slugs the vocabulary is seeded with
  SkillRequests,  \* rows skill_request may hold
  Admins,         \* promotions that may be in flight at once
  None            \* SQL NULL, or nothing

ASSUME SeedIsSlugs == Seeded \subseteq Slugs
ASSUME SkillNone == None \notin SkillRequests \cup Slugs \cup {"seed"} /\ "seed" \notin SkillRequests

VARIABLES
  skill,         \* an entry: absent, active or retired
  entryFrom,     \* the request an entry was promoted from, "seed" or None
  skillRequest,  \* skill_request.state, or "unasked"
  promotions,    \* number of admin_action rows naming a request
  step,          \* where each promotion is
  promotion      \* the request and the slug each promotion is about

skillVars == <<skill, entryFrom, skillRequest, promotions, step, promotion>>
-----------------------------------------------------------------------------
SkillStates == {"absent", "active", "retired"}
RequestStates == {"unasked", "pending", "promoted"}
Steps == {"away", "asked", "locked", "inserted"}

NoPromotion == [request |-> None, slug |-> None]
Promotions == [request : SkillRequests, slug : Slugs] \cup {NoPromotion}

SkillsInit ==
  /\ skill = [s \in Slugs |-> IF s \in Seeded THEN "active" ELSE "absent"]
  /\ entryFrom = [s \in Slugs |-> IF s \in Seeded THEN "seed" ELSE None]
  /\ skillRequest = [q \in SkillRequests |-> "unasked"]
  /\ promotions = [q \in SkillRequests |-> 0]
  /\ step = [a \in Admins |-> "away"]
  /\ promotion = [a \in Admins |-> NoPromotion]

\* listActiveSkills: what may be chosen.
ActiveSkills == {s \in Slugs : skill[s] = "active"}
-----------------------------------------------------------------------------
\* requestSkill: a row for each request, whatever others have asked for.
RequestSkill(q) ==
  /\ skillRequest[q] = "unasked"
  /\ skillRequest' = [skillRequest EXCEPT ![q] = "pending"]
  /\ UNCHANGED <<skill, entryFrom, promotions, step, promotion>>

\* No action of the product retires an entry; an operator clears `active`.
RetireSkill(s) ==
  /\ skill[s] = "active"
  /\ skill' = [skill EXCEPT ![s] = "retired"]
  /\ UNCHANGED <<entryFrom, skillRequest, promotions, step, promotion>>

\* The transaction ends without a trace: a refusal, a failure or a crash.
Leave(a) ==
  /\ step' = [step EXCEPT ![a] = "away"]
  /\ promotion' = [promotion EXCEPT ![a] = NoPromotion]

RollBack(a) ==
  /\ step[a] # "away"
  /\ Leave(a)
  /\ UNCHANGED <<skill, entryFrom, skillRequest, promotions>>

\* promoteSkill is called from a row the queue showed, which may be an old page.
AskPromotion(a, q, s) ==
  /\ step[a] = "away"
  /\ skillRequest[q] # "unasked"
  /\ step' = [step EXCEPT ![a] = "asked"]
  /\ promotion' = [promotion EXCEPT ![a] = [request |-> q, slug |-> s]]
  /\ UNCHANGED <<skill, entryFrom, skillRequest, promotions>>

Holds(a, q) == step[a] \in {"locked", "inserted"} /\ promotion[a].request = q
Claims(a, s) == step[a] = "inserted" /\ promotion[a].slug = s

\* SELECT ... FOR UPDATE, and the check of the state it read.
UnlockedInstead(a) ==
  /\ step[a] = "asked"
  /\ skillRequest[promotion[a].request] = "pending"
  /\ step' = [step EXCEPT ![a] = "locked"]
  /\ UNCHANGED <<skill, entryFrom, skillRequest, promotions, promotion>>
LockRequest(a) ==
  LET q == promotion[a].request IN
  /\ step[a] = "asked"
  /\ \A b \in Admins : ~Holds(b, q)
  /\ skillRequest[q] = "pending"
  /\ step' = [step EXCEPT ![a] = "locked"]
  /\ UNCHANGED <<skill, entryFrom, skillRequest, promotions, promotion>>

\* A conflict taken as an update.
OverwriteInstead(a) ==
  /\ step[a] = "locked"
  /\ \A b \in Admins : ~Claims(b, promotion[a].slug)
  /\ step' = [step EXCEPT ![a] = "inserted"]
  /\ UNCHANGED <<skill, entryFrom, skillRequest, promotions, promotion>>
\* INSERT ... ON CONFLICT (slug) DO NOTHING: waits for a claim to end, and
\* answers no row for a slug that is taken, whatever state its entry is in.
InsertEntry(a) ==
  LET s == promotion[a].slug IN
  /\ step[a] = "locked"
  /\ \A b \in Admins : ~Claims(b, s)
  /\ skill[s] = "absent"
  /\ step' = [step EXCEPT ![a] = "inserted"]
  /\ UNCHANGED <<skill, entryFrom, skillRequest, promotions, promotion>>

\* The request is resolved, the AdminAction is written, and all of it commits.
CommitPromotion(a) ==
  LET s == promotion[a].slug
      q == promotion[a].request
  IN
  /\ step[a] = "inserted"
  /\ skill' = [skill EXCEPT ![s] = "active"]
  /\ entryFrom' = [entryFrom EXCEPT ![s] = q]
  /\ skillRequest' = [skillRequest EXCEPT ![q] = "promoted"]
  /\ promotions' = [promotions EXCEPT ![q] = @ + 1]
  /\ Leave(a)

Promote(a) ==
  \/ \E q \in SkillRequests, s \in Slugs : AskPromotion(a, q, s)
  \/ LockRequest(a) \/ InsertEntry(a) \/ CommitPromotion(a) \/ RollBack(a)

SkillsNext ==
  \/ \E q \in SkillRequests : RequestSkill(q)
  \/ \E s \in Slugs : RetireSkill(s)
  \/ \E a \in Admins : Promote(a)

SkillsSpec == SkillsInit /\ [][SkillsNext]_skillVars
-----------------------------------------------------------------------------
(* Properties *)

\* Every variable holds a value its column, or its promotion, may hold.
SkillsTypeOK ==
  /\ skill \in [Slugs -> SkillStates]
  /\ entryFrom \in [Slugs -> SkillRequests \cup {"seed", None}]
  /\ skillRequest \in [SkillRequests -> RequestStates]
  /\ promotions \in [SkillRequests -> Nat]
  /\ step \in [Admins -> Steps]
  /\ promotion \in [Admins -> Promotions]
  /\ \A a \in Admins : step[a] # "away" => promotion[a] # NoPromotion

\* A request that was promoted has one entry of its own and one AdminAction, and
\* any other has neither: two Admins promoting one request, or naming two
\* requests alike, leave one entry and one record (promoteSkill,
\* admin/handlers.ts:418-505).
PromotedHasItsEntry ==
  \A q \in SkillRequests :
    LET entries == {s \in Slugs : entryFrom[s] = q} IN
    IF skillRequest[q] = "promoted"
    THEN promotions[q] = 1 /\ \E s \in Slugs : entries = {s}
    ELSE promotions[q] = 0 /\ entries = {}

\* An entry keeps the request it came from, and is never deleted: a profile may
\* hold it (skills/index.ts:56-60).
EntriesStay ==
  [][\A s \in Slugs : skill[s] # "absent" => skill'[s] # "absent" /\ entryFrom'[s] = entryFrom[s]]_skillVars

Vocabulary == INSTANCE SkillVocabulary

\* Three steps, two locks and a rollback at any of them amount to a promotion in
\* one step, of a request nobody answered and a slug nobody has (promoteSkill,
\* admin/handlers.ts:418-505).
VocabularySpec == Vocabulary!Spec
-----------------------------------------------------------------------------
(* The inductive invariant *)

\* A row lock is held by one transaction, a slug is claimed by one.
LocksExclude ==
  \A a, b \in Admins :
    a # b =>
      /\ \A q \in SkillRequests : ~(Holds(a, q) /\ Holds(b, q))
      /\ \A s \in Slugs : ~(Claims(a, s) /\ Claims(b, s))

\* What a transaction read under its lock, and the slug it claimed, still stand.
LockedIsPending ==
  \A a \in Admins :
    /\ step[a] \in {"locked", "inserted"} => skillRequest[promotion[a].request] = "pending"
    /\ step[a] = "inserted" => skill[promotion[a].slug] = "absent"

AbsentHasNoOrigin == \A s \in Slugs : skill[s] = "absent" <=> entryFrom[s] = None

SkillsInv ==
  /\ SkillsTypeOK
  /\ LocksExclude
  /\ LockedIsPending
  /\ AbsentHasNoOrigin
  /\ PromotedHasItsEntry

=============================================================================
