------------------------------ MODULE Skills_proofs ------------------------------
(***************************************************************************)
(* SkillsInv is an invariant of the vocabulary, for any slugs, requests and *)
(* promotions in flight; an entry stays what it was promoted from.          *)
(***************************************************************************)
EXTENDS Skills, TLAPS

\* PromotedHasItsEntry, one slug at a time.
LEMMA EntriesOne ==
  ASSUME NEW q
  PROVE  (\E s \in Slugs : {t \in Slugs : entryFrom[t] = q} = {s})
           <=> (\E s \in Slugs : \A t \in Slugs : entryFrom[t] = q <=> t = s)
<1>1. ASSUME NEW s \in Slugs
      PROVE  {t \in Slugs : entryFrom[t] = q} = {s} <=> \A t \in Slugs : entryFrom[t] = q <=> t = s
  OBVIOUS
<1> QED BY <1>1

HasItsEntry(q) ==
  /\ skillRequest[q] = "promoted" =>
       /\ promotions[q] = 1
       /\ \E s \in Slugs : \A t \in Slugs : entryFrom[t] = q <=> t = s
  /\ skillRequest[q] # "promoted" => promotions[q] = 0 /\ \A t \in Slugs : entryFrom[t] # q

LEMMA EntriesBySlug == PromotedHasItsEntry <=> \A q \in SkillRequests : HasItsEntry(q)
<1>1. ASSUME NEW q
      PROVE  {t \in Slugs : entryFrom[t] = q} = {} <=> \A t \in Slugs : entryFrom[t] # q
  OBVIOUS
<1> QED BY <1>1, EntriesOne DEF PromotedHasItsEntry, HasItsEntry

LEMMA EntriesBySlugNext == PromotedHasItsEntry' <=> \A q \in SkillRequests : HasItsEntry(q)'
<1>1. ASSUME NEW q
      PROVE  {t \in Slugs : entryFrom'[t] = q} = {} <=> \A t \in Slugs : entryFrom'[t] # q
  OBVIOUS
<1>2. ASSUME NEW q
      PROVE  (\E s \in Slugs : {t \in Slugs : entryFrom'[t] = q} = {s})
               <=> (\E s \in Slugs : \A t \in Slugs : entryFrom'[t] = q <=> t = s)
  <2>1. ASSUME NEW s \in Slugs
        PROVE  {t \in Slugs : entryFrom'[t] = q} = {s} <=> \A t \in Slugs : entryFrom'[t] = q <=> t = s
    OBVIOUS
  <2> QED BY <2>1
<1> QED BY <1>1, <1>2 DEF PromotedHasItsEntry, HasItsEntry

LEMMA PromotionIsAPair ==
  ASSUME SkillsTypeOK, NEW a \in Admins, step[a] # "away"
  PROVE  /\ promotion[a].request \in SkillRequests
         /\ promotion[a].slug \in Slugs
<1>1. promotion[a] \in [request : SkillRequests, slug : Slugs]
  BY DEF SkillsTypeOK, Promotions
<1> QED BY <1>1
-----------------------------------------------------------------------------
LEMMA SkillsInitInv == SkillsInit => SkillsInv
<1> SUFFICES ASSUME SkillsInit PROVE SkillsInv
  OBVIOUS
<1>1. SkillsTypeOK
  BY SeedIsSlugs DEF SkillsInit, SkillsTypeOK, SkillStates, RequestStates, Steps, Promotions
<1>2. LocksExclude /\ LockedIsPending
  BY DEF SkillsInit, LocksExclude, LockedIsPending, Holds, Claims
<1>3. AbsentHasNoOrigin
  BY SkillNone DEF SkillsInit, AbsentHasNoOrigin
<1>4. PromotedHasItsEntry
  <2>1. ASSUME NEW q \in SkillRequests PROVE HasItsEntry(q)
    BY SkillNone DEF SkillsInit, HasItsEntry
  <2> QED BY <2>1, EntriesBySlug
<1> QED BY <1>1, <1>2, <1>3, <1>4 DEF SkillsInv

LEMMA SkillsTypeStep == SkillsInv /\ [SkillsNext]_skillVars => SkillsTypeOK'
<1> SUFFICES ASSUME SkillsInv, [SkillsNext]_skillVars PROVE SkillsTypeOK'
  OBVIOUS
<1> USE DEF SkillsTypeOK, SkillStates, RequestStates, Steps
<1>0. SkillsTypeOK
  BY DEF SkillsInv
<1>1. ASSUME NEW q \in SkillRequests, RequestSkill(q) PROVE SkillsTypeOK'
  BY <1>0, <1>1 DEF RequestSkill
<1>2. ASSUME NEW s \in Slugs, RetireSkill(s) PROVE SkillsTypeOK'
  BY <1>0, <1>2 DEF RetireSkill
<1>3. ASSUME NEW a \in Admins, RollBack(a) PROVE SkillsTypeOK'
  BY <1>0, <1>3 DEF RollBack, Leave, Promotions
<1>4. ASSUME NEW a \in Admins, NEW q \in SkillRequests, NEW s \in Slugs, AskPromotion(a, q, s)
      PROVE  SkillsTypeOK'
  <2>1. [request |-> q, slug |-> s] \in Promotions /\ [request |-> q, slug |-> s] # NoPromotion
    BY SkillNone DEF Promotions, NoPromotion
  <2> QED BY <1>0, <1>4, <2>1 DEF AskPromotion
<1>5. ASSUME NEW a \in Admins, LockRequest(a) PROVE SkillsTypeOK'
  BY <1>0, <1>5 DEF LockRequest
<1>6. ASSUME NEW a \in Admins, InsertEntry(a) PROVE SkillsTypeOK'
  BY <1>0, <1>6 DEF InsertEntry
<1>7. ASSUME NEW a \in Admins, CommitPromotion(a) PROVE SkillsTypeOK'
  <2>1. promotion[a].request \in SkillRequests /\ promotion[a].slug \in Slugs
    BY <1>0, <1>7, PromotionIsAPair DEF CommitPromotion
  <2>2. /\ skill' \in [Slugs -> SkillStates]
        /\ entryFrom' \in [Slugs -> SkillRequests \cup {"seed", None}]
        /\ skillRequest' \in [SkillRequests -> RequestStates]
    BY <1>0, <1>7, <2>1 DEF CommitPromotion
  <2>3. promotions' \in [SkillRequests -> Nat]
    BY <1>0, <1>7, <2>1 DEF CommitPromotion
  <2>4. /\ step' \in [Admins -> Steps] /\ promotion' \in [Admins -> Promotions]
        /\ \A b \in Admins : step'[b] # "away" => promotion'[b] # NoPromotion
    BY <1>0, <1>7 DEF CommitPromotion, Leave, Promotions
  <2> QED BY <2>2, <2>3, <2>4
<1>8. CASE UNCHANGED skillVars
  BY <1>0, <1>8 DEF skillVars
<1> QED BY <1>1, <1>2, <1>3, <1>4, <1>5, <1>6, <1>7, <1>8 DEF SkillsNext, Promote

LEMMA SkillsLocksStep ==
  SkillsInv /\ [SkillsNext]_skillVars => LocksExclude' /\ LockedIsPending' /\ AbsentHasNoOrigin'
<1> SUFFICES ASSUME SkillsInv, [SkillsNext]_skillVars
    PROVE LocksExclude' /\ LockedIsPending' /\ AbsentHasNoOrigin'
  OBVIOUS
<1> DEFINE Goal == LocksExclude' /\ LockedIsPending' /\ AbsentHasNoOrigin'
<1>0. SkillsTypeOK /\ LocksExclude /\ LockedIsPending /\ AbsentHasNoOrigin
  BY DEF SkillsInv
<1> USE DEF LocksExclude, LockedIsPending, AbsentHasNoOrigin, Holds, Claims
<1>1. ASSUME NEW q \in SkillRequests, RequestSkill(q) PROVE Goal
  BY <1>0, <1>1 DEF RequestSkill, SkillsTypeOK
<1>2. ASSUME NEW s \in Slugs, RetireSkill(s) PROVE Goal
  BY <1>0, <1>2 DEF RetireSkill, SkillsTypeOK
<1>3. ASSUME NEW a \in Admins, RollBack(a) PROVE Goal
  BY <1>0, <1>3 DEF RollBack, Leave, SkillsTypeOK
<1>4. ASSUME NEW a \in Admins, NEW q \in SkillRequests, NEW s \in Slugs, AskPromotion(a, q, s) PROVE Goal
  BY <1>0, <1>4 DEF AskPromotion, SkillsTypeOK
<1>5. ASSUME NEW a \in Admins, LockRequest(a) PROVE Goal
  BY <1>0, <1>5 DEF LockRequest, SkillsTypeOK
<1>6. ASSUME NEW a \in Admins, InsertEntry(a) PROVE Goal
  BY <1>0, <1>6 DEF InsertEntry, SkillsTypeOK
<1>7. ASSUME NEW a \in Admins, CommitPromotion(a) PROVE Goal
  <2>1. promotion[a].request \in SkillRequests /\ promotion[a].slug \in Slugs
    BY <1>0, <1>7, PromotionIsAPair DEF CommitPromotion
  <2>2. LocksExclude'
    BY <1>0, <1>7 DEF CommitPromotion, Leave, SkillsTypeOK
  <2>3. LockedIsPending'
    <3> SUFFICES ASSUME NEW b \in Admins, step'[b] \in {"locked", "inserted"}
        PROVE  /\ skillRequest'[promotion'[b].request] = "pending"
               /\ step'[b] = "inserted" => skill'[promotion'[b].slug] = "absent"
      OBVIOUS
    <3>1. b # a /\ step'[b] = step[b] /\ promotion'[b] = promotion[b]
      BY <1>0, <1>7 DEF CommitPromotion, Leave, SkillsTypeOK
    <3>2. promotion[b].request \in SkillRequests /\ promotion[b].slug \in Slugs
      BY <1>0, <3>1, PromotionIsAPair
    <3>3. promotion[b].request # promotion[a].request
      BY <1>0, <1>7, <2>1, <3>1 DEF CommitPromotion
    <3>4. step[b] = "inserted" => promotion[b].slug # promotion[a].slug
      BY <1>0, <1>7, <2>1, <3>1 DEF CommitPromotion
    <3> QED BY <1>0, <1>7, <2>1, <3>1, <3>2, <3>3, <3>4 DEF CommitPromotion, SkillsTypeOK
  <2>4. AbsentHasNoOrigin'
    BY <1>0, <1>7, <2>1, SkillNone DEF CommitPromotion, SkillsTypeOK
  <2> QED BY <2>2, <2>3, <2>4
<1>8. CASE UNCHANGED skillVars
  BY <1>0, <1>8 DEF skillVars
<1> QED BY <1>1, <1>2, <1>3, <1>4, <1>5, <1>6, <1>7, <1>8 DEF SkillsNext, Promote

\* Committing is the one step that gives a request its entry.
LEMMA SkillsEntryStep == SkillsInv /\ [SkillsNext]_skillVars => PromotedHasItsEntry'
<1> SUFFICES ASSUME SkillsInv, [SkillsNext]_skillVars, NEW q \in SkillRequests PROVE HasItsEntry(q)'
  BY EntriesBySlugNext
<1>0. SkillsTypeOK /\ LockedIsPending /\ AbsentHasNoOrigin /\ HasItsEntry(q)
  BY EntriesBySlug DEF SkillsInv
<1>1. ASSUME NEW p \in SkillRequests, RequestSkill(p) PROVE HasItsEntry(q)'
  BY <1>0, <1>1 DEF RequestSkill, HasItsEntry, SkillsTypeOK
<1>2. ASSUME UNCHANGED <<entryFrom, skillRequest, promotions>> PROVE HasItsEntry(q)'
  BY <1>0, <1>2 DEF HasItsEntry
<1>3. ASSUME NEW a \in Admins, CommitPromotion(a) PROVE HasItsEntry(q)'
  <2> DEFINE p == promotion[a].request
             s == promotion[a].slug
  <2>1. /\ p \in SkillRequests /\ s \in Slugs
        /\ skillRequest[p] = "pending" /\ skill[s] = "absent" /\ entryFrom[s] = None
    BY <1>0, <1>3, PromotionIsAPair DEF CommitPromotion, LockedIsPending, AbsentHasNoOrigin
  <2>2. /\ entryFrom' = [entryFrom EXCEPT ![s] = p]
        /\ skillRequest' = [skillRequest EXCEPT ![p] = "promoted"]
        /\ promotions' = [promotions EXCEPT ![p] = promotions[p] + 1]
    BY <1>3 DEF CommitPromotion
  <2> HIDE DEF p, s
  <2>3. CASE q = p
    <3>1. promotions[q] = 0 /\ \A t \in Slugs : entryFrom[t] # q
      BY <1>0, <2>1, <2>3 DEF HasItsEntry
    <3>2. promotions'[q] = 1
      BY <1>0, <2>1, <2>2, <2>3, <3>1 DEF SkillsTypeOK
    <3>3. \A t \in Slugs : entryFrom'[t] = q <=> t = s
      BY <1>0, <2>1, <2>2, <2>3, <3>1 DEF SkillsTypeOK
    <3>4. skillRequest'[q] = "promoted"
      BY <1>0, <2>1, <2>2, <2>3 DEF SkillsTypeOK
    <3> QED BY <2>1, <3>2, <3>3, <3>4 DEF HasItsEntry
  <2>4. CASE q # p
    <3>1. skillRequest'[q] = skillRequest[q] /\ promotions'[q] = promotions[q]
      BY <1>0, <2>1, <2>2, <2>4 DEF SkillsTypeOK
    <3>2. \A t \in Slugs : entryFrom'[t] = q <=> entryFrom[t] = q
      BY <1>0, <2>1, <2>2, <2>4, SkillNone DEF SkillsTypeOK
    <3> QED BY <1>0, <3>1, <3>2 DEF HasItsEntry
  <2> QED BY <2>3, <2>4
<1> QED
  BY <1>1, <1>2, <1>3
  DEF SkillsNext, Promote, RetireSkill, RollBack, AskPromotion, LockRequest, InsertEntry, skillVars

LEMMA SkillsStep == SkillsInv /\ [SkillsNext]_skillVars => SkillsInv'
BY SkillsTypeStep, SkillsLocksStep, SkillsEntryStep DEF SkillsInv

LEMMA EntriesStayStep ==
  ASSUME SkillsInv, [SkillsNext]_skillVars, NEW s \in Slugs, skill[s] # "absent"
  PROVE  skill'[s] # "absent" /\ entryFrom'[s] = entryFrom[s]
<1>0. SkillsTypeOK /\ LockedIsPending
  BY DEF SkillsInv
<1>1. ASSUME NEW t \in Slugs, RetireSkill(t) PROVE skill'[s] # "absent" /\ entryFrom'[s] = entryFrom[s]
  BY <1>0, <1>1 DEF RetireSkill, SkillsTypeOK
<1>2. ASSUME NEW a \in Admins, CommitPromotion(a)
      PROVE  skill'[s] # "absent" /\ entryFrom'[s] = entryFrom[s]
  BY <1>0, <1>2 DEF CommitPromotion, SkillsTypeOK, LockedIsPending
<1>3. ASSUME UNCHANGED <<skill, entryFrom>> PROVE skill'[s] # "absent" /\ entryFrom'[s] = entryFrom[s]
  BY <1>3
<1> QED
  BY <1>1, <1>2, <1>3
  DEF SkillsNext, Promote, RequestSkill, RollBack, AskPromotion, LockRequest, InsertEntry, skillVars
-----------------------------------------------------------------------------
(* Theorems *)

\* The inductive invariant: locks exclude, and what was read under one stands
\* (promoteSkill, admin/handlers.ts:418-505).
THEOREM SkillsInvariant == SkillsSpec => []SkillsInv
<1>1. SkillsInv /\ [SkillsNext]_skillVars => SkillsInv'
  BY SkillsStep
<1> QED BY <1>1, SkillsInitInv, PTL DEF SkillsSpec

\* Two Admins promoting at once leave one entry and one AdminAction for a request.
THEOREM PromotedOnce == SkillsSpec => []PromotedHasItsEntry
<1>1. SkillsInv => PromotedHasItsEntry
  BY DEF SkillsInv
<1> QED BY <1>1, SkillsInvariant, PTL

\* An entry is never deleted nor given to another request (skills/index.ts:56-60).
THEOREM EntriesAreKept == SkillsSpec => EntriesStay
<1> DEFINE Kept == \A s \in Slugs :
      skill[s] # "absent" => skill'[s] # "absent" /\ entryFrom'[s] = entryFrom[s]
<1>1. SkillsInv /\ [SkillsNext]_skillVars => [Kept]_skillVars
  BY EntriesStayStep
<1> QED BY <1>1, SkillsInvariant, PTL DEF SkillsSpec, EntriesStay

-----------------------------------------------------------------------------
(* The promise *)

\* Committing is the promotion; the steps before it are none.
LEMMA VocabularyStep ==
  SkillsInv /\ [SkillsNext]_skillVars => [Vocabulary!Next]_Vocabulary!vocabularyVars
<1> SUFFICES ASSUME SkillsInv, [SkillsNext]_skillVars
             PROVE  Vocabulary!Next \/ UNCHANGED Vocabulary!vocabularyVars
  OBVIOUS
<1>1. ASSUME NEW q \in SkillRequests, RequestSkill(q) PROVE Vocabulary!Next
  <2>1. Vocabulary!Request(q)
    BY <1>1 DEF RequestSkill, Vocabulary!Request
  <2> QED BY <2>1 DEF Vocabulary!Next
<1>2. ASSUME NEW s \in Slugs, RetireSkill(s) PROVE Vocabulary!Next
  <2>1. Vocabulary!Retire(s)
    BY <1>2 DEF RetireSkill, Vocabulary!Retire
  <2> QED BY <2>1 DEF Vocabulary!Next
<1>3. ASSUME NEW a \in Admins, CommitPromotion(a) PROVE Vocabulary!Next
  <2>1. /\ promotion[a].request \in SkillRequests /\ promotion[a].slug \in Slugs
        /\ skillRequest[promotion[a].request] = "pending"
        /\ skill[promotion[a].slug] = "absent"
    BY <1>3, PromotionIsAPair DEF CommitPromotion, SkillsInv, LockedIsPending
  <2>2. Vocabulary!Promote(promotion[a].request, promotion[a].slug)
    BY <1>3, <2>1 DEF CommitPromotion, Vocabulary!Promote
  <2> QED BY <2>1, <2>2 DEF Vocabulary!Next
<1>4. ASSUME UNCHANGED Vocabulary!vocabularyVars PROVE UNCHANGED Vocabulary!vocabularyVars
  BY <1>4
<1> QED
  BY <1>1, <1>2, <1>3, <1>4
  DEF SkillsNext, Promote, RollBack, AskPromotion, LockRequest, InsertEntry, skillVars,
      Vocabulary!vocabularyVars

\* A promotion of three steps, raced and rolled back, is the promise's one step
\* (promoteSkill, admin/handlers.ts:418-505).
THEOREM VocabularyIsImplemented == SkillsSpec => VocabularySpec
<1>1. SkillsInit => Vocabulary!Init
  BY DEF SkillsInit, Vocabulary!Init
<1> QED BY <1>1, VocabularyStep, SkillsInvariant, PTL DEF SkillsSpec, VocabularySpec, Vocabulary!Spec

=============================================================================
