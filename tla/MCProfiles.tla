------------------------------- MODULE MCProfiles -------------------------------
(***************************************************************************)
(* Profiles for TLC.  The instance is one of three, chosen at the start, so *)
(* that their sizes add up instead of multiplying: promotions against each  *)
(* other, submits of one Worker against each other, and a walk of a list    *)
(* under everything that moves it.                                          *)
(***************************************************************************)
EXTENDS Profiles, TLC

CONSTANTS mine, hers, his, plain, rare

MCRotationKey == [w \in {mine, hers, his} |-> 0]

Symmetry == Permutations(Workers) \cup Permutations(SkillRequests) \cup Permutations(Admins)

VARIABLE instance
mcVars == <<profileVars, instance>>

MCInit == Init /\ instance \in {"vocabulary", "submits", "wall", "browse"}

VocabularyNext == SkillsNext /\ UNCHANGED <<clock, version, profileRows, pc, job, reader>>

\* One Worker, two submits in flight, a deploy and a Skill that is retired.
SubmitsNext ==
  \/ DeployConsentText
  \/ \E s \in Seeded : RetireSkill(s) /\ UNCHANGED <<clock, version, profileRows, pc, job, reader>>
  \/ \E r \in Requests, w \in Workers, words \in Words, wanted \in SUBSET Seeded :
       /\ \A v \in Workers \ {w} : shown[v] = {}
       /\ \/ \E v \in Versions : BeginPublish(r, w, words, wanted, v)
          \/ BeginEdit(r, w, words, wanted)
  \/ \E r \in Requests :
       \/ ReadVocabulary(r) \/ CommitPublish(r)
       \/ ReadHeld(r) \/ ReadChoosable(r) \/ CommitEdit(r)
       \/ GiveUp(r)

\* Every Worker, one submit at a time, and a reader.
One(S) == CHOOSE any \in S : TRUE

Submitting ==
  LET r == One(Requests) IN
  \/ ReadVocabulary(r) \/ CommitPublish(r)
  \/ ReadHeld(r) \/ ReadChoosable(r) \/ CommitEdit(r)

\* The Wall, while time passes and profiles are published, paused and resumed.
WallNext ==
  \/ Tick
  \/ \E w \in Workers : BeginPublish(One(Requests), w, One(Words), {plain}, 1)
  \/ Submitting
  \/ \E w \in Workers : PauseProfile(w) \/ ResumeProfile(w)
  \/ \E x \in Readers : ReadPage(x)

\* Browse, until the walk ends: whoever publishes has the rare Skill and may give
\* it up, and profiles are paused and changed while somebody is walking.
BrowseNext ==
  LET walking == \E x \in Readers : reader[x].at = "walking" IN
  /\ \E x \in Readers : reader[x].at # "end"
  /\ \/ \E w \in Workers :
          \/ BeginPublish(One(Requests), w, One(Words), {rare}, 1)
          \/ walking /\ BeginEdit(One(Requests), w, One(Words), {plain})
          \/ walking /\ PauseProfile(w)
          \/ walking /\ ResumeProfile(w)
          \/ Deliver(w)
     \/ Submitting
     \/ \E x \in Readers :
          \/ ReadPage(x)
          \/ /\ reader[x].at = "start"
             /\ \E filter \in {{}, {rare}} : OpenList(x, "browse", filter)

MCNext ==
  /\ \/ instance = "vocabulary" /\ VocabularyNext
     \/ instance = "submits" /\ SubmitsNext
     \/ instance = "wall" /\ WallNext
     \/ instance = "browse" /\ BrowseNext
  /\ UNCHANGED instance

MCSpec == MCInit /\ [][MCNext]_mcVars
=============================================================================
