-------------------------------- MODULE Profiles --------------------------------
(***************************************************************************)
(* A Worker's published profile and the two public lists it appears in:     *)
(* packages/domain/src/profiles, packages/domain/src/policy/listing.ts and  *)
(* the Worker's side of packages/domain/src/consent, over the vocabulary.   *)
(*                                                                          *)
(* Publishing and editing are transactions at READ COMMITTED: each read is  *)
(* a step of its own, for others commit between them.  From its first write *)
(* to its commit a transaction holds the row it wrote (or the unique key it *)
(* claimed), so the writes are one step.  A reader walks a list page by     *)
(* page; a page is one statement, and between two of them the list moves.   *)
(*                                                                          *)
(* One id stands for a profile's Account, its row and its slug.             *)
(***************************************************************************)
EXTENDS Skills

CONSTANTS
  Workers,      \* Accounts that may publish
  Words,        \* what a submission says besides its Skills
  Requests,     \* submits that may be in flight at once
  Readers,      \* people walking a list
  RotationKey,  \* capability_profile.rotation_key: 0 until a job rewrites it
  PageSize,     \* profiles one page carries
  MaxClock,     \* bound: instants
  MaxVersion,   \* bound: consent texts deployed
  MaxDelivered  \* bound: Offers delivered to one Worker

Versions == 1..MaxVersion
Instants == 0..MaxClock

ASSUME ProfileBounds ==
  /\ MaxClock \in Nat /\ MaxVersion \in Nat \ {0} /\ MaxDelivered \in Nat
  /\ PageSize \in Nat \ {0}
  /\ RotationKey \in [Workers -> Nat]
ASSUME ProfileNone == None \notin Workers \cup Versions \cup Words
ASSUME WorkersAreFinite == IsFiniteSet(Workers)

VARIABLES
  clock,        \* now()
  version,      \* the consent text in force
  profile,      \* each Worker's capability_profile row, or None
  held,         \* profile_skill: the Skills each profile holds
  lastId,       \* the last id the table's identity gave
  consent,      \* version of the Worker's own consent row, or None
  shown,        \* versions of the forms a Worker has submitted
  pc,           \* where each submit is
  job,          \* what each submit carries
  reader        \* how far each reader has walked

profileRows == <<profile, held, lastId, consent, shown>>
profileVars == <<skillVars, clock, version, profileRows, pc, job, reader>>
-----------------------------------------------------------------------------
Submissions == [words : Words, skills : SUBSET Slugs]

Rows ==
  [publishedAt : Instants, id : Nat, words : Words, searchText : Submissions,
   paused : BOOLEAN, delivered : 0..MaxDelivered]

ASSUME RowsAreNotNone == None \notin Rows

PublishPCs == {"publishing", "chosen"}
EditPCs == {"editing", "owned", "choosable"}
ProfilePCs == {"idle"} \cup PublishPCs \cup EditPCs

Jobs ==
  [worker : Workers \cup {None}, words : Words \cup {None}, wanted : SUBSET Slugs,
   held : SUBSET Slugs, version : Versions \cup {None}, startedAt : Instants]

NoJob == [worker |-> None, words |-> None, wanted |-> {}, held |-> {}, version |-> None, startedAt |-> 0]

Lists == {"wall", "browse"}

\* `throughout`: profiles that were listed at every page read so far.
Walks ==
  [list : Lists, filter : SUBSET Slugs, after : Workers \cup {None}, seen : SUBSET Workers,
   throughout : SUBSET Workers, unmoved : SUBSET Workers, again : BOOLEAN, at : {"start", "walking", "end"}]

NewWalk(list, filter) ==
  [list |-> list, filter |-> filter, after |-> None, seen |-> {}, throughout |-> Workers,
   unmoved |-> Workers, again |-> FALSE, at |-> "start"]

ProfilesInit ==
  /\ clock = 0
  /\ version = 1
  /\ profile = [w \in Workers |-> None]
  /\ held = [w \in Workers |-> {}]
  /\ lastId = 0
  /\ consent = [w \in Workers |-> None]
  /\ shown = [w \in Workers |-> {}]
  /\ pc = [r \in Requests |-> "idle"]
  /\ job = [r \in Requests |-> NoJob]
  /\ reader = [x \in Readers |-> NewWalk("wall", {})]

Init == SkillsInit /\ ProfilesInit

Published == {w \in Workers : profile[w] # None}
-----------------------------------------------------------------------------
(* Time and deploys *)

Tick ==
  /\ clock < MaxClock
  /\ clock' = clock + 1
  /\ UNCHANGED <<skillVars, version, profileRows, pc, job, reader>>

DeployConsentText ==
  /\ version < MaxVersion
  /\ version' = version + 1
  /\ UNCHANGED <<skillVars, clock, profileRows, pc, job, reader>>
-----------------------------------------------------------------------------
(* Publishing and editing *)

Goto(r, to) == pc' = [pc EXCEPT ![r] = to]
Finish(r) == Goto(r, "idle") /\ job' = [job EXCEPT ![r] = NoJob]

\* The transaction ends and writes nothing: it was refused, it threw, it died.
GiveUp(r) ==
  /\ pc[r] # "idle"
  /\ Finish(r)
  /\ UNCHANGED <<skillVars, clock, version, profileRows, reader>>

\* Her row is read; the transaction's now() is fixed here.  The form she sends
\* was rendered under any version so far.
BeginPublish(r, w, words, wanted, v) ==
  /\ pc[r] = "idle"
  /\ v <= version
  /\ w \notin Published
  /\ wanted # {}
  /\ Goto(r, "publishing")
  /\ job' = [job EXCEPT ![r] = [worker |-> w, words |-> words, wanted |-> wanted, held |-> {},
                                version |-> v, startedAt |-> clock]]
  /\ shown' = [shown EXCEPT ![w] = @ \cup {v}]
  /\ UNCHANGED <<skillVars, clock, version, profile, held, lastId, consent, reader>>

\* Only what is active may be chosen.
ReadVocabulary(r) ==
  /\ pc[r] = "publishing"
  /\ job[r].wanted \subseteq ActiveSkills
  /\ Goto(r, "chosen")
  /\ UNCHANGED <<skillVars, clock, version, profileRows, job, reader>>

SearchTextFor(words, skills) == [words |-> words, skills |-> skills]

NewRow(r) ==
  [publishedAt |-> job[r].startedAt, id |-> lastId + 1, words |-> job[r].words,
   searchText |-> SearchTextFor(job[r].words, job[r].wanted), paused |-> FALSE, delivered |-> 0]

VersionsAreCurrent(v) == v = version

\* A version that is not current passes, and the row names the current one.
RestampedInstead(w, v) == consent' = [consent EXCEPT ![w] = version]
RecordConsent(w, v) ==
  /\ VersionsAreCurrent(v)
  /\ consent' = [consent EXCEPT ![w] = v]

\* The unique Account refuses a second row; a stale version rolls all of it back.
CommitPublish(r) ==
  LET w == job[r].worker IN
  /\ pc[r] = "chosen"
  /\ w \notin Published
  /\ RecordConsent(w, job[r].version)
  /\ profile' = [profile EXCEPT ![w] = NewRow(r)]
  /\ held' = [held EXCEPT ![w] = job[r].wanted]
  /\ lastId' = lastId + 1
  /\ Finish(r)
  /\ UNCHANGED <<skillVars, clock, version, shown, reader>>

BeginEdit(r, w, words, wanted) ==
  /\ pc[r] = "idle"
  /\ w \in Published
  /\ wanted # {}
  /\ Goto(r, "editing")
  /\ job' = [job EXCEPT ![r] = [worker |-> w, words |-> words, wanted |-> wanted, held |-> {},
                                version |-> None, startedAt |-> clock]]
  /\ UNCHANGED <<skillVars, clock, version, profileRows, reader>>

\* What she already holds, retired or not.
ReadHeld(r) ==
  /\ pc[r] = "editing"
  /\ Goto(r, "owned")
  /\ job' = [job EXCEPT ![r].held = held[job[r].worker]]
  /\ UNCHANGED <<skillVars, clock, version, profileRows, reader>>

\* An edit may choose what is active and what she holds.
ReadChoosable(r) ==
  /\ pc[r] = "owned"
  /\ job[r].wanted \subseteq ActiveSkills \cup job[r].held
  /\ Goto(r, "choosable")
  /\ UNCHANGED <<skillVars, clock, version, profileRows, job, reader>>

\* The search text of an edit built from what she held before it.
StaleTextInstead(w, words, skills) ==
  [profile[w] EXCEPT !.words = words, !.searchText = SearchTextFor(words, held[w])]
\* The search text is built from what the same save writes.
EditedRow(w, words, skills) ==
  [profile[w] EXCEPT !.words = words, !.searchText = SearchTextFor(words, skills)]

\* published_at and slug stay; the Skills and the history are replaced.
CommitEdit(r) ==
  LET w == job[r].worker IN
  /\ pc[r] = "choosable"
  /\ profile' = [profile EXCEPT ![w] = EditedRow(w, job[r].words, job[r].wanted)]
  /\ held' = [held EXCEPT ![w] = job[r].wanted]
  /\ Finish(r)
  /\ UNCHANGED <<skillVars, clock, version, lastId, consent, shown, reader>>

\* One UPDATE each, on a row that is not paused, or on any.
PauseProfile(w) ==
  /\ w \in Published
  /\ ~profile[w].paused
  /\ profile' = [profile EXCEPT ![w].paused = TRUE]
  /\ UNCHANGED <<skillVars, clock, version, held, lastId, consent, shown, pc, job, reader>>

BackOnTopInstead(w) ==
  /\ w \in Published
  /\ profile' = [profile EXCEPT ![w].paused = FALSE, ![w].publishedAt = clock]
  /\ UNCHANGED <<skillVars, clock, version, held, lastId, consent, shown, pc, job, reader>>
ResumeProfile(w) ==
  /\ w \in Published
  /\ profile' = [profile EXCEPT ![w].paused = FALSE]
  /\ UNCHANGED <<skillVars, clock, version, held, lastId, consent, shown, pc, job, reader>>

Submit(r) ==
  \/ \E w \in Workers, words \in Words, wanted \in SUBSET Slugs :
       \/ \E v \in Versions : BeginPublish(r, w, words, wanted, v)
       \/ BeginEdit(r, w, words, wanted)
  \/ ReadVocabulary(r) \/ CommitPublish(r)
  \/ ReadHeld(r) \/ ReadChoosable(r) \/ CommitEdit(r)
  \/ GiveUp(r)
-----------------------------------------------------------------------------
(* The lists *)

VisibleToOthers(w) == w \in Published /\ ~profile[w].paused

\* compareByNewest and compareByAttentionSpread, as the orders they sort by.
NewerThan(p, q) ==
  \/ profile[p].publishedAt > profile[q].publishedAt
  \/ profile[p].publishedAt = profile[q].publishedAt /\ profile[p].id > profile[q].id

LessContacted(p, q) ==
  \/ profile[p].delivered < profile[q].delivered
  \/ /\ profile[p].delivered = profile[q].delivered
     /\ \/ RotationKey[p] < RotationKey[q]
        \/ RotationKey[p] = RotationKey[q] /\ profile[p].id < profile[q].id

Before(list, p, q) == IF list = "wall" THEN NewerThan(p, q) ELSE LessContacted(p, q)

\* The Skill filter of browse; the Wall has none.
FiltersOf(x, w) == reader[x].filter \subseteq held[w]

Listed(x) == {w \in Workers : VisibleToOthers(w) /\ FiltersOf(x, w)}

\* The keyset predicate against the cursor's row, visible or not.
After(x, w) == reader[x].after = None \/ Before(reader[x].list, reader[x].after, w)

\* ORDER BY ... LIMIT n.
Limited(list, rows, n) == {p \in rows : Cardinality({q \in rows : Before(list, q, p)}) < n}

\* A full page is taken for the last one.
NoProbeInstead(x) == Limited(reader[x].list, {w \in Listed(x) : After(x, w)}, PageSize)
\* One row more than a page shows is read, and answers whether there is another.
RowsRead(x) == Limited(reader[x].list, {w \in Listed(x) : After(x, w)}, PageSize + 1)

PageOf(list, rows) == IF Cardinality(rows) <= PageSize THEN rows ELSE Limited(list, rows, PageSize)

LastOf(list, items) == CHOOSE p \in items : \A q \in items \ {p} : Before(list, q, p)

ReadPage(x) ==
  LET walk == reader[x]
      rows == RowsRead(x)
      items == PageOf(walk.list, rows)
      more == Cardinality(rows) > PageSize
  IN
  /\ walk.at # "end"
  /\ reader' = [reader EXCEPT ![x] =
       [walk EXCEPT !.after = IF more THEN LastOf(walk.list, items) ELSE walk.after,
                    !.seen = @ \cup items,
                    !.again = @ \/ items \cap walk.seen # {},
                    !.throughout = @ \cap Listed(x),
                    !.at = IF more THEN "walking" ELSE "end"]]
  /\ UNCHANGED <<skillVars, clock, version, profileRows, pc, job>>

OpenList(x, list, filter) ==
  /\ reader[x].at \in {"start", "end"}
  /\ list = "wall" => filter = {}
  /\ reader' = [reader EXCEPT ![x] = NewWalk(list, filter)]
  /\ UNCHANGED <<skillVars, clock, version, profileRows, pc, job>>

\* deliverOffer's one column of her row: it moves her under whoever is walking.
Deliver(w) ==
  /\ w \in Published
  /\ profile[w].delivered < MaxDelivered
  /\ profile' = [profile EXCEPT ![w].delivered = @ + 1]
  /\ reader' = [x \in Readers |->
       IF reader[x].at = "walking" THEN [reader[x] EXCEPT !.unmoved = @ \ {w}] ELSE reader[x]]
  /\ UNCHANGED <<skillVars, clock, version, held, lastId, consent, shown, pc, job>>

Read(x) ==
  \/ ReadPage(x)
  \/ \E list \in Lists, filter \in SUBSET Slugs : OpenList(x, list, filter)

ProfilesNext ==
  \/ Tick \/ DeployConsentText
  \/ \E r \in Requests : Submit(r)
  \/ \E w \in Workers : PauseProfile(w) \/ ResumeProfile(w) \/ Deliver(w)
  \/ \E x \in Readers : Read(x)
  \/ SkillsNext /\ UNCHANGED <<clock, version, profileRows, pc, job, reader>>

Spec == Init /\ [][ProfilesNext]_profileVars
-----------------------------------------------------------------------------
(* Properties *)

\* Every variable holds a value its column, its submit or its walk may hold.
ProfilesTypeOK ==
  /\ SkillsTypeOK
  /\ clock \in Instants
  /\ version \in Versions
  /\ profile \in [Workers -> Rows \cup {None}]
  /\ held \in [Workers -> SUBSET Slugs]
  /\ lastId \in Nat
  /\ consent \in [Workers -> Versions \cup {None}]
  /\ shown \in [Workers -> SUBSET Versions]
  /\ pc \in [Requests -> ProfilePCs]
  /\ job \in [Requests -> Jobs]
  /\ reader \in [Readers -> Walks]

\* A search finds a profile by what it says now: its words and the Skills it
\* holds, whichever of two overlapping saves came last and whatever was retired
\* meanwhile (searchTextFor and the two writers, profiles/index.ts:209-453).
FoundByWhatItSays ==
  \A w \in Published :
    profile[w].searchText = SearchTextFor(profile[w].words, held[w])

\* Behind every profile is a consent row, and it names a text she was shown: a
\* deploy between the form and the submit never records the text she did not
\* read (recordConsent, consent/index.ts:76-107).
ConsentIsWhatSheRead ==
  \A w \in Workers :
    IF w \in Published THEN consent[w] \in shown[w] ELSE consent[w] = None

\* Whoever walks the Wall to its end has met every profile that was on it at
\* each page, and nobody twice, whatever is published, edited, paused or resumed
\* between two pages (policy/listing.ts:56-66, profiles/listing.ts:88-96).
WallWalkIsComplete ==
  \A x \in Readers :
    reader[x].list = "wall" =>
      /\ ~reader[x].again
      /\ reader[x].at = "end" => reader[x].throughout \subseteq reader[x].seen

\* The same of browse, with or without a filter, while no Offer is delivered to
\* anybody (policy/listing.ts:68-91, profiles/listing.ts:98-115).
BrowseWalkIsComplete ==
  \A x \in Readers :
    reader[x].list = "browse" /\ reader[x].unmoved = Workers =>
      /\ ~reader[x].again
      /\ reader[x].at = "end" => reader[x].throughout \subseteq reader[x].seen

\* "page two would be drawn from a different ordering than page one, so the
\* reader would see some profiles twice and never see others": what the stored
\* columns are there to prevent (policy/listing.ts:10-16).
NobodyIsPassedOver ==
  \A x \in Readers :
    reader[x].list = "browse" /\ reader[x].at = "end" =>
      reader[x].throughout \cap reader[x].unmoved \subseteq reader[x].seen
-----------------------------------------------------------------------------
(* The inductive invariant *)

\* The order is total: the identity never gives one id twice.
IdsAreDistinct ==
  /\ \A w \in Published : profile[w].id <= lastId
  /\ \A v, w \in Published : v # w => profile[v].id # profile[w].id

\* A submit carries a form she was shown; an edit, a profile she has.
SubmitsAreHers ==
  \A r \in Requests :
    /\ pc[r] # "idle" => job[r].worker \in Workers /\ job[r].words \in Words
    /\ pc[r] \in PublishPCs => job[r].version \in shown[job[r].worker]
    /\ pc[r] \in EditPCs => job[r].worker \in Published

\* Everybody who was listed throughout, up to the cursor, has been seen, and
\* nobody beyond it has.
Settled(x) == reader[x].list = "wall" \/ reader[x].unmoved = Workers

\* The order as the cursor's row and everybody's stand now.
WalkedUpTo(x) ==
  LET walk == reader[x] IN
  /\ walk.at = "start" => walk.seen = {} /\ walk.after = None
  /\ walk.at = "walking" =>
       /\ walk.after \in Published
       /\ \A w \in walk.seen :
            w \in Published /\ (w = walk.after \/ Before(walk.list, w, walk.after))
       /\ \A w \in walk.throughout \ walk.seen :
            w \in Published /\ Before(walk.list, walk.after, w)
  /\ walk.at = "end" => walk.throughout \subseteq walk.seen

WalksAreSettled == \A x \in Readers : Settled(x) => ~reader[x].again /\ WalkedUpTo(x)

ProfilesInv ==
  /\ ProfilesTypeOK
  /\ SkillsInv
  /\ FoundByWhatItSays
  /\ ConsentIsWhatSheRead
  /\ IdsAreDistinct
  /\ SubmitsAreHers
  /\ WalksAreSettled

=============================================================================
