# A verification of recomencemos

recomencemos introduces Workers, who publish a CapabilityProfile, to Hirers, who
send them Offers. An Admin reads every Offer before it is delivered; when a Worker
accepts one, the two sides' contact details cross. This directory holds TLA+ modules
that model what the code under `src/` does, the TLC configurations that check them
on small instances, and proofs, checked by TLAPS, of the properties for every size.

All state of the program is in Postgres and in two object-store buckets; the web
application (Next.js Server Actions in `apps/web`) calls `packages/domain`, which
owns the tables. Every hard behaviour here comes from several requests running on
the same rows, in transactions at READ COMMITTED or in none, and from requests that
die between two statements.

## 1. The system

| Component | State | Operations | Hard because |
|---|---|---|---|
| **Offers** `domain/offers`, `policy/offer-states` | `offer` rows | `sendOffer`, `acceptOffer`, `declineOffer`, lists | a send locks the Hirer's row but reads the Worker's profile without a lock; two answers race on one Offer |
| **Contact Exchange** `domain/exchange`, `deliver-exchange.tsx` | `contact_exchange` | `writeExchange` in the accept; two emailed copies after the commit, each recorded | a crash between the commit and a copy; an answer lost; her details edited in between |
| **Admin decisions** `domain/admin` | `admin_action` | `runAdminAction` around `deliverOffer`, `rejectOffer`, `approvePhoto`, `rejectPhoto`, `promoteSkill`, `revokeSessions` | two Admins decide one thing; a counter on a row no lock covers |
| **Photo pipeline** `domain/photos` | `photo_*` columns, `photo_upload` | `createUpload`, `attach`, queue, `approve`, `reject` | two stores, one without transactions; two statements without a transaction |
| **Storage** `packages/storage` | a quarantine and a public bucket | `presignUpload`, `quarantinedEtag`, `promoteToPublic`, `discard` | objects may be written again; a delete may fail |
| **Profiles** `domain/profiles` | `capability_profile`, `profile_skill` | `publishProfile`, `updateProfile`, `pauseProfile`, `resumeProfile` | overlapping submits, each of several reads; a pause against a send in flight |
| **Consent** `domain/consent` | `consent` | `recordConsent`, `hasConsented` | must be in the same transaction as what it authorises |
| **Skills** `domain/skills` | `skill`, `skill_request` | `requestSkill`, `promoteSkill` | one request promoted twice; two requests promoted to one slug |
| **Listing** `policy/listing`, `profiles/listing` | none | two orders, keyset pages, filters | ties and boundaries; the list moves between two pages |
| **Rate limiting** `domain/rate-limit` | `rate_counter` | `chargeCeiling` | fixed windows, concurrent charges, retention |
| **Admin door** `domain/admin/{enrolment,door,second-factor}`, `auth/admin-door` | `admin_enrolment`, second factor, challenge | print a link, enrol, verify a code | reads outside the transaction; compare-and-swap of backup codes |
| **Sign-in and sessions** `domain/auth` | `session`, `verification`, two cookies | the hooks given to Better Auth, `signOut`, `signOutEverywhere`, `revokeSessions` | a library runs between the hooks; an Account is granted meanwhile; a failed delete is reported as success |
| **Notifications** `packages/notifications` | none | `send` with a kill switch and an idempotency key | an answer may be lost |
| **Accounts, export, health, config, migrations, errors, observability, design system, pages** | none of their own | reads, start-up, rendering | not modelled |

How they interact: a Server Action reads (session, consent), calls one domain
function, which opens at most one transaction; after the commit the action sends
email or touches the object store, and what that answers is recorded by a further
statement. There are no queues and no background jobs; sweeps run on write paths.

What makes each correct, in a sentence: details cross exactly for accepted Offers,
and the emails say what the pages say; every decision is audited once, and decided
once; no Offer is written past a freeze, a ban or a Block; nothing is collected
without its Consent; only bytes an Admin saw are published; a ceiling admits no more
than its number per window; a Skill request is promoted once and an entry is never
lost; a profile is found by what it says; whoever walks a list meets everybody who
stayed on it, once; a session lives as long as she asked for, an Admin's opens by one
door behind two factors, a backup code opens it once, and whoever is told she is signed
out is.

## 2. Modules

| Module | What it is |
|---|---|
| `OfferStates` | `policy/offer-states.ts`: the states and the table of permitted moves |
| `OfferLifecycle` | the abstract specification: Offers that only move by the table, with what a move stamps and what crosses; `LifecycleInv` |
| `OfferExchange` | the detailed specification of Offers, decisions and exchanges; implements `OfferLifecycle` |
| `OfferExchangeInvariant` | the inductive invariants `OfferInv`, `SendInv`, `MailInv`, and `ExchangeInv`, their conjunction |
| `MCOfferExchange` | for TLC: three instances of it in one run, and the symmetry |
| `MCOfferLiveness` | for the liveness checks: two instances, the life of one Offer and the sends of one Hirer |
| `OfferExchange_proofs`, `OfferLifecycle_proofs` | theorems |
| `PhotoPromise` | the abstract specification of photos: one upload waits for each Worker, an Admin approves or rejects one she was shown, once, and what is shown is what was recorded when it was attached |
| `PhotoReview` | a photo from the presigned upload to the decision, over the row and both buckets; implements `PhotoPromise` |
| `PhotoReviewInvariant` | the inductive invariant `PhotoInv`, and the refinement mapping |
| `MCPhotoReview` | for TLC: two instances of it in one run, and the symmetry |
| `PhotoReview_proofs` | theorems |
| `RateLimit` | the ceilings: windows over a clock, the charge's two statements, the wait it tells; `RateInv`, its inductive invariant |
| `MCRateLimit` | the sign-in form's two ceilings, scaled down |
| `RateLimit_proofs` | theorems, and lemmas on windows and rounding |
| `SkillVocabulary` | the abstract specification of the vocabulary: a request is asked for, promoted in one step, and an entry retired |
| `Skills` | the vocabulary, its requests and their promotion; implements `SkillVocabulary`; `SkillsInv` |
| `Profiles` | EXTENDS `Skills`: publishing and editing, Consent, and the two lists as they are walked; `ProfilesInv` |
| `MCProfiles` | for TLC: four instances of `Profiles` in one run |
| `Skills_proofs`, `Profiles_proofs` | theorems; the second uses the first's for the composition |
| `Sessions` | the two public doors, the hooks, and what closes a session |
| `AdminDoor` | EXTENDS `Sessions`: setup links, the second factor, the session it opens |
| `SignInPromise` | the abstract specification of the doors: a session opens in one step by a link or a start it uses up, or by a refused Admin's link and one code |
| `AdminDoorInvariant` | what signing in promises, `SignInInv`, and the refinement mapping to `SignInPromise` |
| `MCSignIn` | for TLC: four instances of `AdminDoor` in one run |
| `SignIn_proofs` | theorems: the invariant and the properties |
| `SignInPromise_proofs` | theorems: the refinement, and what follows from the promise |

Compositions: `Profiles` is the vocabulary and everything that reads it in one next-state
relation (`SkillsNext` interleaved with the profiles' own steps, each leaving the other's
rows alone), and `AdminDoor` is `SessionsNext` interleaved with the door over shared
variables (`isAdmin`, `row`, `challenges`, `session`).

### OfferExchange

A request is a process; `pc[r]` says between which two statements it is and `job[r]`
what it holds in memory. One step is one statement (or one call to the transport).
The writes of a transaction appear at its last step, which is when they commit; a
row lock is the fact that some request's `pc` is inside the transaction that took
it (`UserRowFree`, `OfferRowFree`). `Crash` ends a request between any two steps,
which rolls an open transaction back and loses what was to come after a commit.

- `SendPost, SendLock, SendAddress, SendScreen, SendWrite` are `sendOffer`: the
  action's own read of his Consent, the lock and the state beneath it, the unlocked
  read of her profile, the Block and the first-Offer question, and the inserts.
  `SendStale` is `recordConsent` throwing on versions no longer current.
- `AnswerLock, Accept, Decline` are `answerReceivedOffer`; `Accept` includes
  `writeExchange`. `SendCopy, RecordCopy, RecordCopyFails, CopiesDone` are
  `deliverExchange`, the two sides of its `Promise.all` in any order.
- `DecideLock, Deliver, Reject` are an Admin's transaction with its `admin_action`
  row; `Notify` the email after it.
- `PauseProfile, ResumeProfile, UpdateProfile` are her own switch and edit.
- `WriteSendingState` and `BlockHirer` have no writer at this commit. They are in the
  model because `sendOffer` reads what they write and its lock is there for them;
  they wait for that lock, as an `UPDATE` and a foreign key's `FOR KEY SHARE` do.

A refusal that changes nothing is not an action (the request stays where it is);
one that ends a transaction releases its lock and is the `Finish` branch of a step.
A Worker is named by the Account that owns her profile (`account_id` is unique). Her
details are a version number, his identity one of `Names`.

`SendLock` is the only step that waits: an answer or a decision is modelled from the
moment its row is free, and the lock a foreign key takes on her profile is left out. No
request waits while it holds a lock here, so a cycle of locks is outside the model and
nothing is claimed of one. `RequestsEnd` is about a send that waits behind others.

### PhotoReview

Attaching and approving hold nothing between their steps, and each is a request with
a `pc`: `AttachHead` (a HEAD of the object), `AttachConsume` (the `DELETE ...
RETURNING` that spends the intent), `AttachWrite` (the row); `ApproveRead`,
`ApproveFetch` (the conditional read, and the re-encoding that may refuse it),
`ApprovePut` (the public object), `ApproveCommit` (row and audit in a transaction,
or a refusal). `RejectCommit` is row and audit, `Discard` the delete after it. A
decision's transaction is one step because it locks the profile's row first, and
every writer of that row's photo waits for the lock.

`ShowCard` is the queue rendering a card, with the key in its form and the bytes in
its image; an Admin decides on any card ever shown, which is what makes it stale.
Quarantine keys are numbered as minted. The ETag of an object is a digest of what it
holds (`storage/photos.ts:280-283`), so in the model it *is* what the object holds, a
member of `Contents`. `RewriteObject` is a second write of a key, which the presigned
PUT's `If-None-Match` refuses and which the recorded ETag is a second defence against; it
may bring back what the object held before, and it counts as a fault (`rewrites` counts
them by object). `CollectObject` is the bucket's lifecycle rule
(`recomencemos-go-live.md:122-123`), which may delete an object at any time, waiting or
not; it is no fault. `CreateUpload` includes the upsert and the sweep, which deletes any
set of other Accounts' intents (they are an hour old, and nothing else in the model needs
a clock).

Left out: the re-encoding itself, and takedown, which has no code yet.

### RateLimit

A request charges its principals in order (`Begin`, then `Call`, `Upsert`, `Sweep` for
each) and stops at the first refusal. The upsert and the sweep are two statements in no
transaction, both computed from the time captured at the call, so other requests count
and delete between them. A counter stands for a principal and an action, which key the
rows together; a scope for which an action declares no ceiling is not charged and is in
no request's list. `charged` and `granted` are history variables: what a window was
charged and let through, whatever rows were swept since. `Fail` is a statement that
throws or a process that dies; the charge it counted stays.

`MaxDelay` bounds the time between the captured `now` and the statements that use it by
the longest window. The code does not enforce it: it is the assumption that no charge is
held up longer than `LongestWindow` (a day), and the margin that makes "twice the longest
window" enough. A model without it would sweep rows under a charge that waited two days.
All processes read one clock.

### Skills and Profiles

A promotion is a transaction of three steps others can come between: `LockRequest`
(`SELECT ... FOR UPDATE` and the check of what it read), `InsertEntry` (`ON CONFLICT DO
NOTHING`, which waits for an uncommitted claim of the slug and answers no row for a slug
that is taken), `CommitPromotion` (the request, the `AdminAction`, the commit). `RollBack`
is a refusal, a failure or a crash. `AskPromotion` takes any request ever made, for the
page it is asked from may be old. `RetireSkill` has no writer in the product: an operator
clears `active`, and the reads distinguish retired entries because of it.

A submit is a process: its reads are steps (`BeginPublish`, `ReadVocabulary`; `BeginEdit`,
`ReadHeld`, `ReadChoosable`) and its writes are one (`CommitPublish`, `CommitEdit`),
because the first of them takes the row's lock, or claims the unique Account, until the
commit. `published_at` is the instant the transaction began and the id is given at the
insert, so a profile may appear behind another in one order and before it in the other. A
consent text is a version number; the form was rendered under any version so far; `shown`
is history. `recordConsent` takes the versions with it or rolls everything back.

A reader opens a list and reads it page by page. A page is one statement over the rows as
they are: `Listed` the predicate and the filter, `After` the keyset comparison with the
cursor's row as it is *now*, visible or not, `RowsRead` one more than the page, `PageOf`
the page. `seen`, `throughout`, `unmoved` and `again` are history: who was met, who was
listed at every page so far, who has not been delivered to since, whether anybody was met
twice. Work history, names, cities and text are one value of `Words`; the search text is
the pair of what it was built from. The rotation key has no writer at this commit and is a
constant.

### Sessions and AdminDoor

A request is a process and the library is its scheduler: it calls the hooks in order and
other requests run between two. What the library does itself is external and taken at the
weakest the code rests on: a link or an OAuth state is consumed by one request
(`Consume`); a delete is done or, in `/sign-out`, swallowed (`LibrarySignOut`), and of
several any may be done (`RevokeOtherSessions`).

- `StoreLink, MailLink` and `StartGoogle` are the two inserts of a verification row with
  her answer about the device, their sweep of expired rows included; `AnswerOf` is
  `beforeSignIn` reading that answer before the row is consumed.
- `PassTheDoor, RefuseTheDoor` are `refuseDoorThatIsNotTheAdminDoor`, which reads the grant
  behind the consumed row; a link leaves a challenge, Google nothing. `CreateSession` is
  the session hook with the lifetime.
- `SignOut .. ConfirmSignOut` and `SignOutEverywhere .. CountAfter` are the two handlers
  with what they read back; `AuthoriseRevoke, RevokeSessions` the Admin's deletion.
- `Mint, Claim, Install, Quit` are a run of `admin:enrol`: the claim is read outside the
  transaction that installs. A setup link stands for the sheet of codes it showed.
- `SubmitCode, AcceptTotp, MatchBackupCode, SpendBackupCode, OpenAdminSession` are a code
  from the challenge to the session; the list of codes is compared with what was read when
  it is written (`StillAsRead`), a re-encryption of equal codes being a different
  ciphertext, which the token in `Factors` stands for. `GiveUp` is a refusal or a request
  that dies, after the code was spent as well as before.

The challenge is a signed cookie that is stored nowhere. A session does not end it: clearing
the cookie is hygiene and not revocation (`admin-door.ts:193-201`), so it admits further
codes until it expires (`ExpireChallenge`), and each code still opens one session.

A session keeps, as history, the row it came by, the grant as it stood when its request
came, and the factor it showed. Left out: linking of accounts, cookies' lifetimes, the
library's own rate limit, TOTP's window (whether digits verify is a choice of the model),
and the creation of an Account at its first link.

## 3. Runs

`MaxEdits`, `MaxFaults`, `MaxKeys`, in the photo runs what an object may hold
(`Contents`), in `RateLimit` `MaxTime`, `MaxCalls` and `MaxDelay`,
in `Profiles` `MaxClock`, `MaxVersion` and `MaxDelivered`, and the sizes of the sets are
the only bounds; `IdLeft` starts a send only while a row id is left for it. Sets of
interchangeable model values are declared symmetric in the runs that check safety and in
none that checks liveness.

Five runs hold several **instances** (`OfferExchange`, `OfferLiveness`, `PhotoReview`,
`Profiles`, `SignIn`): the MC module chooses one in its initial state and restricts the
next-state relation to it, so that their sizes add up instead of multiplying. Every
property is checked in each. The type invariants are checked as conjuncts of the inductive
ones (`ExchangeInv`, `PhotoInv`, `RateInv`, `ProfilesInv`, `SignInInv`). The four
refinements are properties of these runs too: `LifecycleSpec`, `PromiseSpec`,
`VocabularySpec`, `SignInPromiseSpec`. `OfferLifecycle` has no run of its own: what it
promises is proved, and the steps of it the code takes are reached through `LifecycleSpec`.

| Run (`.cfg`) | Instance | Shows |
|---|---|---|
| `OfferExchange` | 2 requests, 1 fault, 1 edit, and: *all*, every action with 1 Offer; *sending*, 2 Offers, 2 Hirers and 2 names, sends, pauses and freezes only; *review*, 2 Offers of one Hirer decided, answered and copied | the accept and the exchange are one, decisions are audited once, `OfferLifecycle` is implemented; what the lock on his row is for; her count, and what the copies said |
| `OfferLiveness` | 2 requests, 1 fault, only the Hirer frozen or blocked, and: *copies*, the whole life of 1 Offer with 1 edit; *sends*, 2 Offers of one Hirer, the second send waiting for the row the first has locked | every request ends, crashes included; both copies leave `pending` unless something faulted |
| `PhotoReview` | 2 keys, 2 public keys, 2 requests, and: *races*, 2 Workers, the lifecycle rule and 1 fault other than a rewrite; *rewritten*, 1 Worker, 2 faults, each a crash or a rewrite, so that one object may be written over and back | a profile shows what a card showed, up to an object written over twice; a rejected upload is on no profile; one decision per photo; a photo waits without its object only if the rule collected it; `PhotoPromise` is implemented |
| `RateLimit` | an address (2 per 4 ticks) and an IP (1 per 2), 2 requests, 4 charges, 9 ticks | a window admits exactly its first charges up to the ceiling, over the sweep; waits end in the next window; the invariant |
| `Profiles` | *vocabulary*, 2 Admins, 2 requests, 4 slugs of which 2 seeded; *submits*, 1 Worker, 2 submits, 2 texts, 2 Skills; *wall*, 3 Workers, pages of one, 3 instants; *browse*, the same with a filter, edits and a delivery each | a request is promoted once, `SkillVocabulary` is implemented; search text and Consent; walks miss nobody |
| `SignIn` | *links*, 2 links, and *google*, 2 starts in 2 browsers, each against 2 requests and a grant; *closing*, 3 sessions, 2 requests that close and one that opens; *codes*, 2 codes in flight of 2 and the digits, 1 challenge that may open 2 sessions, 2 enrolments of one Account of which the first link may expire, a revocation | the answer reaches the session; one door for Admins, two factors, one session per code; sign-outs are true; `SignInPromise` is implemented |
| `OfferPause`, `PhotoNewest`, `PhotoRejected`, `ProfilesBrowse`, `SignInNewest`, `SignInSpent` (violated) | the smallest that shows it | section 5 |

Why these are enough: every race here is between two requests on one row, so two
requests reach it; the count on her profile needs two Offers sharing no lock, and
*review* has them; a stale card needs a second key for the same Worker and a
misattached one needs a second Worker. One fault per behaviour places a crash at any
one step; in *rewritten* two let an object leave what it held and come back to it. In `RateLimit` nine ticks hold two windows of the address and the retention of
eight after its first, a second is two ticks so that waits are rounded, and four charges
overspend both ceilings. Three profiles and pages of one put a page's boundary between any
two of them, with a profile on either side of the cursor and a list that is exactly as
long as its pages; equal instants and equal counts make the ids decide. Two links or
starts tell one row's answer from another's; two codes tell spending one twice from
spending two at once; two enrolments replace a factor under a code in flight. For the
properties that are proved the bounds do not matter.

`CHECK_DEADLOCK FALSE` is said where the model may stop: in the photo runs, where the keys run out, in
`RateLimit`, where time and charges do, in the profile runs, where a walk ends, and in the
sign-in runs, where rows and sessions run out. In *review* the ending is an explicit
stutter (`Exhausted`), so that any other stuck state of the Offers is still reported.

### Fairness

`OfferLiveness` assumes `Fairness`. Each request's own next step is weakly fair: once a
Server Action runs, its statements follow one another, and `notifications.send` and
the database driver both answer or throw. `SendLock`, the only step that waits for
others, is strongly fair: other sends take and release the row in turn, and Postgres
keeps a queue for a row lock, so a waiter is served. Weak fairness would not do: in *sends*
TLC then finds a send passed over for ever by others of the same Hirer that take the row in
turn and are refused. Nothing is assumed of people
(`SendPost`, `AnswerLock`, `DecideLock` are never fair) nor of faults.

## 4. What is proved

For any sets of Accounts, Offers, requests, keys and any bounds, from the named
assumptions on the constants only (`WorkersAssumption`, `OffersAssumption`,
`BoundsAssumption`, `NoneAssumption`, `PhotoBounds`, `KeysAreTold`, `PhotoNone`,
`CeilingsAreDeclared`, `TimeIsCounted`, `SeedIsSlugs`, `SkillNone`, `ProfileBounds`,
`ProfileNone`, `WorkersAreFinite`, `RowsAreNotNone`, `DoorsAreTwo`, `SessionsNone`,
`TotpIsNoBackupCode`, `FactorsAreNotNone`):

- **Offers.** `OfferInv` is inductive, and gives type correctness, that details cross
  exactly on accept, that the count is the deliveries, and that decisions are audited
  once. The properties alone are not inductive: `Accept` writes the state without
  reading it again, so the invariant says that one request is inside an Offer's
  transactions at a time (`OneHolder`) and that the move it was granted under the lock
  is still permitted (`MoveStillPermitted`). `Lifecycle!Spec` follows: each step maps to
  one of `OfferLifecycle` or a stutter, under `life <- offerState` and
  `crossed <- {o : contactExchange[o] # None}`.
- **Sends.** `SendInv` is inductive relative to `OfferInv`: one send inside a Hirer's row
  (`OneSender`), whose reads beneath the lock still hold when it writes
  (`SenderIsActive`, `ScreenStillHolds`). It gives the two action properties and
  `ConsentBehindEveryOffer`.
- **Copies.** `MailInv`, relative to `OfferInv`: what a request carries is what the row
  holds (`CopiesOnTheirWay`).
- **The lifecycle itself.** `LifecycleInv` is inductive over the table of moves, and gives that
  crossed is accepted and that received and stamped disagree about nothing but a report;
  what leaves review stays out of it (`NoWayBackToReview`).
  The refinement carries them to the Offers (`ReviewIsLeftForGood`, `StampIsReceipt`).
- **Photos.** `PhotoInv` follows one key: minted for one Account; written or not; in at most
  one of an intent, one request that consumed it, a row that waits, or a decision; and
  what every card and every approval knows of what its object holds. `PublishedWasReviewed`
  needs it because an approval checks the object against an ETag it read from the row, and
  not against the card: the chain card - row - ETag - bytes is what the conjuncts
  `RowsWaitForADecision`, `CardsAreHers` and `ApprovalsFollowACard` hold together. It has an
  exception the code has too: an object written over at least twice may hold again what was
  recorded, after a card showed something else. Below two faults there is none, and
  `OneRewriteIsCaught` says so: the bytes published are bytes a card showed.
  `RejectedIsNeverShown` is the other half: an upload an Admin rejected is on no profile,
  whatever approval of it was in flight (the public bucket may still hold it, section 5).
  `WaitingHasItsObject` holds up to the lifecycle rule: nothing else takes the object of a
  photo that waits. `PhotoPromise` is implemented: an upload is fresh until her row names it
  (whatever statement spent its intent), what a profile shows is what the row recorded at
  the attach, the steps of an approval are one, at its commit, and what is written to, or
  collected from, either bucket is none.
- **Ceilings.** `RateInv`: a row no older than the retention has counted every charge ever
  made of its window (`RowsCountCharges`), which a sweep could break, and a charge under way
  is recent enough that its window is such a row (`ChargesAreRecent`, from `MaxDelay`). It
  gives `CeilingHolds` (a window admits its first charges up to the ceiling, no more and
  no fewer) and `SweptWindowsAreOver` (`ReachableIsKept` is the step between);
  `RefusalIsHonest` rests on `NextWindow` and `SecondsRoundedUp`, lemmas of arithmetic.
- **The vocabulary.** `SkillsInv`: one transaction holds a request's row and one claims a
  slug (`LocksExclude`), and what each read under its lock still stands (`LockedIsPending`);
  without them a commit could promote what another had. `Profiles_proofs` reuses the step
  lemmas, since every step of the composition is one of `SkillsNext` or leaves its
  variables alone (`VocabularyMoves`): the composition implies `SkillsSpec`
  (`ProfilesContainTheVocabulary`). `Skills` implements `SkillVocabulary`: an entry exists
  from the commit, whatever transaction had claimed its slug, and a rolled-back promotion is
  no step at all; with the composition, `Profiles` implements it as well.
- **Profiles and lists.** `ProfilesInv`. The lists need that ids are distinct
  (`IdsAreDistinct`), which makes both orders total, and `WalkedUpTo`: before the cursor are
  all who were met, after it all who were listed throughout and not met yet. That a page
  keeps this rests on lemmas about `Limited`, for any finite set and page size: it is a
  beginning of the order (`LimitedIsABeginning`), not empty unless the rows are
  (`LimitedIsNotEmpty`), and all of them when it holds fewer than its limit
  (`NothingIsLeft`, `PageSplits`).
- **Signing in.** `SignInInv`: a consumed row never opens again and keeps its answer, which is
  what a request past it carries (`JobsCarryTheAnswer`); a session names its row and factor
  (`SessionsAreExplained`); a spent code is in no factor and is spent by one session or one
  request about to open one (`CodesAreSpentOnce`). `EachCodeOpensOnce` is not inductive
  alone: between the swap and the session the code is held by a request. That rows,
  sessions and enrolments only go on (`RowsGoOn`, `SessionsGoOn`, `EnrolmentGoesOn`) keeps
  the conjuncts about them.
- **The promise of the doors.** `AdminDoor` implements `SignInPromise`. A link or start is
  *good* while its row is live and while the one request that consumed it has not opened a
  session (`Standing`), so consuming is no step, and the session, several hooks later, is
  the step that uses it up; it is *earned* while its challenge stands, which a session does not end, or a code submitted
  to it is in flight. A code may open a session while a factor holds it or the request that spent it
  does (`UsableCodes`), so the compare-and-swap is no step either, and a request that dies
  after it is the only way a code is lost. The promise has that as a step (`LoseCode`) because it is
  what the code does; that the comments deny it is `SpentCodesOpened`, violated in section 5. The mapping needs that a consumed
  row is one request's and is no challenge while it is (`RowsAreHeldOnce`). From the promise
  alone it follows that a link or a start opens one session, unless it led an Admin to her
  second factor, and that a backup code opens one (`WhatOpensASessionOpensOne`, by
  `OpensOnce`: what opened a session is not left to open another).

Only model-checked: `RequestsEnd` and `CopiesSettle` (liveness is beyond the prover), and
the violated properties of section 5.

## 5. Where the code and its documents disagree

- **A paused profile may receive one more Offer** (`OfferPause`). The send reads her
  visibility without a lock; the spec's story says nobody can send while it is on.
- **An older photo may overwrite a newer one** (`PhotoNewest`). `attachPhoto` spends the
  intent in one statement and writes her row in another, so two overlapping attaches
  may land in the other order.
- **A rejected photo may stay in the public bucket** (`PhotoRejected`), unreferenced: an
  approval that lost to the rejection wrote it first. A comment above `approvePhoto` accepts
  the orphan; the spec's "rejection deletes the object" covers "rows, objects and logs".
- **Browse passes somebody over** (`ProfilesBrowse`). The cursor is resolved to where its row
  stands now, so when the Worker it names is delivered to between two pages, everybody
  between her old place and her new one is skipped. `policy/listing.ts` says stored columns
  are what prevents that; they do while nothing is delivered, which is
  `BrowseWalkIsComplete`. The Wall, whose terms never change, is complete in any case.
- **An older setup link may stand** (`SignInNewest`). `completeAdminEnrolment` checks the link
  before its transaction and not in it, so a link printed meanwhile does not stop it, and
  is closed by it.

- **A backup code may be spent for nothing** (`SignInSpent`). `schema.ts:376-378` says one is
  consumed inside the transaction that establishes the session, and
  `second-factor.ts:195-198` says so again. There is no such transaction: the swap commits by
  itself, and a request that dies before its session has spent the code.

Read, and not a run of their own:

- `schema.ts:667` says the recorded ETag is what binds the bytes an Admin looked at to the
  bytes that are published. An ETag that is a digest does not, of an object written over
  and then back: the card showed the second bytes and the approval publishes the first. TLC
  finds `ReviewedBytesArePublished` violated so with two rewrites; with fewer it is a theorem
  (`OneRewriteIsCaught`). The presigned PUT's `If-None-Match` refuses both rewrites.
- `photos/index.ts:432-435` says a waiting photo cannot be replaced yet, and `changePhoto`
  replaces it; decisions are bound to the key, so `PublishedWasReviewed` holds all the same.

## 6. Plan

Done in this order: Offers, exchanges and photos, because people's details and faces are at
stake; the ceilings in front of every door; the vocabulary, profiles and their lists; the
doors. What would extend it:

1. `Profiles` and `OfferExchange` share a row (`delivered`, `paused`) and each models the
   other's writes as an action of its own; a composition would tie `Deliver` to the Offers.
2. Liveness of sign-in: that a live link opened once ends in a session or a refusal.

## 7. Not modelled, and why

Rendering, forms, validation and normalisation of text (a refused field is a request that
ends); email templates; signing and re-encoding; migrations, configuration, health and
observability (no state of their own); the authentication library's own endpoints, account
linking and e-mail change (not under `src/`: only what the hooks rest on is modelled);
folding of text for search; cryptography; export and account reads, which change nothing. Moves of an Offer with no writer yet (`on_hold`,
`expired`, `reported`) are in `OfferLifecycle` alone.
