------------------------------ MODULE PhotoReview ------------------------------
(***************************************************************************)
(* A Worker's photo, from the presigned upload to an Admin's decision:      *)
(* packages/domain/src/photos, the two photo handlers of packages/domain/   *)
(* src/admin/handlers.ts, and packages/storage/src/photos.ts.               *)
(*                                                                          *)
(* Two stores meet here and only one of them has transactions.  Attaching   *)
(* and approving are requests of several steps (a statement or a call to    *)
(* the object store each) that hold nothing between them; a request may die *)
(* after any of them.  A decision's own transaction is one step: it reads   *)
(* the profile's row under a lock and every writer of that row waits for it.*)
(*                                                                          *)
(* Quarantine keys are numbered in the order they are minted, which is all  *)
(* the properties ask of them.  An object's ETag is the digest of what it   *)
(* holds (storage/photos.ts:280-283), so here it is what the object holds:  *)
(* writing the earlier bytes again brings the earlier ETag back.            *)
(***************************************************************************)
EXTENDS Naturals, FiniteSets

CONSTANTS
  Workers,     \* Accounts that may publish a profile
  MaxKeys,     \* bound: quarantine keys ever minted
  Contents,    \* what an object may hold
  PublicKeys,  \* keys an object of the public bucket may be given
  Requests,    \* requests that may be in flight at once
  None,        \* SQL NULL, or nothing
  MaxFaults    \* bound: requests that die, and objects written again

Keys == 1..MaxKeys

ASSUME PhotoBounds == MaxKeys \in Nat /\ MaxFaults \in Nat
ASSUME KeysAreTold == Keys \cap PublicKeys = {}

VARIABLES
  published,     \* Accounts holding a CapabilityProfile
  photoState,    \* capability_profile.photo_state
  photoKey,      \* capability_profile.photo_key
  photoEtag,     \* capability_profile.photo_etag
  photoUpload,   \* photo_upload: the key an Account's intent names, or None
  mintedFor,     \* the Account a quarantine key was minted for, or None
  uploadUrls,    \* keys whose presigned PUT has not been used
  quarantine,    \* what the object under a quarantine key holds, or None
  rewrites,      \* times the object under a quarantine key was written over
  collected,     \* keys whose object the bucket's own rule took
  publicBucket,  \* the object under a public key, or None
  adminAction,   \* number of admin_action rows, by the photo they decided
  cards,         \* what the queue has shown an Admin: profile, key, bytes
  pc,            \* where each request is
  job,           \* what each request carries in memory
  faults         \* faults so far, bounded by MaxFaults

rowVars    == <<published, photoState, photoKey, photoEtag>>
uploadVars == <<photoUpload, mintedFor, uploadUrls>>
auditVars  == <<adminAction, cards>>
storeVars  == <<quarantine, rewrites, collected>>
photoVars  == <<rowVars, uploadVars, storeVars, publicBucket, auditVars, pc, job, faults>>
-----------------------------------------------------------------------------
PhotoStates == {"absent", "pending", "approved", "rejected"}
PhotoActs == {"approvePhoto", "rejectPhoto"}

AttachPCs == {"headed", "consumed"}
ApprovePCs == {"approving", "fetched", "promoted"}
PhotoPCs == {"idle", "discarding"} \cup AttachPCs \cup ApprovePCs

\* A card whose image is missing shows None.
Cards == [profile : Workers, key : Keys, bytes : Contents \cup {None}]
PublicObjects == [key : Keys, bytes : Contents]

ASSUME PhotoNone ==
  None \notin Workers \cup Keys \cup PublicKeys \cup Contents \cup PublicObjects

PhotoJobs ==
  [profile : Workers \cup {None},
   key     : Keys \cup {None},
   etag    : Contents \cup {None},
   made    : PublicKeys \cup {None}]

NoPhotoJob == [profile |-> None, key |-> None, etag |-> None, made |-> None]

Init ==
  /\ published = {}
  /\ photoState = [w \in Workers |-> "absent"]
  /\ photoKey = [w \in Workers |-> None]
  /\ photoEtag = [w \in Workers |-> None]
  /\ photoUpload = [w \in Workers |-> None]
  /\ mintedFor = [k \in Keys |-> None]
  /\ uploadUrls = {}
  /\ quarantine = [k \in Keys |-> None]
  /\ rewrites = [k \in Keys |-> 0]
  /\ collected = {}
  /\ publicBucket = [p \in PublicKeys |-> None]
  /\ adminAction = [k \in Keys |-> [a \in PhotoActs |-> 0]]
  /\ cards = {}
  /\ pc = [r \in Requests |-> "idle"]
  /\ job = [r \in Requests |-> NoPhotoJob]
  /\ faults = 0
-----------------------------------------------------------------------------
Goto(r, to) == pc' = [pc EXCEPT ![r] = to] /\ UNCHANGED job

Finish(r) ==
  /\ pc' = [pc EXCEPT ![r] = "idle"]
  /\ job' = [job EXCEPT ![r] = NoPhotoJob]

\* publishProfile: the row exists, with no photo yet.
Publish(w) ==
  /\ w \notin published
  /\ published' = published \cup {w}
  /\ UNCHANGED <<photoState, photoKey, photoEtag, uploadVars, storeVars, publicBucket,
                 auditVars, pc, job, faults>>
-----------------------------------------------------------------------------
(* The upload *)

NextKey(k) == mintedFor[k] = None /\ \A j \in Keys : j < k => mintedFor[j] # None

\* The upsert replaces whatever this Account's intent named, and the sweep
\* deletes those of other Accounts that are over an hour old (any of them).
IntentsAfter(w, k, stale) ==
  [v \in Workers |-> IF v = w THEN k ELSE IF v \in stale THEN None ELSE photoUpload[v]]

CreateUpload(w, k) ==
  /\ NextKey(k)
  /\ mintedFor' = [mintedFor EXCEPT ![k] = w]
  /\ \E stale \in SUBSET (Workers \ {w}) : photoUpload' = IntentsAfter(w, k, stale)
  /\ uploadUrls' = uploadUrls \cup {k}
  /\ UNCHANGED <<rowVars, storeVars, publicBucket, auditVars, pc, job, faults>>

\* External: the browser's PUT.  If-None-Match: * makes the URL one write.
PutObject(k, b) ==
  /\ k \in uploadUrls
  /\ uploadUrls' = uploadUrls \ {k}
  /\ quarantine' = [quarantine EXCEPT ![k] = b]
  /\ UNCHANGED <<rowVars, photoUpload, mintedFor, rewrites, collected, publicBucket, auditVars,
                 pc, job, faults>>

\* External: the store did not honour that condition, or a tool holding its
\* credential wrote other bytes over the object, earlier ones perhaps.
RewriteObject(k, b) ==
  /\ quarantine[k] \notin {None, b}
  /\ faults < MaxFaults
  /\ faults' = faults + 1
  /\ quarantine' = [quarantine EXCEPT ![k] = b]
  /\ rewrites' = [rewrites EXCEPT ![k] = @ + 1]
  /\ UNCHANGED <<rowVars, uploadVars, collected, publicBucket, auditVars, pc, job>>

\* External: the lifecycle rule of the quarantine bucket, which collects what nobody
\* reviewed.  It counts days and reads no row, so here it may come at any time.
CollectObject(k) ==
  /\ quarantine[k] # None
  /\ quarantine' = [quarantine EXCEPT ![k] = None]
  /\ collected' = collected \cup {k}
  /\ UNCHANGED <<rowVars, uploadVars, rewrites, publicBucket, auditVars, pc, job, faults>>
-----------------------------------------------------------------------------
(* photos.attach: a HEAD of the object, then two statements of their own.   *)
(* The key comes back from the browser; both callers are Server Actions.    *)

AttachHead(r, w, k) ==
  /\ pc[r] = "idle"
  /\ quarantine[k] # None
  /\ pc' = [pc EXCEPT ![r] = "headed"]
  /\ job' = [job EXCEPT ![r] =
               [NoPhotoJob EXCEPT !.profile = w, !.key = k, !.etag = quarantine[k]]]
  /\ UNCHANGED <<rowVars, uploadVars, storeVars, publicBucket, auditVars, faults>>

\* Definitions named ...Instead or ...Anyway are mutants: the form a plausible
\* bug would give the definition after them.  Nothing uses them.
IntentOfAnyoneInstead(w, k) == \E v \in Workers : photoUpload[v] = k
HoldsIntent(w, k) == photoUpload[w] = k
IntentKeptInstead(w) == photoUpload
IntentsWithout(w) == [photoUpload EXCEPT ![w] = None]

\* DELETE ... RETURNING on the Account and the key: found, it is consumed.
AttachConsume(r) ==
  /\ pc[r] = "headed"
  /\ IF HoldsIntent(job[r].profile, job[r].key)
       THEN photoUpload' = IntentsWithout(job[r].profile) /\ Goto(r, "consumed")
       ELSE Finish(r) /\ UNCHANGED photoUpload
  /\ UNCHANGED <<rowVars, mintedFor, uploadUrls, storeVars, publicBucket, auditVars, faults>>

\* The UPDATE of her row, if she has one; the intent is spent either way.
AttachWrite(r) ==
  LET j == job[r] IN
  /\ pc[r] = "consumed"
  /\ IF j.profile \in published
       THEN /\ photoState' = [photoState EXCEPT ![j.profile] = "pending"]
            /\ photoKey' = [photoKey EXCEPT ![j.profile] = j.key]
            /\ photoEtag' = [photoEtag EXCEPT ![j.profile] = j.etag]
       ELSE UNCHANGED <<photoState, photoKey, photoEtag>>
  /\ Finish(r)
  /\ UNCHANGED <<published, uploadVars, storeVars, publicBucket, auditVars, faults>>
-----------------------------------------------------------------------------
(* An Admin's queue and decisions *)

\* The queue renders a card and its image.  A card outlives what it shows.
ShowCard(w) ==
  /\ photoState[w] = "pending"
  /\ cards' = cards \cup
       {[profile |-> w, key |-> photoKey[w], bytes |-> quarantine[photoKey[w]]]}
  /\ UNCHANGED <<rowVars, uploadVars, storeVars, publicBucket, adminAction, pc, job, faults>>

\* What readPendingKey and, under the lock, lockPendingPhoto both check.
StillPendingInstead(w, k) == photoState[w] = "pending"
IsWaiting(w, k) == photoState[w] = "pending" /\ photoKey[w] = k

ApproveRead(r, c) ==
  /\ pc[r] = "idle"
  /\ IsWaiting(c.profile, c.key)
  /\ pc' = [pc EXCEPT ![r] = "approving"]
  /\ job' = [job EXCEPT ![r] =
               [NoPhotoJob EXCEPT !.profile = c.profile, !.key = c.key,
                                  !.etag = photoEtag[c.profile]]]
  /\ UNCHANGED <<rowVars, uploadVars, storeVars, publicBucket, auditVars, faults>>

AnyVersionInstead(j) == quarantine[j.key] # None
IsTheRecordedObject(j) == quarantine[j.key] = j.etag

\* The bytes are read, held to the recorded identity, and re-encoded; an
\* object that is gone, is another, or is no picture ends the request.
ApproveFetch(r) ==
  /\ pc[r] = "approving"
  /\ \/ /\ IsTheRecordedObject(job[r])
        /\ pc' = [pc EXCEPT ![r] = "fetched"]
        /\ job' = [job EXCEPT ![r].etag = quarantine[job[r].key]]
     \/ Finish(r)
  /\ UNCHANGED <<rowVars, uploadVars, storeVars, publicBucket, auditVars, faults>>

\* The re-encoded bytes are written under a key minted for them.
ApprovePut(r, p) ==
  /\ pc[r] = "fetched"
  /\ publicBucket[p] = None
  /\ publicBucket' = [publicBucket EXCEPT ![p] = [key |-> job[r].key, bytes |-> job[r].etag]]
  /\ pc' = [pc EXCEPT ![r] = "promoted"]
  /\ job' = [job EXCEPT ![r].made = p]
  /\ UNCHANGED <<rowVars, uploadVars, storeVars, auditVars, faults>>

Audited(k, act) == [adminAction EXCEPT ![k][act] = @ + 1]

\* The row and its AdminAction in one transaction, or a refusal.
ApproveCommit(r) ==
  LET j == job[r] IN
  /\ pc[r] = "promoted"
  /\ IF IsWaiting(j.profile, j.key)
       THEN /\ photoState' = [photoState EXCEPT ![j.profile] = "approved"]
            /\ photoKey' = [photoKey EXCEPT ![j.profile] = j.made]
            /\ photoEtag' = [photoEtag EXCEPT ![j.profile] = None]
            /\ adminAction' = Audited(j.key, "approvePhoto")
       ELSE UNCHANGED <<photoState, photoKey, photoEtag, adminAction>>
  /\ Finish(r)
  /\ UNCHANGED <<published, uploadVars, storeVars, publicBucket, cards, faults>>

\* Rejecting goes the other way round: the row and its audit first,
RejectCommit(r, c) ==
  /\ pc[r] = "idle"
  /\ IsWaiting(c.profile, c.key)
  /\ photoState' = [photoState EXCEPT ![c.profile] = "rejected"]
  /\ photoKey' = [photoKey EXCEPT ![c.profile] = None]
  /\ photoEtag' = [photoEtag EXCEPT ![c.profile] = None]
  /\ adminAction' = Audited(photoKey[c.profile], "rejectPhoto")
  /\ pc' = [pc EXCEPT ![r] = "discarding"]
  /\ job' = [job EXCEPT ![r] = [NoPhotoJob EXCEPT !.key = photoKey[c.profile]]]
  /\ UNCHANGED <<published, uploadVars, storeVars, publicBucket, cards, faults>>

\* then the object.  A delete that fails is logged: the request just ends.
Discard(r) ==
  /\ pc[r] = "discarding"
  /\ quarantine' = [quarantine EXCEPT ![job[r].key] = None]
  /\ Finish(r)
  /\ UNCHANGED <<rowVars, uploadVars, rewrites, collected, publicBucket, auditVars, faults>>

\* The process dies, or a store does not answer: what was written stays.
Crash(r) ==
  /\ pc[r] # "idle"
  /\ faults < MaxFaults
  /\ faults' = faults + 1
  /\ Finish(r)
  /\ UNCHANGED <<rowVars, uploadVars, storeVars, publicBucket, auditVars>>
-----------------------------------------------------------------------------
Upload ==
  \/ \E w \in Workers : Publish(w)
  \/ \E w \in Workers, k \in Keys : CreateUpload(w, k)
  \/ \E k \in Keys, b \in Contents : PutObject(k, b) \/ RewriteObject(k, b)
  \/ \E k \in Keys : CollectObject(k)

Attach(r) ==
  \/ \E w \in Workers, k \in Keys : AttachHead(r, w, k)
  \/ AttachConsume(r) \/ AttachWrite(r)

Review(r) ==
  \/ \E c \in cards : ApproveRead(r, c) \/ RejectCommit(r, c)
  \/ ApproveFetch(r)
  \/ \E p \in PublicKeys : ApprovePut(r, p)
  \/ ApproveCommit(r) \/ Discard(r)

Next ==
  \/ Upload
  \/ \E w \in Workers : ShowCard(w)
  \/ \E r \in Requests : Attach(r) \/ Review(r) \/ Crash(r)

Spec == Init /\ [][Next]_photoVars
-----------------------------------------------------------------------------
(* Properties *)

\* Every variable holds a value its column, its store or its request may hold.
PhotoTypeOK ==
  /\ published \subseteq Workers
  /\ photoState \in [Workers -> PhotoStates]
  /\ photoKey \in [Workers -> Keys \cup PublicKeys \cup {None}]
  /\ photoEtag \in [Workers -> Contents \cup {None}]
  /\ photoUpload \in [Workers -> Keys \cup {None}]
  /\ mintedFor \in [Keys -> Workers \cup {None}]
  /\ uploadUrls \subseteq Keys
  /\ quarantine \in [Keys -> Contents \cup {None}]
  /\ rewrites \in [Keys -> 0..MaxFaults]
  /\ collected \subseteq Keys
  /\ publicBucket \in [PublicKeys -> PublicObjects \cup {None}]
  /\ adminAction \in [Keys -> [PhotoActs -> Nat]]
  /\ cards \subseteq Cards
  /\ pc \in [Requests -> PhotoPCs]
  /\ job \in [Requests -> PhotoJobs]
  /\ faults \in 0..MaxFaults

\* The object is a picture of the card's upload, and of the bytes the card showed: an
\* ETag tells them from others, but for an object that was written away and back.
MadeFrom(p, c) ==
  /\ publicBucket[p] \in PublicObjects
  /\ publicBucket[p].key = c.key
  /\ c.bytes = publicBucket[p].bytes \/ rewrites[c.key] >= 2

\* What an approved profile shows is an object that exists, made from the very bytes
\* an Admin was shown on a card of that profile: no decision publishes a photo attached,
\* or an object written over once, after it (photos.ts:396-413).
PublishedWasReviewed ==
  \A w \in Workers :
    photoState[w] = "approved" =>
      \E p \in PublicKeys, c \in cards : photoKey[w] = p /\ c.profile = w /\ MadeFrom(p, c)

\* "It is what binds the bytes an Admin looked at to the bytes that get published"
\* (schema.ts:667, of the ETag): the same without that exception.
ReviewedBytesArePublished ==
  \A w \in Workers :
    photoState[w] = "approved" =>
      \E p \in PublicKeys, c \in cards :
        /\ photoKey[w] = p
        /\ c.profile = w
        /\ publicBucket[p] = [key |-> c.key, bytes |-> c.bytes]

\* A photo is decided at most once, whichever Admins race over it and however
\* often its key is posted again: an attach spends the key, a decision the row.
DecidedOnce ==
  \A k \in Keys : adminAction[k]["approvePhoto"] + adminAction[k]["rejectPhoto"] <= 1

\* A photo an Admin refused is on no profile, whatever was approved, attached or
\* written to the public bucket meanwhile (photos.ts:396-413, the spec's DD6).
RejectedIsNeverShown ==
  \A w \in Workers, p \in PublicKeys :
    photoState[w] = "approved" /\ photoKey[w] = p =>
      adminAction[publicBucket[p].key]["rejectPhoto"] = 0

\* While a row says `pending` its bytes are there, unless the bucket's own rule took
\* them: no attach leaves a row on an object that a rejection deletes, or is deleting.
WaitingHasItsObject ==
  \A w \in Workers :
    photoState[w] = "pending" => quarantine[photoKey[w]] # None \/ photoKey[w] \in collected

\* Claimed by schema.ts:1283-1286: she picks another, and only the last one
\* counts; a photo waiting gives way to a newer one, never to an older one.
NewestPhotoStands ==
  [][\A w \in Workers :
       photoState[w] = "pending" /\ photoState'[w] = "pending" =>
         photoKey'[w] >= photoKey[w]]_photoVars

\* Claimed by spec.md DD6 step 5: rejection deletes the object.  Once nothing
\* is in flight and nothing has faulted, no store keeps a rejected photo.
RejectionDeletesTheObject ==
  \A k \in Keys :
    /\ adminAction[k]["rejectPhoto"] > 0
    /\ \A r \in Requests : pc[r] = "idle"
    /\ faults = 0
    => /\ quarantine[k] = None
       /\ \A p \in PublicKeys : publicBucket[p] # None => publicBucket[p].key # k

-----------------------------------------------------------------------------
(* The promise *)

\* An attach that has consumed the intent may still write its row.
Carries(r, k) == pc[r] = "consumed" /\ job[r].key = k

FreshKeys ==
  {k \in Keys : (\E w \in Workers : photoUpload[w] = k) \/ \E r \in Requests : Carries(r, k)}

\* What waits is an upload, and what its object held when she attached it.
WaitingPhoto ==
  [w \in Workers |->
     IF photoState[w] = "pending" THEN [key |-> photoKey[w], bytes |-> photoEtag[w]] ELSE None]

ShownPhoto ==
  [w \in Workers |-> IF photoState[w] = "approved" THEN publicBucket[photoKey[w]] ELSE None]

SeenUploads == {c.key : c \in cards}

Verdicts ==
  [k \in Keys |-> IF adminAction[k]["approvePhoto"] > 0 THEN "approved"
                  ELSE IF adminAction[k]["rejectPhoto"] > 0 THEN "rejected" ELSE "none"]

Promise == INSTANCE PhotoPromise WITH
  owner <- mintedFor, fresh <- FreshKeys, waiting <- WaitingPhoto, shown <- ShownPhoto,
  seen <- SeenUploads, verdict <- Verdicts

\* Two stores, two statements and requests that die between them amount to what
\* PhotoPromise says in one step each (the table of photos/index.ts:15-20).
PromiseSpec == Promise!Spec

=============================================================================
