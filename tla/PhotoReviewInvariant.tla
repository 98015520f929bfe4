------------------------ MODULE PhotoReviewInvariant ------------------------
(***************************************************************************)
(* The inductive invariant behind the safety properties of PhotoReview: it  *)
(* follows one quarantine key from the URL that names it to the decision    *)
(* that spends it.                                                          *)
(***************************************************************************)
EXTENDS PhotoReview

\* Its presigned PUT has been used, so an object was there once.
Written(k) == mintedFor[k] # None /\ k \notin uploadUrls

Undecided(k) == \A a \in PhotoActs : adminAction[k][a] = 0

NeverShown(k) == \A c \in cards : c.key # k

\* Nothing but the intent, or the request that consumed it, holds the key yet.
Unattached(k) ==
  /\ Undecided(k)
  /\ NeverShown(k)
  /\ \A w \in Workers : ~IsWaiting(w, k)

\* Nobody wrote over the object since this ETag was read.
AsItWas(k, etag) == rewrites[k] = 0 /\ quarantine[k] # None => quarantine[k] = etag

\* With one write at most, an object that has this ETag now had it on every card.
CardsShow(k, etag) ==
  rewrites[k] < 2 /\ quarantine[k] = etag => \A c \in cards : c.key = k => c.bytes = etag

\* A URL names an object that is not there yet; an object leaves by the bucket's
\* rule, or after the rejection that deletes it has committed.
ObjectsAreAccountedFor ==
  \A k \in Keys :
    /\ rewrites[k] <= faults
    /\ k \in uploadUrls => mintedFor[k] # None
    /\ mintedFor[k] = None => Unattached(k)
    /\ ~Written(k) => quarantine[k] = None
    /\ Written(k) /\ adminAction[k]["rejectPhoto"] = 0 => quarantine[k] # None \/ k \in collected

IntentsAreFresh ==
  \A w \in Workers : photoUpload[w] # None =>
    /\ mintedFor[photoUpload[w]] = w
    /\ Unattached(photoUpload[w])
    /\ \A r \in Requests : ~Carries(r, photoUpload[w])

RowsWaitForADecision ==
  \A w \in Workers : photoState[w] = "pending" =>
    /\ photoKey[w] \in Keys
    /\ Written(photoKey[w])
    /\ mintedFor[photoKey[w]] = w
    /\ Undecided(photoKey[w])
    /\ photoEtag[w] \in Contents
    /\ AsItWas(photoKey[w], photoEtag[w])
    /\ CardsShow(photoKey[w], photoEtag[w])

CardsAreHers ==
  \A c \in cards : Written(c.key) /\ mintedFor[c.key] = c.profile

AttachesHoldTheKey ==
  \A r \in Requests : pc[r] \in AttachPCs =>
    /\ job[r].profile \in Workers
    /\ job[r].key \in Keys
    /\ Written(job[r].key)
    /\ job[r].etag \in Contents
    /\ AsItWas(job[r].key, job[r].etag)

ConsumedOnce ==
  \A r \in Requests : pc[r] = "consumed" =>
    /\ mintedFor[job[r].key] = job[r].profile
    /\ Unattached(job[r].key)
    /\ \A q \in Requests : Carries(q, job[r].key) => q = r

\* An approval carries the ETag of the row it read, which its row has while it waits;
\* once the bytes are read, a card has shown them.
ApprovalsFollowACard ==
  \A r \in Requests : pc[r] \in ApprovePCs =>
    LET j == job[r] IN
    /\ j.profile \in Workers /\ j.key \in Keys /\ j.etag \in Contents
    /\ IsWaiting(j.profile, j.key) => photoEtag[j.profile] = j.etag
    /\ AsItWas(j.key, j.etag)
    /\ CardsShow(j.key, j.etag)
    /\ \E c \in cards :
         /\ c.profile = j.profile
         /\ c.key = j.key
         /\ pc[r] # "approving" => c.bytes = j.etag \/ rewrites[j.key] >= 2

PromotionsAreWritten ==
  \A r \in Requests : pc[r] = "promoted" =>
    /\ job[r].made \in PublicKeys
    /\ publicBucket[job[r].made] = [key |-> job[r].key, bytes |-> job[r].etag]

DiscardsFollowARejection ==
  \A r \in Requests : pc[r] = "discarding" =>
    /\ job[r].key \in Keys
    /\ adminAction[job[r].key]["rejectPhoto"] # 0

\* What a profile shows was decided, and not against.
ShownIsApproved ==
  \A w \in Workers : photoState[w] = "approved" =>
    adminAction[publicBucket[photoKey[w]].key]["approvePhoto"] = 1

PhotoInv ==
  /\ PhotoTypeOK
  /\ ObjectsAreAccountedFor
  /\ IntentsAreFresh
  /\ RowsWaitForADecision
  /\ CardsAreHers
  /\ AttachesHoldTheKey
  /\ ConsumedOnce
  /\ ApprovalsFollowACard
  /\ PromotionsAreWritten
  /\ DiscardsFollowARejection
  /\ DecidedOnce
  /\ PublishedWasReviewed
  /\ ShownIsApproved

=============================================================================
