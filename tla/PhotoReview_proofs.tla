-------------------------- MODULE PhotoReview_proofs --------------------------
(***************************************************************************)
(* PhotoInv is an invariant of PhotoReview, for any number of Workers,      *)
(* keys, requests and faults: one lemma per action, one step per conjunct.  *)
(***************************************************************************)
EXTENDS PhotoReviewInvariant, TLAPS

LEMMA TypeInit == Init => PhotoTypeOK
  BY PhotoBounds DEF Init, PhotoTypeOK, PhotoStates, PhotoPCs, PhotoJobs, NoPhotoJob, PhotoActs,
     Keys

LEMMA InvInit == Init => PhotoInv
<1> SUFFICES ASSUME Init PROVE PhotoInv
  OBVIOUS
<1>1. PhotoTypeOK
  BY TypeInit
<1>2. ObjectsAreAccountedFor
  BY PhotoNone DEF Init, ObjectsAreAccountedFor, Written, Unattached, Undecided, NeverShown,
     IsWaiting
<1>3. IntentsAreFresh /\ RowsWaitForADecision /\ CardsAreHers
  BY DEF Init, IntentsAreFresh, RowsWaitForADecision, CardsAreHers
<1>4. AttachesHoldTheKey /\ ConsumedOnce /\ ApprovalsFollowACard
  BY DEF Init, AttachesHoldTheKey, ConsumedOnce, ApprovalsFollowACard, AttachPCs, ApprovePCs
<1>5. PromotionsAreWritten /\ DiscardsFollowARejection
  BY DEF Init, PromotionsAreWritten, DiscardsFollowARejection
<1>6. DecidedOnce /\ PublishedWasReviewed /\ ShownIsApproved
  BY DEF Init, DecidedOnce, PublishedWasReviewed, ShownIsApproved, PhotoActs
<1> QED
  BY <1>1, <1>2, <1>3, <1>4, <1>5, <1>6 DEF PhotoInv

-----------------------------------------------------------------------------
(* Frames *)

LEMMA FaultsAreNumbers ==
  ASSUME PhotoTypeOK
  PROVE  faults \in Nat /\ \A k \in Keys : rewrites[k] \in Nat
  BY PhotoBounds DEF PhotoTypeOK

\* What an approved profile shows is undisturbed by a step that leaves the rows
\* and adds, at most, a card or a public object.
LEMMA PublishedFrame ==
  ASSUME PublishedWasReviewed, ShownIsApproved,
         UNCHANGED <<photoState, photoKey, adminAction>>,
         cards \subseteq cards',
         \A k \in Keys : rewrites[k] >= 2 => rewrites'[k] >= 2,
         \A p \in PublicKeys : publicBucket[p] # None => publicBucket'[p] = publicBucket[p]
  PROVE  PublishedWasReviewed' /\ ShownIsApproved'
<1>1. ASSUME NEW w \in Workers, photoState'[w] = "approved"
      PROVE  /\ publicBucket'[photoKey'[w]] = publicBucket[photoKey[w]]
             /\ \E p \in PublicKeys, c \in cards' :
                  photoKey'[w] = p /\ c.profile = w /\ MadeFrom(p, c)'
  <2>1. PICK p \in PublicKeys, c \in cards : photoKey[w] = p /\ c.profile = w /\ MadeFrom(p, c)
    BY <1>1 DEF PublishedWasReviewed
  <2>2. publicBucket'[p] = publicBucket[p]
    BY <2>1, PhotoNone DEF MadeFrom
  <2>3. MadeFrom(p, c)'
    BY <2>1, <2>2 DEF MadeFrom, PublicObjects
  <2> QED BY <2>1, <2>2, <2>3
<1>2. PublishedWasReviewed'
  BY <1>1 DEF PublishedWasReviewed
<1>3. ShownIsApproved'
  BY <1>1 DEF ShownIsApproved
<1> QED BY <1>2, <1>3

\* Keys, rows and cards are undisturbed by a step that only moves a request.
LEMMA KeysFrame ==
  ASSUME PhotoInv, UNCHANGED <<rowVars, uploadVars, storeVars, auditVars>>,
         faults' \in Nat, faults' >= faults
  PROVE  /\ ObjectsAreAccountedFor'
         /\ RowsWaitForADecision'
         /\ CardsAreHers'
         /\ DecidedOnce'
<1>1. ObjectsAreAccountedFor'
  BY FaultsAreNumbers DEF PhotoInv, ObjectsAreAccountedFor, Written, Unattached, Undecided,
     NeverShown, IsWaiting, rowVars, uploadVars, auditVars, storeVars
<1>2. RowsWaitForADecision'
  BY DEF PhotoInv, RowsWaitForADecision, Written, Undecided, rowVars, uploadVars, auditVars,
   storeVars, AsItWas, CardsShow
<1>3. CardsAreHers'
  BY DEF PhotoInv, CardsAreHers, Written, rowVars, uploadVars, auditVars
<1>4. DecidedOnce'
  BY DEF PhotoInv, DecidedOnce, auditVars
<1> QED BY <1>1, <1>2, <1>3, <1>4

\* A request that ends, having changed nothing else.
LEMMA FinishKeepsPhotos ==
  ASSUME PhotoInv, NEW r \in Requests, Finish(r),
         UNCHANGED <<rowVars, uploadVars, storeVars, publicBucket, auditVars>>,
         faults' \in faults..MaxFaults
  PROVE  PhotoInv'
<1>1. PhotoTypeOK'
  BY PhotoBounds DEF PhotoInv, PhotoTypeOK, Finish, NoPhotoJob, PhotoJobs, PhotoPCs, rowVars,
     uploadVars, auditVars, storeVars
<1>2. PhotoTypeOK /\ PublishedWasReviewed /\ ShownIsApproved /\ faults \in Nat
  BY FaultsAreNumbers DEF PhotoInv
<1>3. faults' \in Nat /\ faults' >= faults
  BY <1>2, PhotoBounds
<1>4. ObjectsAreAccountedFor' /\ RowsWaitForADecision' /\ CardsAreHers' /\ DecidedOnce'
  BY KeysFrame, <1>3
<1>5. PublishedWasReviewed' /\ ShownIsApproved'
  BY PublishedFrame, <1>2 DEF rowVars, auditVars, storeVars
<1>6. pc'[r] = "idle" /\ \A q \in Requests : q # r => pc'[q] = pc[q] /\ job'[q] = job[q]
  BY DEF PhotoInv, PhotoTypeOK, Finish
<1>7. IntentsAreFresh'
  BY <1>6 DEF PhotoInv, IntentsAreFresh, Unattached, Undecided, NeverShown, IsWaiting, Carries,
     rowVars, uploadVars, auditVars
<1>8. AttachesHoldTheKey'
  BY <1>6 DEF PhotoInv, AttachesHoldTheKey, AttachPCs, Written, uploadVars, storeVars, AsItWas
<1>9. ConsumedOnce'
  BY <1>6 DEF PhotoInv, ConsumedOnce, Unattached, Undecided, NeverShown, IsWaiting, Carries,
     rowVars, uploadVars, auditVars
<1>10. ApprovalsFollowACard' /\ PromotionsAreWritten' /\ DiscardsFollowARejection'
  BY <1>6 DEF PhotoInv, ApprovalsFollowACard, PromotionsAreWritten, DiscardsFollowARejection,
     ApprovePCs, IsWaiting, rowVars, auditVars, storeVars, AsItWas, CardsShow
<1> QED BY <1>1, <1>4, <1>5, <1>7, <1>8, <1>9, <1>10 DEF PhotoInv

-----------------------------------------------------------------------------
(* One lemma for each action *)

LEMMA PublishKeeps ==
  ASSUME PhotoInv, NEW w \in Workers, Publish(w)
  PROVE  PhotoInv'
<1>1. PhotoTypeOK'
  BY DEF PhotoInv, PhotoTypeOK, Publish, uploadVars, auditVars, storeVars
<1>2. ObjectsAreAccountedFor'
  BY DEF PhotoInv, ObjectsAreAccountedFor, Written, Unattached, Undecided, NeverShown, IsWaiting,
     Publish, uploadVars, auditVars, storeVars
<1>3. IntentsAreFresh'
  BY DEF PhotoInv, IntentsAreFresh, Unattached, Undecided, NeverShown, IsWaiting, Carries,
     Publish, uploadVars, auditVars
<1>4. RowsWaitForADecision'
  BY DEF PhotoInv, RowsWaitForADecision, Written, Undecided, Publish, uploadVars, auditVars,
   storeVars, AsItWas, CardsShow
<1>5. CardsAreHers'
  BY DEF PhotoInv, CardsAreHers, Written, Publish, uploadVars, auditVars
<1>6. AttachesHoldTheKey'
  BY DEF PhotoInv, AttachesHoldTheKey, Written, Publish, uploadVars, storeVars, AsItWas
<1>7. ConsumedOnce'
  BY DEF PhotoInv, ConsumedOnce, Unattached, Undecided, NeverShown, IsWaiting, Carries, Publish,
     uploadVars, auditVars
<1>8. ApprovalsFollowACard'
  BY DEF PhotoInv, ApprovalsFollowACard, Publish, IsWaiting, auditVars, storeVars, AsItWas,
     CardsShow
<1>9. PromotionsAreWritten'
  BY DEF PhotoInv, PromotionsAreWritten, Publish
<1>10. DiscardsFollowARejection'
  BY DEF PhotoInv, DiscardsFollowARejection, Publish, auditVars
<1>11. DecidedOnce'
  BY DEF PhotoInv, DecidedOnce, Publish, auditVars
<1>12. PublishedWasReviewed' /\ ShownIsApproved'
  BY PublishedFrame DEF PhotoInv, Publish, rowVars, auditVars, storeVars
<1> QED BY <1>1, <1>2, <1>3, <1>4, <1>5, <1>6, <1>7, <1>8, <1>9, <1>10, <1>11, <1>12 DEF PhotoInv

LEMMA CreateUploadKeeps ==
  ASSUME PhotoInv, NEW w \in Workers, NEW k \in Keys, CreateUpload(w, k)
  PROVE  PhotoInv'
<1>1. /\ \A j \in Keys : mintedFor'[j] = IF j = k THEN w ELSE mintedFor[j]
      /\ mintedFor[k] = None /\ w # None
  BY PhotoNone DEF PhotoInv, PhotoTypeOK, CreateUpload, NextKey
<1>2. Unattached(k) /\ \A r \in Requests : ~Carries(r, k)
  BY <1>1 DEF PhotoInv, ObjectsAreAccountedFor, AttachesHoldTheKey, AttachPCs, Carries, Written
<1>3. /\ photoUpload'[w] = k
      /\ \A v \in Workers : v # w => photoUpload'[v] \in {None, photoUpload[v]}
  BY DEF CreateUpload, IntentsAfter
<1>4. PhotoTypeOK'
  BY DEF PhotoInv, PhotoTypeOK, CreateUpload, IntentsAfter, rowVars, auditVars, storeVars
<1>5. ObjectsAreAccountedFor'
  BY <1>1, <1>2 DEF PhotoInv, ObjectsAreAccountedFor, Written, Unattached, Undecided, NeverShown,
     IsWaiting, CreateUpload, rowVars, auditVars, storeVars
<1>6. IntentsAreFresh'
  <2> SUFFICES ASSUME NEW v \in Workers, photoUpload'[v] # None
               PROVE  /\ mintedFor'[photoUpload'[v]] = v
                      /\ Unattached(photoUpload'[v])
                      /\ \A r \in Requests : ~Carries(r, photoUpload'[v])
    BY DEF IntentsAreFresh, Unattached, Undecided, NeverShown, IsWaiting, Carries, CreateUpload,
       rowVars, auditVars
  <2>1. CASE v = w
    BY <2>1, <1>1, <1>2, <1>3
  <2>2. CASE v # w
    <3>1. photoUpload'[v] = photoUpload[v] /\ photoUpload[v] # None
      BY <2>2, <1>3
    <3>2. photoUpload[v] \in Keys
      BY <3>1 DEF PhotoInv, PhotoTypeOK
    <3>3. mintedFor[photoUpload[v]] = v /\ v # None
      BY <3>1, PhotoNone DEF PhotoInv, IntentsAreFresh
    <3> QED BY <1>1, <3>1, <3>2, <3>3 DEF PhotoInv, IntentsAreFresh
  <2> QED BY <2>1, <2>2
<1>7. RowsWaitForADecision'
  BY DEF PhotoInv, RowsWaitForADecision, Written, Undecided, CreateUpload, NextKey, rowVars,
     auditVars, storeVars, AsItWas, CardsShow
<1>8. CardsAreHers'
  BY DEF PhotoInv, CardsAreHers, Written, CreateUpload, NextKey, auditVars
<1>9. AttachesHoldTheKey'
  BY DEF PhotoInv, AttachesHoldTheKey, Written, CreateUpload, NextKey, storeVars, AsItWas
<1>10. ConsumedOnce'
  BY DEF PhotoInv, ConsumedOnce, Written, Unattached, Undecided, NeverShown, IsWaiting, Carries,
     AttachesHoldTheKey, AttachPCs, CreateUpload, NextKey, rowVars, auditVars, storeVars
<1>11. ApprovalsFollowACard'
  BY DEF PhotoInv, ApprovalsFollowACard, CreateUpload, IsWaiting, rowVars, auditVars, storeVars,
     AsItWas, CardsShow
<1>12. PromotionsAreWritten'
  BY DEF PhotoInv, PromotionsAreWritten, CreateUpload
<1>13. DiscardsFollowARejection'
  BY DEF PhotoInv, DiscardsFollowARejection, CreateUpload, auditVars
<1>14. DecidedOnce'
  BY DEF PhotoInv, DecidedOnce, CreateUpload, auditVars
<1>15. PublishedWasReviewed' /\ ShownIsApproved'
  BY PublishedFrame DEF PhotoInv, CreateUpload, rowVars, auditVars, storeVars
<1> QED BY <1>4, <1>5, <1>6, <1>7, <1>8, <1>9, <1>10, <1>11, <1>12, <1>13, <1>14, <1>15
   DEF PhotoInv

LEMMA PutObjectKeeps ==
  ASSUME PhotoInv, NEW k \in Keys, NEW b \in Contents, PutObject(k, b)
  PROVE  PhotoInv'
<1>1. PhotoTypeOK /\ ~Written(k) /\ mintedFor[k] # None
  BY DEF PhotoInv, ObjectsAreAccountedFor, PutObject, Written
<1>2. /\ \A j \in Keys : quarantine'[j] = IF j = k THEN b ELSE quarantine[j]
      /\ b # None
  BY <1>1, PhotoNone DEF PhotoTypeOK, PutObject
<1>3. \A j \in Keys : \A e : j # k =>
        (AsItWas(j, e)' <=> AsItWas(j, e)) /\ (CardsShow(j, e)' <=> CardsShow(j, e))
  BY <1>2 DEF AsItWas, CardsShow, PutObject, auditVars
<1>4. \A j \in Keys : Written(j) => Written(j)' /\ j # k
  BY <1>1 DEF Written, PutObject
<1>5. PhotoTypeOK'
  BY <1>1 DEF PhotoTypeOK, PutObject, rowVars, auditVars
<1>6. ObjectsAreAccountedFor'
  BY <1>1, <1>2 DEF PhotoInv, ObjectsAreAccountedFor, Written, Unattached, Undecided,
     NeverShown, IsWaiting, PutObject, rowVars, auditVars
<1>7. IntentsAreFresh'
  BY DEF PhotoInv, IntentsAreFresh, Unattached, Undecided, NeverShown, IsWaiting, Carries,
     PutObject, rowVars, auditVars
<1>8. RowsWaitForADecision'
  BY <1>3, <1>4 DEF PhotoInv, RowsWaitForADecision, Undecided, PutObject, rowVars, auditVars
<1>9. CardsAreHers'
  BY DEF PhotoInv, CardsAreHers, Written, PutObject, auditVars
<1>10. AttachesHoldTheKey'
  BY <1>3, <1>4 DEF PhotoInv, AttachesHoldTheKey, PutObject
<1>11. ConsumedOnce'
  BY DEF PhotoInv, ConsumedOnce, Unattached, Undecided, NeverShown, IsWaiting, Carries,
     PutObject, rowVars, auditVars
<1>12. ApprovalsFollowACard'
  <2> SUFFICES ASSUME NEW r \in Requests, pc[r] \in ApprovePCs
               PROVE  /\ AsItWas(job[r].key, job[r].etag)'
                      /\ CardsShow(job[r].key, job[r].etag)'
    BY DEF PhotoInv, ApprovalsFollowACard, IsWaiting, PutObject, rowVars, auditVars
  <2>1. job[r].key \in Keys /\ Written(job[r].key)
    BY DEF PhotoInv, ApprovalsFollowACard, CardsAreHers
  <2>2. UNCHANGED job
    BY DEF PutObject
  <2>3. AsItWas(job[r].key, job[r].etag) /\ CardsShow(job[r].key, job[r].etag)
    BY DEF PhotoInv, ApprovalsFollowACard
  <2> QED BY <2>1, <2>2, <2>3, <1>3, <1>4
<1>13. PromotionsAreWritten'
  BY DEF PhotoInv, PromotionsAreWritten, PutObject
<1>14. DiscardsFollowARejection'
  BY DEF PhotoInv, DiscardsFollowARejection, PutObject, auditVars
<1>15. DecidedOnce'
  BY DEF PhotoInv, DecidedOnce, PutObject, auditVars
<1>16. PublishedWasReviewed' /\ ShownIsApproved'
  BY PublishedFrame DEF PhotoInv, PutObject, rowVars, auditVars
<1> QED BY <1>5, <1>6, <1>7, <1>8, <1>9, <1>10, <1>11, <1>12, <1>13, <1>14, <1>15, <1>16
   DEF PhotoInv

\* A step of the store alone: no card, row or request moves, and what is known of an
\* ETag is still so.
LEMMA StoreKeepsPhotos ==
  ASSUME PhotoInv, PhotoTypeOK', ObjectsAreAccountedFor',
         UNCHANGED <<rowVars, uploadVars, publicBucket, auditVars, pc, job>>,
         \A k \in Keys : rewrites[k] >= 2 => rewrites'[k] >= 2,
         \A k \in Keys, e \in Contents : AsItWas(k, e) => AsItWas(k, e)',
         \A k \in Keys, e \in Contents :
           AsItWas(k, e) /\ CardsShow(k, e) => CardsShow(k, e)'
  PROVE  PhotoInv'
<1>1. IntentsAreFresh' /\ ConsumedOnce'
  BY DEF PhotoInv, IntentsAreFresh, ConsumedOnce, Unattached, Undecided, NeverShown, IsWaiting,
     Carries, rowVars, uploadVars, auditVars
<1>2. RowsWaitForADecision' /\ CardsAreHers'
  BY DEF PhotoInv, RowsWaitForADecision, CardsAreHers, Written, Undecided, rowVars, uploadVars,
     auditVars
<1>3. AttachesHoldTheKey'
  BY DEF PhotoInv, AttachesHoldTheKey, Written, uploadVars
<1>4. ApprovalsFollowACard'
  BY DEF PhotoInv, ApprovalsFollowACard, IsWaiting, rowVars, auditVars
<1>5. PromotionsAreWritten' /\ DiscardsFollowARejection' /\ DecidedOnce'
  BY DEF PhotoInv, PromotionsAreWritten, DiscardsFollowARejection, DecidedOnce, auditVars
<1>6. PublishedWasReviewed' /\ ShownIsApproved'
  BY PublishedFrame DEF PhotoInv, rowVars, auditVars
<1> QED BY <1>1, <1>2, <1>3, <1>4, <1>5, <1>6 DEF PhotoInv

\* Other bytes have another ETag; two writes may bring the first one back.
LEMMA RewriteObjectKeeps ==
  ASSUME PhotoInv, NEW k \in Keys, NEW b \in Contents, RewriteObject(k, b)
  PROVE  PhotoInv'
<1>1. PhotoTypeOK /\ faults \in Nat /\ \A j \in Keys : rewrites[j] \in Nat
  BY FaultsAreNumbers DEF PhotoInv
<1>2. /\ faults' = faults + 1 /\ faults < MaxFaults /\ quarantine[k] \notin {None, b}
      /\ UNCHANGED <<rowVars, uploadVars, collected, publicBucket, auditVars, pc, job>>
  BY DEF RewriteObject
<1>3. \A j \in Keys :
        /\ quarantine'[j] = IF j = k THEN b ELSE quarantine[j]
        /\ rewrites'[j] = IF j = k THEN rewrites[k] + 1 ELSE rewrites[j]
  BY <1>1 DEF PhotoTypeOK, RewriteObject
<1>4. rewrites[k] <= faults /\ Written(k)
  BY <1>2 DEF PhotoInv, ObjectsAreAccountedFor
<1>5. PhotoTypeOK'
  <2>1. rewrites' \in [Keys -> 0..MaxFaults] /\ faults' \in 0..MaxFaults
    BY <1>1, <1>2, <1>4, PhotoBounds DEF PhotoTypeOK, RewriteObject
  <2> QED BY <1>1, <1>2, <2>1 DEF PhotoTypeOK, RewriteObject, rowVars, uploadVars, auditVars
<1>6. ObjectsAreAccountedFor'
  BY <1>1, <1>2, <1>3, <1>4, PhotoNone DEF PhotoInv, ObjectsAreAccountedFor, Written, Unattached,
     Undecided, NeverShown, IsWaiting, rowVars, uploadVars, auditVars
<1>7. \A j \in Keys : rewrites[j] >= 2 => rewrites'[j] >= 2
  BY <1>1, <1>3
<1>8. \A j \in Keys, e \in Contents : AsItWas(j, e) => AsItWas(j, e)'
  BY <1>1, <1>3 DEF AsItWas
<1>9. \A j \in Keys, e \in Contents : AsItWas(j, e) /\ CardsShow(j, e) => CardsShow(j, e)'
  BY <1>1, <1>2, <1>3 DEF AsItWas, CardsShow, auditVars
<1> QED BY <1>2, <1>5, <1>6, <1>7, <1>8, <1>9, StoreKeepsPhotos

LEMMA CollectObjectKeeps ==
  ASSUME PhotoInv, NEW k \in Keys, CollectObject(k)
  PROVE  PhotoInv'
<1>1. PhotoTypeOK
  BY DEF PhotoInv
<1>2. /\ \A j \in Keys : quarantine'[j] = IF j = k THEN None ELSE quarantine[j]
      /\ collected' = collected \cup {k}
      /\ UNCHANGED <<rowVars, uploadVars, rewrites, publicBucket, auditVars, pc, job, faults>>
  BY <1>1 DEF PhotoTypeOK, CollectObject
<1>3. PhotoTypeOK'
  BY <1>1 DEF PhotoTypeOK, CollectObject, rowVars, uploadVars, auditVars
<1>4. ObjectsAreAccountedFor'
  BY <1>2 DEF PhotoInv, ObjectsAreAccountedFor, Written, Unattached, Undecided, NeverShown,
     IsWaiting, rowVars, uploadVars, auditVars
<1>5. \A j \in Keys, e \in Contents : AsItWas(j, e) => AsItWas(j, e)'
  BY <1>2 DEF AsItWas
<1>6. \A j \in Keys, e \in Contents : AsItWas(j, e) /\ CardsShow(j, e) => CardsShow(j, e)'
  BY <1>2, PhotoNone DEF CardsShow, auditVars
<1> QED BY <1>2, <1>3, <1>4, <1>5, <1>6, StoreKeepsPhotos

LEMMA AttachHeadKeeps ==
  ASSUME PhotoInv, NEW r \in Requests, NEW w \in Workers, NEW k \in Keys, AttachHead(r, w, k)
  PROVE  PhotoInv'
<1>1. PhotoTypeOK /\ PublishedWasReviewed /\ ShownIsApproved /\ faults \in Nat
  BY FaultsAreNumbers DEF PhotoInv
<1>2. ObjectsAreAccountedFor' /\ RowsWaitForADecision' /\ CardsAreHers' /\ DecidedOnce'
  BY KeysFrame, <1>1 DEF AttachHead
<1>3. /\ pc'[r] = "headed"
      /\ \A q \in Requests : q # r => pc'[q] = pc[q] /\ job'[q] = job[q]
  BY <1>1 DEF PhotoTypeOK, AttachHead
<1>4. PhotoTypeOK'
  <2>1. quarantine[k] \in Contents
    BY <1>1 DEF AttachHead, PhotoTypeOK
  <2>2. [NoPhotoJob EXCEPT !.profile = w, !.key = k, !.etag = quarantine[k]] \in PhotoJobs
    BY <2>1 DEF PhotoJobs, NoPhotoJob
  <2>3. job' \in [Requests -> PhotoJobs]
    BY <1>1, <2>2 DEF PhotoTypeOK, AttachHead
  <2>4. pc' \in [Requests -> PhotoPCs]
    BY <1>1 DEF PhotoTypeOK, AttachHead, PhotoPCs, AttachPCs
  <2> QED
    BY <1>1, <2>3, <2>4 DEF PhotoTypeOK, AttachHead, rowVars, uploadVars, auditVars, storeVars
<1>5. IntentsAreFresh'
  BY DEF PhotoInv, IntentsAreFresh, Unattached, Undecided, NeverShown, IsWaiting, Carries,
     AttachHead, rowVars, uploadVars, auditVars
<1>6. AttachesHoldTheKey'
  <2>1. /\ job'[r].profile = w /\ job'[r].key = k /\ job'[r].etag = quarantine[k]
        /\ quarantine[k] \in Contents
    BY <1>1 DEF PhotoTypeOK, AttachHead, NoPhotoJob
  <2>2. Written(k)
    BY DEF PhotoInv, ObjectsAreAccountedFor, AttachHead
  <2> QED BY <1>3, <2>1, <2>2 DEF PhotoInv, AttachesHoldTheKey, Written, AttachHead, uploadVars,
            storeVars, AsItWas
<1>7. ConsumedOnce'
  BY DEF PhotoInv, ConsumedOnce, Unattached, Undecided, NeverShown, IsWaiting, Carries,
     AttachHead, rowVars, uploadVars, auditVars
<1>8. ApprovalsFollowACard'
  BY <1>3 DEF PhotoInv, ApprovalsFollowACard, ApprovePCs, AttachHead, IsWaiting, rowVars,
     auditVars, storeVars, AsItWas, CardsShow
<1>9. PromotionsAreWritten'
  BY DEF PhotoInv, PromotionsAreWritten, AttachHead
<1>10. DiscardsFollowARejection'
  BY DEF PhotoInv, DiscardsFollowARejection, AttachHead, auditVars
<1>11. PublishedWasReviewed' /\ ShownIsApproved'
  BY PublishedFrame, <1>1 DEF AttachHead, rowVars, auditVars, storeVars
<1> QED BY <1>2, <1>4, <1>5, <1>6, <1>7, <1>8, <1>9, <1>10, <1>11 DEF PhotoInv

LEMMA AttachConsumeKeeps ==
  ASSUME PhotoInv, NEW r \in Requests, AttachConsume(r)
  PROVE  PhotoInv'
<1>1. faults \in faults..MaxFaults
  BY PhotoBounds DEF PhotoInv, PhotoTypeOK
<1>2. CASE ~HoldsIntent(job[r].profile, job[r].key)
  BY <1>1, <1>2, FinishKeepsPhotos DEF AttachConsume, uploadVars
<1>3. CASE HoldsIntent(job[r].profile, job[r].key)
  <2> DEFINE w == job[r].profile
             k == job[r].key
  <2>1. PhotoTypeOK /\ PublishedWasReviewed /\ ShownIsApproved /\ faults \in Nat
    BY FaultsAreNumbers DEF PhotoInv
  <2>2. w \in Workers /\ k \in Keys /\ Written(k)
    BY DEF PhotoInv, AttachesHoldTheKey, AttachPCs, AttachConsume
  <2>3. /\ photoUpload[w] = k
        /\ \A v \in Workers : photoUpload'[v] = IF v = w THEN None ELSE photoUpload[v]
    BY <1>3, <2>1, <2>2 DEF AttachConsume, HoldsIntent, IntentsWithout, PhotoTypeOK
  <2>4. \A q \in Requests : pc'[q] = IF q = r THEN "consumed" ELSE pc[q]
    BY <1>3, <2>1 DEF AttachConsume, Goto, PhotoTypeOK
  <2>5. UNCHANGED <<rowVars, mintedFor, uploadUrls, storeVars, publicBucket, auditVars, job, faults>>
    BY <1>3 DEF AttachConsume, Goto
  <2>6. k # None
    BY <2>2, PhotoNone
  <2>7. mintedFor[k] = w /\ Unattached(k) /\ \A q \in Requests : ~Carries(q, k)
    BY <2>2, <2>3, <2>6 DEF PhotoInv, IntentsAreFresh
  <2>8. PhotoTypeOK'
    <3>1. photoUpload' \in [Workers -> Keys \cup {None}]
      BY <1>3, <2>1 DEF AttachConsume, IntentsWithout, PhotoTypeOK
    <3>2. pc' \in [Requests -> PhotoPCs]
      BY <1>3, <2>1 DEF AttachConsume, Goto, PhotoTypeOK, PhotoPCs, AttachPCs
    <3> QED BY <2>1, <2>5, <3>1, <3>2 DEF PhotoTypeOK, rowVars, auditVars, storeVars
  <2>9. ObjectsAreAccountedFor'
    BY <2>5 DEF PhotoInv, ObjectsAreAccountedFor, Written, Unattached, Undecided, NeverShown,
       IsWaiting, rowVars, auditVars, storeVars
  <2>10. RowsWaitForADecision' /\ CardsAreHers' /\ DecidedOnce'
    BY <2>5 DEF PhotoInv, RowsWaitForADecision, CardsAreHers, DecidedOnce, Written, Undecided,
       rowVars, auditVars, storeVars, AsItWas, CardsShow
  <2>11. IntentsAreFresh'
    <3> SUFFICES ASSUME NEW v \in Workers, photoUpload'[v] # None
                 PROVE  /\ mintedFor[photoUpload[v]] = v
                        /\ Unattached(photoUpload[v])
                        /\ \A q \in Requests : ~Carries(q, photoUpload[v])'
      BY <2>3, <2>5 DEF IntentsAreFresh, Unattached, Undecided, NeverShown, IsWaiting, Carries,
         rowVars, auditVars
    <3>1. v # w /\ photoUpload[v] # None
      BY <2>3
    <3>2. mintedFor[photoUpload[v]] = v /\ Unattached(photoUpload[v])
          /\ \A q \in Requests : ~Carries(q, photoUpload[v])
      BY <3>1 DEF PhotoInv, IntentsAreFresh
    <3>3. photoUpload[v] # k
      BY <3>1, <3>2, <2>7
    <3>4. photoUpload'[v] = photoUpload[v]
      BY <3>1, <2>3
    <3> QED BY <3>2, <3>3, <3>4, <2>4, <2>5 DEF Carries
  <2>12. AttachesHoldTheKey'
    BY <2>4, <2>5 DEF PhotoInv, AttachesHoldTheKey, AttachPCs, Written, AttachConsume, storeVars,
       AsItWas
  <2>13. ConsumedOnce'
    <3> SUFFICES ASSUME NEW q \in Requests, pc'[q] = "consumed"
                 PROVE  /\ mintedFor[job[q].key] = job[q].profile
                        /\ Unattached(job[q].key)
                        /\ \A s \in Requests : pc'[s] = "consumed" /\ job[s].key = job[q].key => s = q
      BY <2>5 DEF ConsumedOnce, Unattached, Undecided, NeverShown, IsWaiting, Carries, rowVars,
         auditVars
    <3>1. CASE q = r
      BY <3>1, <2>4, <2>7 DEF Carries
    <3>2. CASE q # r
      BY <3>2, <2>4, <2>7 DEF PhotoInv, ConsumedOnce, Carries
    <3> QED BY <3>1, <3>2
  <2>14. ApprovalsFollowACard' /\ PromotionsAreWritten' /\ DiscardsFollowARejection'
    BY <2>4, <2>5 DEF PhotoInv, ApprovalsFollowACard, PromotionsAreWritten,
       DiscardsFollowARejection, ApprovePCs, IsWaiting, rowVars, auditVars, storeVars, AsItWas,
       CardsShow
  <2>15. PublishedWasReviewed' /\ ShownIsApproved'
    BY PublishedFrame, <2>1, <2>5 DEF rowVars, auditVars, storeVars
  <2> QED BY <2>8, <2>9, <2>10, <2>11, <2>12, <2>13, <2>14, <2>15 DEF PhotoInv
<1> QED BY <1>2, <1>3

LEMMA AttachWriteKeeps ==
  ASSUME PhotoInv, NEW r \in Requests, AttachWrite(r)
  PROVE  PhotoInv'
<1>1. faults \in faults..MaxFaults
  BY PhotoBounds DEF PhotoInv, PhotoTypeOK
<1>2. CASE job[r].profile \notin published
  BY <1>1, <1>2, FinishKeepsPhotos DEF AttachWrite, rowVars
<1>3. CASE job[r].profile \in published
  <2> DEFINE w == job[r].profile
             k == job[r].key
  <2>1. PhotoTypeOK /\ PublishedWasReviewed /\ ShownIsApproved
    BY DEF PhotoInv
  <2>2. /\ w \in Workers /\ k \in Keys /\ Written(k) /\ job[r].etag \in Contents
        /\ AsItWas(k, job[r].etag)
    BY DEF PhotoInv, AttachesHoldTheKey, AttachPCs, AttachWrite
  <2>3. mintedFor[k] = w /\ Unattached(k)
        /\ \A q \in Requests : Carries(q, k) => q = r
    BY DEF PhotoInv, ConsumedOnce, AttachWrite
  <2>4. CardsShow(k, job[r].etag)
    BY <2>3 DEF Unattached, NeverShown, CardsShow
  <2>5. \A v \in Workers :
          /\ photoState'[v] = IF v = w THEN "pending" ELSE photoState[v]
          /\ photoKey'[v] = IF v = w THEN k ELSE photoKey[v]
          /\ photoEtag'[v] = IF v = w THEN job[r].etag ELSE photoEtag[v]
    BY <1>3, <2>1 DEF AttachWrite, PhotoTypeOK
  <2>6. pc'[r] = "idle" /\ \A q \in Requests : q # r => pc'[q] = pc[q] /\ job'[q] = job[q]
    BY <2>1 DEF AttachWrite, Finish, PhotoTypeOK
  <2>7. UNCHANGED <<published, uploadVars, storeVars, publicBucket, auditVars, faults>>
    BY DEF AttachWrite
  <2>8. \A j : j # k /\ Unattached(j) => Unattached(j)'
    BY <2>5, <2>7 DEF Unattached, Undecided, NeverShown, IsWaiting, auditVars
  <2>9. PhotoTypeOK'
    <3>1. /\ photoState' \in [Workers -> PhotoStates]
          /\ photoKey' \in [Workers -> Keys \cup PublicKeys \cup {None}]
          /\ photoEtag' \in [Workers -> Contents \cup {None}]
      BY <1>3, <2>1, <2>2 DEF AttachWrite, PhotoTypeOK, PhotoStates
    <3>2. pc' \in [Requests -> PhotoPCs] /\ job' \in [Requests -> PhotoJobs]
      BY <2>1 DEF AttachWrite, Finish, PhotoTypeOK, PhotoPCs, PhotoJobs, NoPhotoJob
    <3> QED BY <2>1, <2>7, <3>1, <3>2 DEF PhotoTypeOK, uploadVars, auditVars, storeVars
  <2>10. ObjectsAreAccountedFor'
    BY <2>2, <2>7, <2>8 DEF PhotoInv, ObjectsAreAccountedFor, Written, uploadVars, auditVars,
   storeVars
  <2>11. IntentsAreFresh'
    BY <2>6, <2>7, <2>8 DEF PhotoInv, IntentsAreFresh, Carries, AttachWrite, uploadVars
  <2>12. RowsWaitForADecision'
    BY <2>2, <2>3, <2>4, <2>5, <2>7 DEF PhotoInv, RowsWaitForADecision, Written, Unattached,
       Undecided, NeverShown, uploadVars, auditVars, storeVars, AsItWas, CardsShow
  <2>13. CardsAreHers' /\ DecidedOnce'
    BY <2>7 DEF PhotoInv, CardsAreHers, DecidedOnce, Written, uploadVars, auditVars
  <2>14. AttachesHoldTheKey'
    BY <2>6, <2>7 DEF PhotoInv, AttachesHoldTheKey, AttachPCs, Written, uploadVars, storeVars,
       AsItWas
  <2>15. ConsumedOnce'
    BY <2>3, <2>6, <2>7, <2>8 DEF PhotoInv, ConsumedOnce, Carries, AttachWrite, uploadVars
  <2>16. ApprovalsFollowACard' /\ PromotionsAreWritten' /\ DiscardsFollowARejection'
    <3>1. \A c \in cards : c.key # k
      BY <2>3 DEF Unattached, NeverShown
    <3>2. \A q \in Requests : pc[q] \in ApprovePCs => job[q].key # k
      BY <3>1 DEF PhotoInv, ApprovalsFollowACard
    <3>3. ApprovalsFollowACard'
      <4> SUFFICES ASSUME NEW q \in Requests, pc'[q] \in ApprovePCs
                   PROVE  /\ q # r
                          /\ IsWaiting(job[q].profile, job[q].key)' =>
                               IsWaiting(job[q].profile, job[q].key)
                               /\ photoEtag'[job[q].profile] = photoEtag[job[q].profile]
        BY <2>6, <2>7 DEF PhotoInv, ApprovalsFollowACard, auditVars, storeVars, AsItWas, CardsShow
      <4>1. q # r
        BY <2>6 DEF ApprovePCs
      <4>2. job[q].profile \in Workers /\ job[q].key # k /\ job'[q] = job[q]
        BY <4>1, <3>2, <2>6 DEF PhotoInv, ApprovalsFollowACard
      <4> QED BY <4>1, <4>2, <2>5 DEF IsWaiting
    <3>4. PromotionsAreWritten' /\ DiscardsFollowARejection'
      BY <2>6, <2>7 DEF PhotoInv, PromotionsAreWritten, DiscardsFollowARejection, auditVars
    <3> QED BY <3>3, <3>4
  <2>17. PublishedWasReviewed' /\ ShownIsApproved'
    BY <2>1, <2>5, <2>7 DEF PublishedWasReviewed, ShownIsApproved, MadeFrom, PublicObjects,
       auditVars, storeVars
  <2> QED BY <2>9, <2>10, <2>11, <2>12, <2>13, <2>14, <2>15, <2>16, <2>17 DEF PhotoInv
<1> QED BY <1>2, <1>3

LEMMA ShowCardKeeps ==
  ASSUME PhotoInv, NEW w \in Workers, ShowCard(w)
  PROVE  PhotoInv'
<1>0. \A k \in Keys : \A e : CardsShow(k, e) => CardsShow(k, e)'
  BY DEF CardsShow, ShowCard, storeVars
<1>1. PhotoTypeOK'
  BY DEF PhotoInv, PhotoTypeOK, Cards, RowsWaitForADecision, ShowCard, rowVars, uploadVars,
     storeVars
<1>2. ObjectsAreAccountedFor'
  BY DEF PhotoInv, ObjectsAreAccountedFor, Written, Unattached, Undecided, NeverShown, IsWaiting,
     ShowCard, rowVars, uploadVars, storeVars
<1>3. IntentsAreFresh'
  BY DEF PhotoInv, IntentsAreFresh, Unattached, Undecided, NeverShown, IsWaiting, Carries,
     ShowCard, rowVars, uploadVars
<1>4. RowsWaitForADecision'
  BY <1>0 DEF PhotoInv, RowsWaitForADecision, Written, Undecided, ShowCard, rowVars, uploadVars,
     storeVars, AsItWas
<1>5. CardsAreHers'
  <2>1. photoKey[w] \in Keys /\ Written(photoKey[w]) /\ mintedFor[photoKey[w]] = w
    BY DEF PhotoInv, RowsWaitForADecision, ShowCard
  <2> QED BY <2>1 DEF PhotoInv, CardsAreHers, Written, ShowCard, uploadVars
<1>6. AttachesHoldTheKey'
  BY DEF PhotoInv, AttachesHoldTheKey, Written, ShowCard, uploadVars, storeVars, AsItWas
<1>7. ConsumedOnce'
  BY DEF PhotoInv, ConsumedOnce, Unattached, Undecided, NeverShown, IsWaiting, Carries, ShowCard,
     rowVars, uploadVars
<1>8. ApprovalsFollowACard'
  BY <1>0 DEF PhotoInv, ApprovalsFollowACard, ShowCard, IsWaiting, rowVars, storeVars, AsItWas
<1>9. PromotionsAreWritten'
  BY DEF PhotoInv, PromotionsAreWritten, ShowCard
<1>10. DiscardsFollowARejection'
  BY DEF PhotoInv, DiscardsFollowARejection, ShowCard
<1>11. DecidedOnce'
  BY DEF PhotoInv, DecidedOnce, ShowCard
<1>12. PublishedWasReviewed' /\ ShownIsApproved'
  BY PublishedFrame DEF PhotoInv, ShowCard, rowVars, storeVars
<1> QED BY <1>1, <1>2, <1>3, <1>4, <1>5, <1>6, <1>7, <1>8, <1>9, <1>10, <1>11, <1>12 DEF PhotoInv

LEMMA ApproveReadKeeps ==
  ASSUME PhotoInv, NEW r \in Requests, NEW c \in cards, ApproveRead(r, c)
  PROVE  PhotoInv'
<1>1. PhotoTypeOK /\ PublishedWasReviewed /\ ShownIsApproved /\ faults \in Nat
  BY FaultsAreNumbers DEF PhotoInv
<1>2. ObjectsAreAccountedFor' /\ RowsWaitForADecision' /\ CardsAreHers' /\ DecidedOnce'
  BY KeysFrame, <1>1 DEF ApproveRead
<1>3. /\ pc'[r] = "approving"
      /\ \A q \in Requests : q # r => pc'[q] = pc[q] /\ job'[q] = job[q]
  BY <1>1 DEF PhotoTypeOK, ApproveRead
<1>4. PhotoTypeOK'
  <2>1. c.profile \in Workers /\ c.key \in Keys
    BY <1>1 DEF PhotoTypeOK, Cards
  <2>2. photoEtag[c.profile] \in Contents
    BY <2>1 DEF PhotoInv, RowsWaitForADecision, ApproveRead, IsWaiting
  <2>3. [NoPhotoJob EXCEPT !.profile = c.profile, !.key = c.key, !.etag = photoEtag[c.profile]]
          \in PhotoJobs
    BY <2>1, <2>2 DEF PhotoJobs, NoPhotoJob
  <2>4. job' \in [Requests -> PhotoJobs]
    BY <1>1, <2>3 DEF PhotoTypeOK, ApproveRead
  <2>5. pc' \in [Requests -> PhotoPCs]
    BY <1>1 DEF PhotoTypeOK, ApproveRead, PhotoPCs, ApprovePCs
  <2> QED
    BY <1>1, <2>4, <2>5 DEF PhotoTypeOK, ApproveRead, rowVars, uploadVars, auditVars, storeVars
<1>5. IntentsAreFresh'
  BY DEF PhotoInv, IntentsAreFresh, Unattached, Undecided, NeverShown, IsWaiting, Carries,
     ApproveRead, rowVars, uploadVars, auditVars
<1>6. AttachesHoldTheKey'
  BY DEF PhotoInv, PhotoTypeOK, AttachesHoldTheKey, Written, ApproveRead, IsWaiting,
     RowsWaitForADecision, Cards, uploadVars, storeVars, AsItWas
<1>7. ConsumedOnce'
  BY DEF PhotoInv, ConsumedOnce, Unattached, Undecided, NeverShown, IsWaiting, Carries,
     ApproveRead, rowVars, uploadVars, auditVars
<1>8. ApprovalsFollowACard'
  <2>1. /\ c.profile \in Workers /\ c.key \in Keys /\ IsWaiting(c.profile, c.key)
        /\ job'[r].profile = c.profile /\ job'[r].key = c.key
        /\ job'[r].etag = photoEtag[c.profile]
    BY <1>1 DEF PhotoTypeOK, Cards, ApproveRead, NoPhotoJob
  <2>2. /\ photoEtag[c.profile] \in Contents
        /\ AsItWas(c.key, photoEtag[c.profile])
        /\ CardsShow(c.key, photoEtag[c.profile])
    BY <2>1 DEF PhotoInv, RowsWaitForADecision, IsWaiting
  <2> QED BY <1>3, <2>1, <2>2 DEF PhotoInv, ApprovalsFollowACard, ApproveRead, IsWaiting, rowVars,
            auditVars, storeVars, AsItWas, CardsShow
<1>9. PromotionsAreWritten'
  BY DEF PhotoInv, PromotionsAreWritten, ApproveRead
<1>10. DiscardsFollowARejection'
  BY DEF PhotoInv, DiscardsFollowARejection, ApproveRead, auditVars
<1>11. PublishedWasReviewed' /\ ShownIsApproved'
  BY PublishedFrame, <1>1 DEF ApproveRead, rowVars, auditVars, storeVars
<1> QED BY <1>2, <1>4, <1>5, <1>6, <1>7, <1>8, <1>9, <1>10, <1>11 DEF PhotoInv

LEMMA RejectCommitKeeps ==
  ASSUME PhotoInv, NEW r \in Requests, NEW c \in cards, RejectCommit(r, c)
  PROVE  PhotoInv'
<1>1. PhotoTypeOK'
  BY DEF PhotoInv, PhotoTypeOK, PhotoJobs, NoPhotoJob, PhotoPCs, PhotoStates, PhotoActs, Cards,
     RejectCommit, IsWaiting, Audited, uploadVars, storeVars
<1>2. ObjectsAreAccountedFor'
  BY DEF PhotoInv, PhotoTypeOK, ObjectsAreAccountedFor, Written, Unattached, Undecided,
     NeverShown, IsWaiting, RejectCommit, Audited, uploadVars, storeVars
<1>3. IntentsAreFresh'
  BY DEF PhotoInv, IntentsAreFresh, Unattached, Undecided, NeverShown, IsWaiting, Carries,
     RejectCommit, Audited, uploadVars
<1>4. RowsWaitForADecision'
  BY DEF PhotoInv, PhotoTypeOK, RowsWaitForADecision, Written, Undecided, IsWaiting,
     RejectCommit, Audited, Cards, uploadVars, storeVars, AsItWas, CardsShow
<1>5. CardsAreHers'
  BY DEF PhotoInv, CardsAreHers, Written, RejectCommit, uploadVars
<1>6. AttachesHoldTheKey'
  BY DEF PhotoInv, AttachesHoldTheKey, Written, AttachPCs, RejectCommit, uploadVars, storeVars,
   AsItWas
<1>7. ConsumedOnce'
  BY DEF PhotoInv, PhotoTypeOK, ConsumedOnce, Unattached, Undecided, NeverShown, IsWaiting,
     Carries, RejectCommit, Audited, uploadVars, storeVars
<1>8. ApprovalsFollowACard'
  BY DEF PhotoInv, PhotoTypeOK, ApprovalsFollowACard, ApprovePCs, RejectCommit, IsWaiting, Cards,
     storeVars, AsItWas, CardsShow
<1>9. PromotionsAreWritten'
  BY DEF PhotoInv, PromotionsAreWritten, RejectCommit
<1>10. DiscardsFollowARejection'
  BY DEF PhotoInv, PhotoTypeOK, DiscardsFollowARejection, PhotoActs, RejectCommit, IsWaiting,
     Audited, Cards
<1>11. DecidedOnce'
  BY DEF PhotoInv, PhotoTypeOK, DecidedOnce, Undecided, PhotoActs, RejectCommit, IsWaiting,
     Audited, RowsWaitForADecision, Cards
<1>12. PublishedWasReviewed'
  <2>1. \A p \in PublicKeys, d \in cards : MadeFrom(p, d)' <=> MadeFrom(p, d)
    BY DEF MadeFrom, RejectCommit, storeVars
  <2>2. \A v \in Workers : photoState'[v] = "approved" =>
          photoState[v] = "approved" /\ photoKey'[v] = photoKey[v]
    BY DEF PhotoInv, PhotoTypeOK, RejectCommit
  <2>3. UNCHANGED cards
    BY DEF RejectCommit
  <2> QED BY <2>1, <2>2, <2>3 DEF PhotoInv, PublishedWasReviewed
<1>13. ShownIsApproved'
  BY DEF PhotoInv, PhotoTypeOK, ShownIsApproved, PublishedWasReviewed, PhotoActs, Cards,
     IsWaiting, RejectCommit, Audited
<1> QED BY <1>1, <1>2, <1>3, <1>4, <1>5, <1>6, <1>7, <1>8, <1>9, <1>10, <1>11, <1>12, <1>13
   DEF PhotoInv

LEMMA ApproveFetchKeeps ==
  ASSUME PhotoInv, NEW r \in Requests, ApproveFetch(r)
  PROVE  PhotoInv'
<1>1. faults \in faults..MaxFaults
  BY PhotoBounds DEF PhotoInv, PhotoTypeOK
<1>2. CASE Finish(r)
  BY <1>1, <1>2, FinishKeepsPhotos DEF ApproveFetch
<1>3. CASE ~Finish(r)
  <2>1. PhotoTypeOK /\ PublishedWasReviewed /\ ShownIsApproved /\ faults \in Nat
    BY FaultsAreNumbers DEF PhotoInv
  <2>2. UNCHANGED <<rowVars, uploadVars, storeVars, publicBucket, auditVars, faults>>
    BY DEF ApproveFetch
  <2>3. ObjectsAreAccountedFor' /\ RowsWaitForADecision' /\ CardsAreHers' /\ DecidedOnce'
    BY KeysFrame, <2>1, <2>2
  <2>4. quarantine[job[r].key] = job[r].etag
    BY <1>3 DEF ApproveFetch, IsTheRecordedObject
  <2>5. job' = job
    BY <1>3, <2>1, <2>4 DEF ApproveFetch, PhotoTypeOK, PhotoJobs
  <2>6. \A q \in Requests : pc'[q] = IF q = r THEN "fetched" ELSE pc[q]
    BY <1>3, <2>1 DEF ApproveFetch, PhotoTypeOK
  <2>7. PhotoTypeOK'
    <3>1. pc' \in [Requests -> PhotoPCs]
      BY <1>3, <2>1 DEF ApproveFetch, PhotoTypeOK, PhotoPCs, ApprovePCs
    <3> QED BY <2>1, <2>2, <2>5, <3>1 DEF PhotoTypeOK, rowVars, uploadVars, auditVars, storeVars
  <2>8. IntentsAreFresh'
    BY <2>2, <2>5, <2>6 DEF PhotoInv, IntentsAreFresh, Unattached, Undecided, NeverShown,
       IsWaiting, Carries, rowVars, uploadVars, auditVars
  <2>9. AttachesHoldTheKey'
    BY <2>2, <2>5, <2>6 DEF PhotoInv, AttachesHoldTheKey, AttachPCs, Written, uploadVars,
   storeVars, AsItWas
  <2>10. ConsumedOnce'
    BY <2>2, <2>5, <2>6 DEF PhotoInv, ConsumedOnce, Unattached, Undecided, NeverShown, IsWaiting,
       Carries, rowVars, uploadVars, auditVars
  <2>11. ApprovalsFollowACard'
    <3>1. PICK c \in cards : c.profile = job[r].profile /\ c.key = job[r].key
      BY DEF PhotoInv, ApprovalsFollowACard, ApprovePCs, ApproveFetch
    <3>2. /\ CardsShow(job[r].key, job[r].etag) /\ job[r].key \in Keys
          /\ rewrites[job[r].key] \in Nat
      BY FaultsAreNumbers DEF PhotoInv, ApprovalsFollowACard, ApprovePCs, ApproveFetch
    <3>3. c.bytes = job[r].etag \/ rewrites[job[r].key] >= 2
      BY <2>4, <3>1, <3>2 DEF CardsShow
    <3>4. pc[r] = "approving"
      BY DEF ApproveFetch
    <3> QED BY <2>2, <2>5, <2>6, <3>1, <3>3, <3>4 DEF PhotoInv, ApprovalsFollowACard, ApprovePCs,
              IsWaiting, rowVars, auditVars, storeVars, AsItWas, CardsShow
  <2>12. PromotionsAreWritten' /\ DiscardsFollowARejection'
    BY <2>2, <2>5, <2>6 DEF PhotoInv, PromotionsAreWritten, DiscardsFollowARejection, auditVars
  <2>13. PublishedWasReviewed' /\ ShownIsApproved'
    BY PublishedFrame, <2>1, <2>2 DEF rowVars, auditVars, storeVars
  <2> QED BY <2>3, <2>7, <2>8, <2>9, <2>10, <2>11, <2>12, <2>13 DEF PhotoInv
<1> QED BY <1>2, <1>3

LEMMA ApprovePutKeeps ==
  ASSUME PhotoInv, NEW r \in Requests, NEW p \in PublicKeys, ApprovePut(r, p)
  PROVE  PhotoInv'
<1>1. PhotoTypeOK /\ PublishedWasReviewed /\ ShownIsApproved /\ faults \in Nat
  BY FaultsAreNumbers DEF PhotoInv
<1>2. ObjectsAreAccountedFor' /\ RowsWaitForADecision' /\ CardsAreHers' /\ DecidedOnce'
  BY KeysFrame, <1>1 DEF ApprovePut
<1>3. /\ pc'[r] = "promoted"
      /\ \A q \in Requests : q # r => pc'[q] = pc[q] /\ job'[q] = job[q]
  BY <1>1 DEF PhotoTypeOK, ApprovePut
<1>4. PhotoTypeOK'
  <2>1. job[r].key \in Keys /\ job[r].etag \in Contents
    BY DEF PhotoInv, ApprovalsFollowACard, ApprovePCs, ApprovePut
  <2>2. [key |-> job[r].key, bytes |-> job[r].etag] \in PublicObjects
    BY <2>1 DEF PublicObjects
  <2>3. job' \in [Requests -> PhotoJobs]
    <3>1. job[r] \in PhotoJobs
      BY <1>1 DEF PhotoTypeOK
    <3>2. [job[r] EXCEPT !.made = p] \in PhotoJobs
      BY <3>1 DEF PhotoJobs
    <3> QED BY <1>1, <3>2 DEF PhotoTypeOK, ApprovePut
  <2>4. pc' \in [Requests -> PhotoPCs]
    BY <1>1 DEF PhotoTypeOK, ApprovePut, PhotoPCs, ApprovePCs
  <2> QED BY <1>1, <2>2, <2>3, <2>4 DEF PhotoTypeOK, ApprovePut, rowVars, uploadVars, auditVars,
     storeVars
<1>5. IntentsAreFresh'
  BY DEF PhotoInv, IntentsAreFresh, Unattached, Undecided, NeverShown, IsWaiting, Carries,
     ApprovePut, rowVars, uploadVars, auditVars
<1>6. AttachesHoldTheKey'
  BY DEF PhotoInv, AttachesHoldTheKey, Written, AttachPCs, ApprovePut, uploadVars, storeVars,
   AsItWas
<1>7. ConsumedOnce'
  BY DEF PhotoInv, ConsumedOnce, Unattached, Undecided, NeverShown, IsWaiting, Carries,
     ApprovePut, rowVars, uploadVars, auditVars
<1>8. ApprovalsFollowACard'
  BY <1>1 DEF PhotoInv, PhotoTypeOK, ApprovalsFollowACard, ApprovePCs, ApprovePut, IsWaiting,
     rowVars, auditVars, storeVars, AsItWas, CardsShow
<1>9. PromotionsAreWritten'
  <2>1. /\ job'[r].made = p /\ job'[r].key = job[r].key /\ job'[r].etag = job[r].etag
        /\ publicBucket'[p] = [key |-> job[r].key, bytes |-> job[r].etag]
    BY <1>1 DEF PhotoTypeOK, PhotoJobs, ApprovePut
  <2>2. \A q \in Requests : pc[q] = "promoted" =>
          /\ job[q].made \in PublicKeys
          /\ publicBucket[job[q].made] = [key |-> job[q].key, bytes |-> job[q].etag]
          /\ publicBucket[job[q].made] # None
    <3>1. \A q \in Requests : pc[q] = "promoted" =>
            /\ job[q].key \in Keys /\ job[q].etag \in Contents
            /\ job[q].made \in PublicKeys
            /\ publicBucket[job[q].made] = [key |-> job[q].key, bytes |-> job[q].etag]
      BY DEF PhotoInv, PromotionsAreWritten, ApprovalsFollowACard, ApprovePCs
    <3>2. \A k \in Keys, v \in Contents : [key |-> k, bytes |-> v] # None
      BY PhotoNone DEF PublicObjects
    <3> QED BY <3>1, <3>2
  <2>3. \A o \in PublicKeys : publicBucket[o] # None => publicBucket'[o] = publicBucket[o]
    BY <1>1 DEF PhotoTypeOK, ApprovePut
  <2> QED BY <1>3, <2>1, <2>2, <2>3 DEF PromotionsAreWritten, ApprovePut
<1>10. DiscardsFollowARejection'
  BY DEF PhotoInv, DiscardsFollowARejection, ApprovePut, auditVars
<1>11. PublishedWasReviewed' /\ ShownIsApproved'
  BY PublishedFrame, <1>1 DEF ApprovePut, PhotoTypeOK, rowVars, auditVars, storeVars
<1> QED BY <1>2, <1>4, <1>5, <1>6, <1>7, <1>8, <1>9, <1>10, <1>11 DEF PhotoInv

LEMMA ApproveCommitKeeps ==
  ASSUME PhotoInv, NEW r \in Requests, ApproveCommit(r)
  PROVE  PhotoInv'
<1>1. faults \in faults..MaxFaults
  BY PhotoBounds DEF PhotoInv, PhotoTypeOK
<1>2. CASE ~IsWaiting(job[r].profile, job[r].key)
  BY <1>1, <1>2, FinishKeepsPhotos DEF ApproveCommit, rowVars, auditVars
<1>3. CASE IsWaiting(job[r].profile, job[r].key)
  <2> DEFINE w == job[r].profile
             k == job[r].key
  <2>1. PhotoTypeOK /\ PublishedWasReviewed /\ ShownIsApproved
    BY DEF PhotoInv
  <2>2. PICK c \in cards :
          c.profile = w /\ c.key = k /\ (c.bytes = job[r].etag \/ rewrites[k] >= 2)
    BY DEF PhotoInv, ApprovalsFollowACard, ApprovePCs, ApproveCommit
  <2>3. /\ w \in Workers /\ k \in Keys
        /\ job[r].made \in PublicKeys
        /\ publicBucket[job[r].made] = [key |-> k, bytes |-> job[r].etag]
        /\ job[r].etag \in Contents
    BY DEF PhotoInv, ApprovalsFollowACard, PromotionsAreWritten, ApprovePCs, ApproveCommit
  <2>4. photoState[w] = "pending" /\ photoKey[w] = k
    BY <1>3 DEF IsWaiting
  <2>5. mintedFor[k] = w /\ Undecided(k)
    BY <2>3, <2>4 DEF PhotoInv, RowsWaitForADecision
  <2>6. \A v \in Workers :
          /\ photoState'[v] = IF v = w THEN "approved" ELSE photoState[v]
          /\ photoKey'[v] = IF v = w THEN job[r].made ELSE photoKey[v]
          /\ v # w => photoEtag'[v] = photoEtag[v]
    BY <1>3, <2>1 DEF ApproveCommit, PhotoTypeOK
  <2>7. pc'[r] = "idle" /\ \A q \in Requests : q # r => pc'[q] = pc[q] /\ job'[q] = job[q]
    BY <2>1 DEF ApproveCommit, Finish, PhotoTypeOK
  <2>8. \A j \in Keys, a \in PhotoActs :
          adminAction'[j][a] =
            IF j = k /\ a = "approvePhoto" THEN adminAction[j][a] + 1 ELSE adminAction[j][a]
    BY <1>3, <2>1, <2>3 DEF ApproveCommit, Audited, PhotoTypeOK, PhotoActs
  <2>9. UNCHANGED <<published, uploadVars, storeVars, publicBucket, cards, faults>>
    BY DEF ApproveCommit
  <2>10. \A j \in Keys : Unattached(j) => Unattached(j)'
    <3>1. ~Unattached(k)
      BY <1>3, <2>3 DEF Unattached
    <3> QED BY <2>6, <2>8, <2>9, <3>1 DEF Unattached, Undecided, NeverShown, IsWaiting
  <2>11. PhotoTypeOK'
    <3>1. /\ photoState' \in [Workers -> PhotoStates]
          /\ photoKey' \in [Workers -> Keys \cup PublicKeys \cup {None}]
          /\ photoEtag' \in [Workers -> Contents \cup {None}]
      BY <1>3, <2>1, <2>3 DEF ApproveCommit, PhotoTypeOK, PhotoStates
    <3>2. pc' \in [Requests -> PhotoPCs] /\ job' \in [Requests -> PhotoJobs]
      BY <2>1 DEF ApproveCommit, Finish, PhotoTypeOK, PhotoPCs, PhotoJobs, NoPhotoJob
    <3>3. adminAction' \in [Keys -> [PhotoActs -> Nat]]
      BY <1>3, <2>1, <2>3 DEF ApproveCommit, Audited, PhotoTypeOK, PhotoActs
    <3> QED BY <2>1, <2>9, <3>1, <3>2, <3>3 DEF PhotoTypeOK, uploadVars, storeVars
  <2>12. ObjectsAreAccountedFor'
    BY <2>8, <2>9, <2>10 DEF PhotoInv, ObjectsAreAccountedFor, Written, PhotoActs, uploadVars,
   storeVars
  <2>13. IntentsAreFresh'
    BY <2>1, <2>7, <2>9, <2>10 DEF PhotoInv, PhotoTypeOK, IntentsAreFresh, Carries, uploadVars,
       ApproveCommit, storeVars
  <2>14. RowsWaitForADecision'
    <3> SUFFICES ASSUME NEW v \in Workers, photoState'[v] = "pending"
                 PROVE  /\ photoKey'[v] \in Keys
                        /\ Written(photoKey'[v])
                        /\ mintedFor[photoKey'[v]] = v
                        /\ \A a \in PhotoActs : adminAction'[photoKey'[v]][a] = 0
                        /\ photoEtag'[v] \in Contents
                        /\ AsItWas(photoKey'[v], photoEtag'[v])
                        /\ CardsShow(photoKey'[v], photoEtag'[v])
      BY <2>9 DEF RowsWaitForADecision, Written, Undecided, uploadVars, storeVars, AsItWas,
         CardsShow
    <3>1. v # w /\ photoState[v] = "pending" /\ photoKey'[v] = photoKey[v]
          /\ photoEtag'[v] = photoEtag[v]
      BY <2>6
    <3>2. photoKey[v] \in Keys /\ photoKey[v] # k
      BY <2>5, <3>1 DEF PhotoInv, RowsWaitForADecision
    <3> QED BY <2>8, <3>1, <3>2 DEF PhotoInv, RowsWaitForADecision, Undecided
  <2>15. CardsAreHers'
    BY <2>9 DEF PhotoInv, CardsAreHers, Written, uploadVars
  <2>16. AttachesHoldTheKey'
    BY <2>7, <2>9 DEF PhotoInv, AttachesHoldTheKey, AttachPCs, Written, uploadVars, storeVars,
       AsItWas
  <2>17. ConsumedOnce'
    BY <2>7, <2>9, <2>10 DEF PhotoInv, ConsumedOnce, AttachesHoldTheKey, AttachPCs, Carries,
       uploadVars, storeVars
  <2>18. ApprovalsFollowACard' /\ PromotionsAreWritten'
    <3>1. ApprovalsFollowACard'
      <4> SUFFICES ASSUME NEW q \in Requests, pc'[q] \in ApprovePCs
                   PROVE  /\ q # r
                          /\ IsWaiting(job[q].profile, job[q].key)' =>
                               IsWaiting(job[q].profile, job[q].key)
                               /\ photoEtag'[job[q].profile] = photoEtag[job[q].profile]
        BY <2>7, <2>9 DEF PhotoInv, ApprovalsFollowACard, storeVars, AsItWas, CardsShow
      <4>1. q # r
        BY <2>7 DEF ApprovePCs
      <4>2. job[q].profile \in Workers /\ job'[q] = job[q]
        BY <4>1, <2>7 DEF PhotoInv, ApprovalsFollowACard
      <4> QED BY <4>1, <4>2, <2>6 DEF IsWaiting
    <3>2. PromotionsAreWritten'
      BY <2>7, <2>9 DEF PhotoInv, PromotionsAreWritten
    <3> QED BY <3>1, <3>2
  <2>19. DiscardsFollowARejection'
    BY <2>7, <2>8 DEF PhotoInv, DiscardsFollowARejection, PhotoActs
  <2>20. DecidedOnce'
    BY <2>1, <2>5, <2>8 DEF PhotoInv, DecidedOnce, Undecided, PhotoActs
  <2>21. PublishedWasReviewed'
    <3>1. \A p \in PublicKeys, d \in cards : MadeFrom(p, d)' <=> MadeFrom(p, d)
      BY <2>9 DEF MadeFrom, storeVars
    <3>2. MadeFrom(job[r].made, c)
      BY <2>2, <2>3 DEF MadeFrom, PublicObjects
    <3> SUFFICES ASSUME NEW v \in Workers, photoState'[v] = "approved"
                 PROVE  \E p \in PublicKeys, d \in cards :
                          photoKey'[v] = p /\ d.profile = v /\ MadeFrom(p, d)
      BY <2>9, <3>1 DEF PublishedWasReviewed
    <3>3. CASE v = w
      BY <3>3, <2>2, <2>3, <2>6, <3>2
    <3>4. CASE v # w
      BY <3>4, <2>1, <2>6 DEF PublishedWasReviewed
    <3> QED BY <3>3, <3>4
  <2>22. ShownIsApproved'
    <3> SUFFICES ASSUME NEW v \in Workers, photoState'[v] = "approved"
                 PROVE  adminAction'[publicBucket[photoKey'[v]].key]["approvePhoto"] = 1
      BY <2>9 DEF ShownIsApproved
    <3>1. CASE v = w
      <4>1. publicBucket[photoKey'[v]].key = k /\ adminAction[k]["approvePhoto"] = 0
        BY <3>1, <2>3, <2>5, <2>6 DEF Undecided, PhotoActs
      <4> QED BY <4>1, <2>3, <2>8 DEF PhotoActs
    <3>2. CASE v # w
      <4>1. photoState[v] = "approved" /\ photoKey'[v] = photoKey[v]
        BY <3>2, <2>6
      <4>2. PICK p \in PublicKeys, d \in cards : photoKey[v] = p /\ publicBucket[p].key = d.key
        BY <4>1, <2>1 DEF PublishedWasReviewed, MadeFrom
      <4>3. d.key \in Keys /\ adminAction[d.key]["approvePhoto"] = 1
        BY <4>1, <4>2, <2>1 DEF PhotoTypeOK, Cards, ShownIsApproved
      <4>4. d.key # k
        BY <4>3, <2>5 DEF Undecided, PhotoActs
      <4> QED BY <4>1, <4>2, <4>3, <4>4, <2>8 DEF PhotoActs
    <3> QED BY <3>1, <3>2
  <2> QED BY <2>11, <2>12, <2>13, <2>14, <2>15, <2>16, <2>17, <2>18, <2>19, <2>20, <2>21, <2>22
     DEF PhotoInv
<1> QED BY <1>2, <1>3

LEMMA DiscardKeeps ==
  ASSUME PhotoInv, NEW r \in Requests, Discard(r)
  PROVE  PhotoInv'
<1>0. /\ job[r].key \in Keys /\ adminAction[job[r].key]["rejectPhoto"] # 0
      /\ \A k \in Keys : quarantine'[k] = IF k = job[r].key THEN None ELSE quarantine[k]
      /\ UNCHANGED <<rewrites, cards>>
      /\ \A q \in Requests : q # r => pc'[q] = pc[q] /\ job'[q] = job[q]
      /\ pc'[r] = "idle"
  BY DEF PhotoInv, PhotoTypeOK, DiscardsFollowARejection, Discard, Finish, auditVars
<1>13. \A k \in Keys, e \in Contents :
        (AsItWas(k, e) => AsItWas(k, e)') /\ (CardsShow(k, e) => CardsShow(k, e)')
  BY <1>0, PhotoNone DEF AsItWas, CardsShow
<1>1. PhotoTypeOK'
  BY DEF PhotoInv, PhotoTypeOK, PhotoJobs, NoPhotoJob, PhotoPCs, Discard, Finish, rowVars,
     uploadVars, auditVars
<1>2. ObjectsAreAccountedFor'
  BY DEF PhotoInv, PhotoTypeOK, ObjectsAreAccountedFor, Written, Unattached, Undecided,
     NeverShown, IsWaiting, Discard, DiscardsFollowARejection, rowVars, uploadVars, auditVars,
     storeVars
<1>3. IntentsAreFresh'
  BY DEF PhotoInv, IntentsAreFresh, Unattached, Undecided, NeverShown, IsWaiting, Carries,
     Discard, Finish, rowVars, uploadVars, auditVars
<1>4. RowsWaitForADecision'
  BY <1>13 DEF PhotoInv, RowsWaitForADecision, Written, Undecided, Discard, rowVars, uploadVars,
     auditVars
<1>5. CardsAreHers'
  BY DEF PhotoInv, CardsAreHers, Written, Discard, uploadVars, auditVars
<1>6. AttachesHoldTheKey'
  BY <1>0, <1>13 DEF PhotoInv, AttachesHoldTheKey, Written, AttachPCs, Discard, uploadVars
<1>7. ConsumedOnce'
  BY DEF PhotoInv, ConsumedOnce, Unattached, Undecided, NeverShown, IsWaiting, Carries, Discard,
     Finish, rowVars, uploadVars, auditVars
<1>8. ApprovalsFollowACard'
  BY <1>0, <1>13 DEF PhotoInv, ApprovalsFollowACard, ApprovePCs, Discard, IsWaiting, rowVars
<1>9. PromotionsAreWritten'
  BY DEF PhotoInv, PromotionsAreWritten, Discard, Finish
<1>10. DiscardsFollowARejection'
  BY DEF PhotoInv, PhotoTypeOK, DiscardsFollowARejection, Discard, Finish, auditVars, storeVars
<1>11. DecidedOnce'
  BY DEF PhotoInv, DecidedOnce, Discard, auditVars
<1>12. PublishedWasReviewed' /\ ShownIsApproved'
  BY PublishedFrame DEF PhotoInv, Discard, rowVars, auditVars, storeVars
<1> QED BY <1>1, <1>2, <1>3, <1>4, <1>5, <1>6, <1>7, <1>8, <1>9, <1>10, <1>11, <1>12 DEF PhotoInv

LEMMA CrashKeeps ==
  ASSUME PhotoInv, NEW r \in Requests, Crash(r)
  PROVE  PhotoInv'
<1>1. faults' \in faults..MaxFaults
  BY FaultsAreNumbers, PhotoBounds DEF PhotoInv, Crash
<1> QED BY <1>1, FinishKeepsPhotos DEF Crash

LEMMA PhotoStutter == PhotoInv /\ UNCHANGED photoVars => PhotoInv'
<1> SUFFICES ASSUME PhotoInv, UNCHANGED photoVars PROVE PhotoInv'
  OBVIOUS
<1>1. PhotoTypeOK' /\ faults \in Nat
  BY FaultsAreNumbers DEF PhotoInv, PhotoTypeOK, photoVars, rowVars, uploadVars, auditVars,
   storeVars
<1>2. ObjectsAreAccountedFor' /\ RowsWaitForADecision' /\ CardsAreHers' /\ DecidedOnce'
  BY <1>1, KeysFrame DEF photoVars
<1>3. IntentsAreFresh' /\ ConsumedOnce'
  BY DEF PhotoInv, IntentsAreFresh, ConsumedOnce, Unattached, Undecided, NeverShown, IsWaiting,
     Carries, photoVars, rowVars, uploadVars, auditVars
<1>4. AttachesHoldTheKey' /\ ApprovalsFollowACard' /\ PromotionsAreWritten' /\ DiscardsFollowARejection'
  BY DEF PhotoInv, AttachesHoldTheKey, ApprovalsFollowACard, PromotionsAreWritten, IsWaiting,
     DiscardsFollowARejection, Written, photoVars, rowVars, uploadVars, auditVars, storeVars,
     AsItWas, CardsShow
<1>5. PublishedWasReviewed' /\ ShownIsApproved'
  BY PublishedFrame DEF PhotoInv, photoVars, rowVars, auditVars, storeVars
<1> QED BY <1>1, <1>2, <1>3, <1>4, <1>5 DEF PhotoInv

LEMMA InvStep == PhotoInv /\ [Next]_photoVars => PhotoInv'
<1> SUFFICES ASSUME PhotoInv, Next PROVE PhotoInv'
  BY PhotoStutter
<1>1. CASE Upload
  BY <1>1, PublishKeeps, CreateUploadKeeps, PutObjectKeeps, RewriteObjectKeeps, CollectObjectKeeps
  DEF Upload
<1>2. CASE \E w \in Workers : ShowCard(w)
  BY <1>2, ShowCardKeeps
<1>3. CASE \E r \in Requests : Attach(r)
  BY <1>3, AttachHeadKeeps, AttachConsumeKeeps, AttachWriteKeeps DEF Attach
<1>4. CASE \E r \in Requests : Review(r)
  BY <1>4, ApproveReadKeeps, RejectCommitKeeps, ApproveFetchKeeps, ApprovePutKeeps,
     ApproveCommitKeeps, DiscardKeeps DEF Review
<1>5. CASE \E r \in Requests : Crash(r)
  BY <1>5, CrashKeeps
<1> QED BY <1>1, <1>2, <1>3, <1>4, <1>5 DEF Next

-----------------------------------------------------------------------------
(* The theorems *)

\* The inductive invariant holds in every reachable state.
THEOREM PhotoInvariant == Spec => []PhotoInv
  BY InvInit, InvStep, PTL DEF Spec

\* Every row, object and request in flight holds a value it may hold.
THEOREM PhotosTypeCorrect == Spec => []PhotoTypeOK
<1>1. PhotoInv => PhotoTypeOK
  BY DEF PhotoInv
<1> QED BY <1>1, PhotoInvariant, PTL

\* What an approved profile shows is an object made from an upload an Admin was shown,
\* and from the bytes she was shown, whatever uploads, attaches and decisions ran at
\* once; of an object written over twice it says only the first (photos.ts:396-413).
THEOREM OnlyReviewedPhotosArePublished == Spec => []PublishedWasReviewed
<1>1. PhotoInv => PublishedWasReviewed
  BY DEF PhotoInv
<1> QED BY <1>1, PhotoInvariant, PTL

\* Where at most one object is ever written over, or one request dies, the bytes are the
\* ones she was shown, without exception: one rewrite cannot bring an ETag back, and it
\* takes two to show an Admin bytes that are not the ones published (schema.ts:667).
THEOREM OneRewriteIsCaught == MaxFaults < 2 => (Spec => []ReviewedBytesArePublished)
<1> SUFFICES ASSUME MaxFaults < 2 PROVE Spec => []ReviewedBytesArePublished
  OBVIOUS
<1>1. PhotoInv => ReviewedBytesArePublished
  <2> SUFFICES ASSUME PhotoInv, NEW w \in Workers, photoState[w] = "approved"
               PROVE  \E p \in PublicKeys, c \in cards :
                        /\ photoKey[w] = p
                        /\ c.profile = w
                        /\ publicBucket[p] = [key |-> c.key, bytes |-> c.bytes]
    BY DEF ReviewedBytesArePublished
  <2>1. PICK p \in PublicKeys, c \in cards : photoKey[w] = p /\ c.profile = w /\ MadeFrom(p, c)
    BY DEF PhotoInv, PublishedWasReviewed
  <2>2. c.key \in Keys /\ rewrites[c.key] \in 0..MaxFaults
    BY DEF PhotoInv, PhotoTypeOK, Cards
  <2>3. ~(rewrites[c.key] >= 2)
    BY <2>2, PhotoBounds
  <2>4. publicBucket[p] = [key |-> c.key, bytes |-> c.bytes]
    BY <2>1, <2>3 DEF MadeFrom, PublicObjects
  <2> QED BY <2>1, <2>4
<1> QED BY <1>1, PhotoInvariant, PTL

\* No photo is decided twice, by however many Admins (handlers.ts:629-689).
THEOREM OneDecisionPerPhoto == Spec => []DecidedOnce
<1>1. PhotoInv => DecidedOnce
  BY DEF PhotoInv
<1> QED BY <1>1, PhotoInvariant, PTL

\* A refused photo is shown on no profile (photos/index.ts:353-399).  It may stay in the
\* public bucket, under a key no row names: RejectionDeletesTheObject is not a theorem.
THEOREM RejectedStaysHidden == Spec => []RejectedIsNeverShown
<1>1. PhotoInv => RejectedIsNeverShown
  <2> SUFFICES ASSUME PhotoInv, NEW w \in Workers, NEW p \in PublicKeys,
                      photoState[w] = "approved", photoKey[w] = p
               PROVE  adminAction[publicBucket[p].key]["rejectPhoto"] = 0
    BY DEF RejectedIsNeverShown
  <2>1. PICK c \in cards : publicBucket[p].key = c.key
    BY DEF PhotoInv, PublishedWasReviewed, MadeFrom
  <2>2. c.key \in Keys
    BY DEF PhotoInv, PhotoTypeOK, Cards
  <2>3. /\ adminAction[c.key]["approvePhoto"] = 1
        /\ adminAction[c.key]["approvePhoto"] + adminAction[c.key]["rejectPhoto"] <= 1
        /\ adminAction[c.key]["rejectPhoto"] \in Nat
    BY <2>1, <2>2 DEF PhotoInv, PhotoTypeOK, PhotoActs, ShownIsApproved, DecidedOnce
  <2> QED BY <2>1, <2>3
<1> QED BY <1>1, PhotoInvariant, PTL

\* A waiting photo is there to be looked at, unless the bucket's lifecycle rule took it:
\* no request of the program deletes it first (photos/index.ts:27-30).
THEOREM WaitingPhotoIsThere == Spec => []WaitingHasItsObject
<1>1. PhotoInv => WaitingHasItsObject
  BY DEF PhotoInv, RowsWaitForADecision, ObjectsAreAccountedFor, Undecided, PhotoActs,
     WaitingHasItsObject
<1> QED BY <1>1, PhotoInvariant, PTL

-----------------------------------------------------------------------------
(* The promise: every step is a step of PhotoPromise, or none *)

LEMMA FreshFrame ==
  ASSUME UNCHANGED photoUpload,
         \A q \in Requests, k \in Keys : Carries(q, k)' <=> Carries(q, k)
  PROVE  UNCHANGED FreshKeys
  BY DEF FreshKeys

LEMMA RowsFrame ==
  ASSUME PhotoInv, UNCHANGED <<photoState, photoKey, photoEtag>>,
         \A p \in PublicKeys : publicBucket[p] # None => publicBucket'[p] = publicBucket[p]
  PROVE  UNCHANGED <<WaitingPhoto, ShownPhoto>>
<1>1. UNCHANGED WaitingPhoto
  BY DEF WaitingPhoto
<1>2. ASSUME NEW w \in Workers, photoState[w] = "approved"
      PROVE  publicBucket'[photoKey[w]] = publicBucket[photoKey[w]]
  <2>1. PICK p \in PublicKeys : photoKey[w] = p /\ publicBucket[p] \in PublicObjects
    BY <1>2 DEF PhotoInv, PublishedWasReviewed, MadeFrom
  <2> QED BY <2>1, PhotoNone
<1>3. UNCHANGED ShownPhoto
  BY <1>2 DEF ShownPhoto
<1> QED BY <1>1, <1>3

LEMMA SeenFrame == UNCHANGED cards => UNCHANGED SeenUploads
  BY DEF SeenUploads

LEMMA VerdictsFrame == UNCHANGED adminAction => UNCHANGED Verdicts
  BY DEF Verdicts

\* A step of a request that neither takes nor gives up a key, or of none.
LEMMA PromiseFrame ==
  ASSUME PhotoInv, UNCHANGED <<rowVars, photoUpload, mintedFor, auditVars>>,
         \A p \in PublicKeys : publicBucket[p] # None => publicBucket'[p] = publicBucket[p],
         \A q \in Requests, k \in Keys : Carries(q, k)' <=> Carries(q, k)
  PROVE  UNCHANGED Promise!promiseVars
  BY FreshFrame, RowsFrame, SeenFrame, VerdictsFrame DEF Promise!promiseVars, rowVars, auditVars

LEMMA CreateUploadMints ==
  ASSUME PhotoInv, NEW w \in Workers, NEW k \in Keys, CreateUpload(w, k)
  PROVE  Promise!Mint(w, k)
<1>1. mintedFor[k] = None /\ mintedFor' = [mintedFor EXCEPT ![k] = w]
  BY DEF CreateUpload, NextKey
<1>2. /\ photoUpload'[w] = k
      /\ \A v \in Workers : v # w => photoUpload'[v] \in {None, photoUpload[v]}
  BY DEF CreateUpload, IntentsAfter
<1>3. UNCHANGED <<pc, job>>
  BY DEF CreateUpload
<1>4. k \in FreshKeys' /\ FreshKeys' \subseteq FreshKeys \cup {k}
  BY <1>2, <1>3, PhotoNone DEF FreshKeys, Carries
<1>5. \E lapsed \in SUBSET FreshKeys : FreshKeys' = (FreshKeys \ lapsed) \cup {k}
  <2>1. FreshKeys' = (FreshKeys \ (FreshKeys \ FreshKeys')) \cup {k}
    BY <1>4
  <2> QED BY <2>1
<1>6. UNCHANGED <<WaitingPhoto, ShownPhoto, SeenUploads, Verdicts>>
  BY RowsFrame, SeenFrame, VerdictsFrame DEF CreateUpload, rowVars, auditVars
<1> QED BY <1>1, <1>5, <1>6 DEF Promise!Mint

\* The key of an attach that ends is attached by none any more.
LEMMA KeyLeaves ==
  ASSUME PhotoInv, NEW r \in Requests, pc[r] = "consumed", Finish(r), UNCHANGED photoUpload
  PROVE  /\ job[r].key \in FreshKeys
         /\ FreshKeys' = FreshKeys \ {job[r].key}
<1>1. job[r].key \in Keys /\ Carries(r, job[r].key)
  BY DEF PhotoInv, AttachesHoldTheKey, AttachPCs, Carries
<1>2. pc'[r] = "idle" /\ \A q \in Requests : q # r => pc'[q] = pc[q] /\ job'[q] = job[q]
  BY DEF PhotoInv, PhotoTypeOK, Finish
<1>3. \A q \in Requests : q # r => ~Carries(q, job[r].key)
  BY DEF PhotoInv, ConsumedOnce
<1>4. \A w \in Workers : photoUpload[w] # job[r].key
  BY <1>1, PhotoNone DEF PhotoInv, IntentsAreFresh
<1>5. \A q \in Requests, k \in Keys : Carries(q, k)' <=> Carries(q, k) /\ q # r
  BY <1>2 DEF Carries
<1>6. \A k \in Keys : k # job[r].key => ~Carries(r, k)
  BY DEF Carries
<1>7. ASSUME NEW k \in Keys
      PROVE  k \in FreshKeys' <=> k \in FreshKeys /\ k # job[r].key
  <2>1. CASE k = job[r].key
    BY <2>1, <1>3, <1>4, <1>5 DEF FreshKeys
  <2>2. CASE k # job[r].key
    BY <2>2, <1>5, <1>6 DEF FreshKeys
  <2> QED BY <2>1, <2>2
<1>8. FreshKeys \subseteq Keys /\ FreshKeys' \subseteq Keys
  BY DEF FreshKeys
<1>9. job[r].key \in FreshKeys
  BY <1>1 DEF FreshKeys
<1>10. FreshKeys' = FreshKeys \ {job[r].key}
  BY <1>7, <1>8
<1> QED BY <1>9, <1>10

\* A request that ends, having changed nothing else.
LEMMA FinishLapses ==
  ASSUME PhotoInv, NEW r \in Requests, Finish(r),
         UNCHANGED <<rowVars, photoUpload, mintedFor, publicBucket, auditVars>>
  PROVE  \/ \E k \in Keys : Promise!Lapse(k)
         \/ UNCHANGED Promise!promiseVars
<1>1. CASE pc[r] = "consumed"
  <2>1. /\ job[r].key \in FreshKeys /\ FreshKeys' = FreshKeys \ {job[r].key}
        /\ job[r].key \in Keys
    BY <1>1, KeyLeaves DEF FreshKeys
  <2>2. UNCHANGED <<mintedFor, WaitingPhoto, ShownPhoto, SeenUploads, Verdicts>>
    BY RowsFrame, SeenFrame, VerdictsFrame DEF rowVars, auditVars
  <2> QED BY <2>1, <2>2 DEF Promise!Lapse
<1>2. CASE pc[r] # "consumed"
  <2>1. pc'[r] = "idle" /\ \A q \in Requests : q # r => pc'[q] = pc[q] /\ job'[q] = job[q]
    BY DEF PhotoInv, PhotoTypeOK, Finish
  <2>2. \A q \in Requests, k \in Keys : Carries(q, k)' <=> Carries(q, k)
    BY <1>2, <2>1 DEF Carries
  <2> QED BY <2>2, PromiseFrame
<1> QED BY <1>1, <1>2

LEMMA AttachConsumeKeepsTheKey ==
  ASSUME PhotoInv, NEW r \in Requests, AttachConsume(r)
  PROVE  \/ \E k \in Keys : Promise!Lapse(k)
         \/ UNCHANGED Promise!promiseVars
<1>1. CASE ~HoldsIntent(job[r].profile, job[r].key)
  BY <1>1, FinishLapses DEF AttachConsume
<1>2. CASE HoldsIntent(job[r].profile, job[r].key)
  <2> DEFINE w == job[r].profile
             k == job[r].key
  <2>1. w \in Workers /\ k \in Keys
    BY DEF PhotoInv, AttachesHoldTheKey, AttachPCs, AttachConsume
  <2>2. /\ photoUpload[w] = k
        /\ \A v \in Workers : photoUpload'[v] = IF v = w THEN None ELSE photoUpload[v]
    BY <1>2, <2>1 DEF AttachConsume, HoldsIntent, IntentsWithout, PhotoInv, PhotoTypeOK
  <2>3. /\ pc[r] = "headed" /\ job' = job
        /\ \A q \in Requests : pc'[q] = IF q = r THEN "consumed" ELSE pc[q]
    BY <1>2 DEF AttachConsume, Goto, PhotoInv, PhotoTypeOK
  <2>4. \A q \in Requests, j \in Keys : Carries(q, j)' <=> Carries(q, j) \/ (q = r /\ j = k)
    BY <2>3 DEF Carries
  <2>5. ASSUME NEW j \in Keys PROVE j \in FreshKeys' <=> j \in FreshKeys
    <3>1. CASE j = k
      BY <3>1, <2>1, <2>2, <2>4 DEF FreshKeys
    <3>2. CASE j # k
      <4>1. \A v \in Workers : photoUpload'[v] = j <=> photoUpload[v] = j
        BY <3>2, <2>2, PhotoNone
      <4> QED BY <3>2, <4>1, <2>4 DEF FreshKeys
    <3> QED BY <3>1, <3>2
  <2>6. UNCHANGED FreshKeys
    <3>1. FreshKeys \subseteq Keys /\ FreshKeys' \subseteq Keys
      BY DEF FreshKeys
    <3> QED BY <3>1, <2>5
  <2>7. UNCHANGED <<mintedFor, WaitingPhoto, ShownPhoto, SeenUploads, Verdicts>>
    BY RowsFrame, SeenFrame, VerdictsFrame DEF AttachConsume, rowVars, auditVars
  <2> QED BY <2>6, <2>7 DEF Promise!promiseVars
<1> QED BY <1>1, <1>2

LEMMA AttachWriteAttaches ==
  ASSUME PhotoInv, NEW r \in Requests, AttachWrite(r)
  PROVE  \/ \E w \in Workers, k \in Keys, b \in Contents : Promise!Attach(w, k, b)
         \/ \E k \in Keys : Promise!Lapse(k)
         \/ UNCHANGED Promise!promiseVars
<1>1. CASE job[r].profile \notin published
  BY <1>1, FinishLapses DEF AttachWrite, rowVars, uploadVars
<1>2. CASE job[r].profile \in published
  <2> DEFINE w == job[r].profile
             k == job[r].key
             b == job[r].etag
  <2>1. w \in Workers /\ k \in Keys /\ mintedFor[k] = w /\ b \in Contents
    BY DEF PhotoInv, AttachesHoldTheKey, ConsumedOnce, AttachPCs, AttachWrite
  <2>2. k \in FreshKeys /\ FreshKeys' = FreshKeys \ {k}
    BY KeyLeaves DEF AttachWrite, uploadVars
  <2>3. \A v \in Workers :
          /\ photoState'[v] = IF v = w THEN "pending" ELSE photoState[v]
          /\ photoKey'[v] = IF v = w THEN k ELSE photoKey[v]
          /\ photoEtag'[v] = IF v = w THEN b ELSE photoEtag[v]
    BY <1>2, <2>1 DEF AttachWrite, PhotoInv, PhotoTypeOK
  <2>4. WaitingPhoto' = [WaitingPhoto EXCEPT ![w] = [key |-> k, bytes |-> b]]
    BY <2>1, <2>3 DEF WaitingPhoto
  <2>5. ShownPhoto' = [ShownPhoto EXCEPT ![w] = None]
    <3>1. UNCHANGED publicBucket
      BY DEF AttachWrite
    <3> QED BY <2>1, <2>3, <3>1 DEF ShownPhoto
  <2>6. UNCHANGED <<mintedFor, SeenUploads, Verdicts>>
    BY SeenFrame, VerdictsFrame DEF AttachWrite, uploadVars, auditVars
  <2>7. Promise!Attach(w, k, b)
    BY <2>1, <2>2, <2>4, <2>5, <2>6 DEF Promise!Attach
  <2> QED BY <2>1, <2>7
<1> QED BY <1>1, <1>2

\* A waiting row is a waiting picture.
LEMMA WaitingRow ==
  ASSUME PhotoInv, NEW w \in Workers, photoState[w] = "pending"
  PROVE  /\ photoKey[w] \in Keys /\ photoEtag[w] \in Contents /\ Undecided(photoKey[w])
         /\ WaitingPhoto[w] = [key |-> photoKey[w], bytes |-> photoEtag[w]]
         /\ WaitingPhoto[w] # None /\ WaitingPhoto[w].key = photoKey[w]
<1>1. photoKey[w] \in Keys /\ photoEtag[w] \in Contents /\ Undecided(photoKey[w])
  BY DEF PhotoInv, RowsWaitForADecision
<1>2. [key |-> photoKey[w], bytes |-> photoEtag[w]] \in PublicObjects
  BY <1>1 DEF PublicObjects
<1>3. WaitingPhoto[w] = [key |-> photoKey[w], bytes |-> photoEtag[w]]
  BY DEF WaitingPhoto
<1> QED BY <1>1, <1>2, <1>3, PhotoNone

LEMMA ShowCardSees ==
  ASSUME PhotoInv, NEW w \in Workers, ShowCard(w)
  PROVE  Promise!See(w)
<1>1. WaitingPhoto[w] # None /\ WaitingPhoto[w].key = photoKey[w]
  BY WaitingRow DEF ShowCard
<1>2. SeenUploads' = SeenUploads \cup {photoKey[w]}
  <2> DEFINE shown == [profile |-> w, key |-> photoKey[w], bytes |-> quarantine[photoKey[w]]]
  <2>1. cards' = cards \cup {shown} /\ shown.key = photoKey[w]
    BY DEF ShowCard
  <2> HIDE DEF shown
  <2> QED BY <2>1 DEF SeenUploads
<1>3. UNCHANGED <<mintedFor, FreshKeys, WaitingPhoto, ShownPhoto, Verdicts>>
  <2>1. \A q \in Requests, k \in Keys : Carries(q, k)' <=> Carries(q, k)
    BY DEF ShowCard, Carries
  <2> QED BY <2>1, FreshFrame, RowsFrame, VerdictsFrame DEF ShowCard, rowVars, uploadVars
<1> QED BY <1>1, <1>2, <1>3 DEF Promise!See

\* What a decision does to the verdicts: the key it decides, and no other.
LEMMA AuditDecides ==
  ASSUME PhotoInv, NEW k \in Keys, Undecided(k), NEW act \in PhotoActs,
         adminAction' = Audited(k, act)
  PROVE  Verdicts' = [Verdicts EXCEPT ![k] = IF act = "approvePhoto" THEN "approved" ELSE "rejected"]
<1>1. \A j \in Keys, a \in PhotoActs :
        /\ adminAction[j][a] \in Nat
        /\ adminAction'[j][a] = IF j = k /\ a = act THEN adminAction[j][a] + 1 ELSE adminAction[j][a]
  BY DEF PhotoInv, PhotoTypeOK, Audited
<1>2. /\ adminAction[k]["approvePhoto"] = 0 /\ adminAction[k]["rejectPhoto"] = 0
      /\ act \in {"approvePhoto", "rejectPhoto"}
      /\ \A j \in Keys : j # k =>
           /\ adminAction'[j]["approvePhoto"] = adminAction[j]["approvePhoto"]
           /\ adminAction'[j]["rejectPhoto"] = adminAction[j]["rejectPhoto"]
  BY <1>1 DEF Undecided, PhotoActs
<1>3. adminAction'[k]["approvePhoto"] = IF act = "approvePhoto" THEN 1 ELSE 0
  BY <1>1, <1>2 DEF PhotoActs
<1>4. adminAction'[k]["rejectPhoto"] = IF act = "rejectPhoto" THEN 1 ELSE 0
  BY <1>1, <1>2 DEF PhotoActs
<1>5. ASSUME NEW j \in Keys
      PROVE  Verdicts'[j] = IF j # k THEN Verdicts[j]
                            ELSE IF act = "approvePhoto" THEN "approved" ELSE "rejected"
  BY <1>2, <1>3, <1>4 DEF Verdicts
<1> QED BY <1>5 DEF Verdicts

LEMMA ApproveCommitApproves ==
  ASSUME PhotoInv, NEW r \in Requests, ApproveCommit(r)
  PROVE  \/ \E w \in Workers : Promise!Approve(w)
         \/ \E k \in Keys : Promise!Lapse(k)
         \/ UNCHANGED Promise!promiseVars
<1>1. CASE ~IsWaiting(job[r].profile, job[r].key)
  BY <1>1, FinishLapses DEF ApproveCommit, rowVars, uploadVars, auditVars
<1>2. CASE IsWaiting(job[r].profile, job[r].key)
  <2> DEFINE w == job[r].profile
             k == job[r].key
  <2>1. /\ w \in Workers /\ k \in Keys /\ job[r].etag = photoEtag[w]
        /\ publicBucket[job[r].made] = [key |-> k, bytes |-> job[r].etag]
        /\ \E c \in cards : c.key = k
    BY <1>2 DEF PhotoInv, ApprovalsFollowACard, PromotionsAreWritten, ApprovePCs, ApproveCommit
  <2>2. photoState[w] = "pending" /\ photoKey[w] = k
    BY <1>2 DEF IsWaiting
  <2>3. /\ WaitingPhoto[w] # None /\ WaitingPhoto[w].key = k /\ Undecided(k)
        /\ publicBucket[job[r].made] = WaitingPhoto[w]
    BY <2>1, <2>2, WaitingRow
  <2>4. k \in SeenUploads
    BY <2>1 DEF SeenUploads
  <2>5. \A u \in Workers :
          /\ photoState'[u] = IF u = w THEN "approved" ELSE photoState[u]
          /\ photoKey'[u] = IF u = w THEN job[r].made ELSE photoKey[u]
          /\ u # w => photoEtag'[u] = photoEtag[u]
    BY <1>2, <2>1 DEF ApproveCommit, PhotoInv, PhotoTypeOK
  <2>6. WaitingPhoto' = [WaitingPhoto EXCEPT ![w] = None]
    <3>1. ASSUME NEW u \in Workers
          PROVE  WaitingPhoto'[u] = IF u = w THEN None ELSE WaitingPhoto[u]
      BY <2>5 DEF WaitingPhoto
    <3> QED BY <3>1 DEF WaitingPhoto
  <2>7. ShownPhoto' = [ShownPhoto EXCEPT ![w] = WaitingPhoto[w]]
    <3>1. UNCHANGED publicBucket
      BY DEF ApproveCommit
    <3>2. ASSUME NEW u \in Workers
          PROVE  ShownPhoto'[u] = IF u = w THEN publicBucket[job[r].made] ELSE ShownPhoto[u]
      BY <2>5, <3>1 DEF ShownPhoto
    <3>3. ShownPhoto' = [ShownPhoto EXCEPT ![w] = publicBucket[job[r].made]]
      BY <3>2 DEF ShownPhoto
    <3> QED BY <2>3, <3>3
  <2>8. Verdicts' = [Verdicts EXCEPT ![k] = "approved"]
    <3>1. adminAction' = Audited(k, "approvePhoto") /\ "approvePhoto" \in PhotoActs
      BY <1>2 DEF ApproveCommit, PhotoActs
    <3> QED BY <3>1, <2>1, <2>3, AuditDecides
  <2>9. UNCHANGED <<mintedFor, FreshKeys, SeenUploads>>
    <3>1. pc[r] = "promoted" /\ pc'[r] = "idle"
          /\ \A q \in Requests : q # r => pc'[q] = pc[q] /\ job'[q] = job[q]
      BY DEF ApproveCommit, Finish, PhotoInv, PhotoTypeOK
    <3>2. \A q \in Requests, j \in Keys : Carries(q, j)' <=> Carries(q, j)
      BY <3>1 DEF Carries
    <3> QED BY <3>2, FreshFrame, SeenFrame DEF ApproveCommit, uploadVars
  <2>10. Promise!Approve(w)
    BY <2>3, <2>4, <2>6, <2>7, <2>8, <2>9 DEF Promise!Approve
  <2> QED BY <2>1, <2>10
<1> QED BY <1>1, <1>2

LEMMA RejectCommitRejects ==
  ASSUME PhotoInv, NEW r \in Requests, NEW c \in cards, RejectCommit(r, c)
  PROVE  \E w \in Workers : Promise!Reject(w)
<1> DEFINE w == c.profile
           k == c.key
<1>1. w \in Workers /\ k \in Keys
  BY DEF PhotoInv, PhotoTypeOK, Cards
<1>2. photoState[w] = "pending" /\ photoKey[w] = k
  BY DEF RejectCommit, IsWaiting
<1>3. WaitingPhoto[w] # None /\ WaitingPhoto[w].key = k /\ Undecided(k)
  BY <1>1, <1>2, WaitingRow
<1>4. k \in SeenUploads
  BY DEF SeenUploads
<1>5. \A u \in Workers :
        /\ photoState'[u] = IF u = w THEN "rejected" ELSE photoState[u]
        /\ photoKey'[u] = IF u = w THEN None ELSE photoKey[u]
        /\ u # w => photoEtag'[u] = photoEtag[u]
  BY <1>1 DEF RejectCommit, PhotoInv, PhotoTypeOK
<1>6. WaitingPhoto' = [WaitingPhoto EXCEPT ![w] = None]
  BY <1>1, <1>5 DEF WaitingPhoto
<1>7. UNCHANGED ShownPhoto
  <2>1. UNCHANGED publicBucket
    BY DEF RejectCommit
  <2> QED BY <1>2, <1>5, <2>1 DEF ShownPhoto
<1>8. Verdicts' = [Verdicts EXCEPT ![k] = "rejected"]
  <2>1. adminAction' = Audited(k, "rejectPhoto") /\ "rejectPhoto" \in PhotoActs
    BY <1>2 DEF RejectCommit, PhotoActs
  <2> QED BY <2>1, <1>1, <1>3, AuditDecides
<1>9. UNCHANGED <<mintedFor, FreshKeys, SeenUploads>>
  <2>1. pc[r] = "idle" /\ pc'[r] = "discarding"
        /\ \A q \in Requests : q # r => pc'[q] = pc[q] /\ job'[q] = job[q]
    BY DEF RejectCommit, PhotoInv, PhotoTypeOK
  <2>2. \A q \in Requests, j \in Keys : Carries(q, j)' <=> Carries(q, j)
    BY <2>1 DEF Carries
  <2> QED BY <2>2, FreshFrame, SeenFrame DEF RejectCommit, uploadVars
<1>10. Promise!Reject(w)
  BY <1>3, <1>4, <1>6, <1>7, <1>8, <1>9 DEF Promise!Reject
<1> QED BY <1>1, <1>10

\* The steps the promise does not tell apart from none.
LEMMA OtherStepsStutter ==
  ASSUME PhotoInv,
         \/ \E w \in Workers : Publish(w)
         \/ \E k \in Keys, b \in Contents : PutObject(k, b) \/ RewriteObject(k, b)
         \/ \E k \in Keys : CollectObject(k)
         \/ \E r \in Requests :
              \/ \E w \in Workers, k \in Keys : AttachHead(r, w, k)
              \/ \E c \in cards : ApproveRead(r, c)
              \/ \E p \in PublicKeys : ApprovePut(r, p)
  PROVE  UNCHANGED Promise!promiseVars
<1>1. UNCHANGED <<photoState, photoKey, photoEtag, photoUpload, mintedFor, auditVars>>
  BY DEF Publish, PutObject, RewriteObject, CollectObject, AttachHead, ApproveRead, ApprovePut,
     rowVars, uploadVars
<1>2. \A p \in PublicKeys : publicBucket[p] # None => publicBucket'[p] = publicBucket[p]
  BY DEF Publish, PutObject, RewriteObject, CollectObject, AttachHead, ApproveRead, ApprovePut,
     PhotoInv, PhotoTypeOK
<1>3. \A q \in Requests, k \in Keys : Carries(q, k)' <=> Carries(q, k)
  <2>1. CASE UNCHANGED <<pc, job>>
    BY <2>1 DEF Carries
  <2>2. CASE \E r \in Requests, w \in Workers, k \in Keys : AttachHead(r, w, k)
    BY <2>2 DEF AttachHead, Carries, PhotoInv, PhotoTypeOK
  <2>3. CASE \E r \in Requests, c \in cards : ApproveRead(r, c)
    BY <2>3 DEF ApproveRead, Carries, PhotoInv, PhotoTypeOK
  <2>4. CASE \E r \in Requests, p \in PublicKeys : ApprovePut(r, p)
    BY <2>4 DEF ApprovePut, Carries, PhotoInv, PhotoTypeOK
  <2> QED BY <2>1, <2>2, <2>3, <2>4 DEF Publish, PutObject, RewriteObject, CollectObject
<1> QED BY <1>1, <1>2, <1>3, FreshFrame, RowsFrame, SeenFrame, VerdictsFrame
        DEF Promise!promiseVars, auditVars

LEMMA ApproveFetchStutters ==
  ASSUME PhotoInv, NEW r \in Requests, ApproveFetch(r)
  PROVE  UNCHANGED Promise!promiseVars
<1>1. /\ pc[r] = "approving" /\ pc'[r] # "consumed"
      /\ \A q \in Requests : q # r => pc'[q] = pc[q] /\ job'[q] = job[q]
  BY DEF ApproveFetch, Finish, PhotoInv, PhotoTypeOK
<1>2. \A q \in Requests, k \in Keys : Carries(q, k)' <=> Carries(q, k)
  BY <1>1 DEF Carries
<1> QED BY <1>2, PromiseFrame DEF ApproveFetch, uploadVars

LEMMA PromiseInit == Init => Promise!Init
<1> SUFFICES ASSUME Init PROVE Promise!Init
  OBVIOUS
<1>1. FreshKeys = {}
  BY PhotoNone DEF Init, FreshKeys, Carries
<1>2. /\ WaitingPhoto = [w \in Workers |-> None] /\ ShownPhoto = [w \in Workers |-> None]
      /\ SeenUploads = {}
  BY DEF Init, WaitingPhoto, ShownPhoto, SeenUploads
<1>3. Verdicts = [k \in Keys |-> "none"]
  BY DEF Init, Verdicts, PhotoActs
<1> QED BY <1>1, <1>2, <1>3 DEF Init, Promise!Init

LEMMA PromiseStep ==
  PhotoInv /\ [Next]_photoVars => [Promise!Next]_Promise!promiseVars
<1> SUFFICES ASSUME PhotoInv, [Next]_photoVars
             PROVE  Promise!Next \/ UNCHANGED Promise!promiseVars
  OBVIOUS
<1>1. CASE UNCHANGED photoVars
  <2>1. \A q \in Requests, k \in Keys : Carries(q, k)' <=> Carries(q, k)
    BY <1>1 DEF photoVars, Carries
  <2> QED BY <1>1, <2>1, PromiseFrame DEF photoVars, uploadVars
<1>2. CASE Upload
  BY <1>2, CreateUploadMints, OtherStepsStutter DEF Upload, Promise!Next
<1>3. CASE \E w \in Workers : ShowCard(w)
  BY <1>3, ShowCardSees DEF Promise!Next
<1>4. CASE \E r \in Requests : Attach(r)
  BY <1>4, AttachConsumeKeepsTheKey, AttachWriteAttaches, OtherStepsStutter
  DEF Attach, Promise!Next
<1>5. CASE \E r \in Requests : Review(r)
  <2>1. PICK r \in Requests : Review(r)
    BY <1>5
  <2>2. CASE Discard(r)
    BY <2>2, FinishLapses DEF Discard, uploadVars, Promise!Next
  <2>3. CASE ~Discard(r)
    BY <2>1, <2>3, RejectCommitRejects, ApproveFetchStutters, ApproveCommitApproves,
       OtherStepsStutter DEF Review, Promise!Next
  <2> QED BY <2>2, <2>3
<1>6. CASE \E r \in Requests : Crash(r)
  BY <1>6, FinishLapses DEF Crash, uploadVars, Promise!Next
<1> QED BY <1>1, <1>2, <1>3, <1>4, <1>5, <1>6 DEF Next

\* Requests of several steps over two stores, with crashes, do what PhotoPromise says in
\* one step each; what is shown is what was attached, even where the object was written
\* over, there and back, or collected in between (photos/index.ts:15-20).
THEOREM PhotoPromiseIsImplemented == Spec => PromiseSpec
  BY PhotoInvariant, PromiseInit, PromiseStep, PTL DEF Spec, PromiseSpec, Promise!Spec

=============================================================================
