---------------------------- MODULE HumanReview ----------------------------
(***************************************************************************)
(* Human identity verification: a device asks for a review, uploads two    *)
(* face images, an administrator decides, and a registration consumes the  *)
(* approval (services/humanVerificationService.ts,                         *)
(* humanVerificationApprovalService.ts, humanVerificationRetentionWorker,  *)
(* completeRegistration of authService.ts).                                *)
(*                                                                         *)
(* Requests are numbered in the order of their rows.  A call is split      *)
(* where it awaits the database or the storage.  Every request is made     *)
(* with a challenge of its own; review tokens and signatures are taken as  *)
(* valid.  Time: overdue is expires_at <= now, and the first agedCount     *)
(* requests of settledOrder have an updated_at beyond the retention time.  *)
(***************************************************************************)
EXTENDS Integers, FiniteSets, Sequences, SequencesExt

CONSTANTS ReviewDevices,  \* device credentials
          NoDevice,
          MediaKinds,     \* document_portrait and live_face
          ReviewCalls,    \* bound: the calls of a behaviour
          ReviewMixes,    \* what those calls are: operation and device
          CleanupLimit    \* requests one cleanup run takes on (100)

ReviewOps == {"create", "complete", "refreshUrls", "cancel", "queue", "approve",
              "reject", "register"}

ASSUME NoDeviceAssumption == NoDevice \notin ReviewDevices
ASSUME MediaKindsAssumption == MediaKinds # {}
ASSUME ReviewCallsAssumption == IsFiniteSet(ReviewCalls)
ASSUME CleanupLimitAssumption == CleanupLimit \in Nat \ {0}
ASSUME ReviewMixesAssumption ==
    ReviewMixes \subseteq [ReviewCalls -> ReviewOps \X ReviewDevices]

VARIABLES
    reviews,       \* human_verification_requests
    media,         \* media[r][k]: human_verification_media and its object
    settledOrder,  \* settled requests by updated_at
    agedCount,
    enrolled,      \* devices whose credential a registration inserted
    reviewCall,    \* reviewCall[c]: the state of call c
    cleanup        \* the retention worker

reviewRows == <<reviews, media, settledOrder, agedCount, enrolled>>
reviewVars == <<reviewRows, reviewCall, cleanup>>

ActiveStatuses == {"uploading", "pending", "approved"}
SettledStatuses == {"rejected", "consumed", "expired", "cancelled"}

Reviews == DOMAIN reviews
Active(r) == reviews[r].status \in ActiveStatuses

NoMedia == [k \in MediaKinds |-> [status |-> "none", stored |-> "none"]]
IdleCleanup == [pc |-> "idle", todo |-> <<>>, kinds |-> {}]

ReviewInit ==
    /\ reviews = <<>>
    /\ media = <<>>
    /\ settledOrder = <<>>
    /\ agedCount = 0
    /\ enrolled = {}
    /\ \E mix \in ReviewMixes :
         reviewCall = [c \in ReviewCalls |->
           [pc |-> "idle", op |-> mix[c][1], device |-> mix[c][2], review |-> 0,
            read |-> "none", todo |-> {}]]
    /\ cleanup = IdleCleanup

-----------------------------------------------------------------------------
(* Rows and steps of calls. *)

\* Mutant: the row is updated whatever its status is by now.
AlwaysMatches(r, expected) == TRUE

StatusMatches(r, expected) == reviews[r].status = expected

\* transitionRequest, where it matches; entering a settled status sets
\* updated_at for the last time but one.
Transition(r, next) ==
    /\ reviews' = [reviews EXCEPT ![r].status = next]
    /\ settledOrder' = IF next \in SettledStatuses THEN Append(settledOrder, r)
                                                    ELSE settledOrder

\* A settled request is updated and comes last.
PlaceOf(r) == CHOOSE n \in DOMAIN settledOrder : settledOrder[n] = r
Touched(r) == Append(RemoveAt(settledOrder, PlaceOf(r)), r)

StepTo(c, pc) == reviewCall' = [reviewCall EXCEPT ![c].pc = pc, ![c].read = "none"]

\* A finished call keeps only what it was about.
End(c, pc) ==
    reviewCall' = [reviewCall EXCEPT ![c].pc = pc, ![c].read = "none", ![c].todo = {}]

TransitionOr(c, r, expected, next, pc, otherwise) ==
    IF StatusMatches(r, expected)
      THEN Transition(r, next) /\ StepTo(c, pc)
      ELSE StepTo(c, otherwise) /\ UNCHANGED <<reviews, settledOrder>>

At(c, op, pc) == reviewCall[c].op = op /\ reviewCall[c].pc = pc

-----------------------------------------------------------------------------
(* createRequest *)

ActiveOf(d) == {r \in Reviews : reviews[r].device = d /\ Active(r)}

FindActive(c) ==
    /\ At(c, "create", "idle")
    /\ LET active == ActiveOf(reviewCall[c].device)
       IN  IF active = {} THEN StepTo(c, "inserting")
           ELSE \E r \in active :
             IF reviews[r].overdue
               THEN reviewCall' = [reviewCall EXCEPT ![c].pc = "expiring", ![c].review = r,
                                                     ![c].read = reviews[r].status]
               ELSE End(c, "failed")
    /\ UNCHANGED <<reviewRows, cleanup>>

\* Whether the overdue request was expired is not looked at.
ExpireOld(c) ==
    /\ At(c, "create", "expiring")
    /\ TransitionOr(c, reviewCall[c].review, reviewCall[c].read, "expired",
                    "inserting", "inserting")
    /\ UNCHANGED <<media, agedCount, enrolled, cleanup>>

\* Mutant: without the unique index on active requests of a device.
NoUniqueIndex(d) == TRUE

MayInsert(d) == ActiveOf(d) = {}

InsertRequest(c) ==
    /\ At(c, "create", "inserting")
    /\ LET d == reviewCall[c].device
       IN  IF MayInsert(d)
             THEN /\ reviews' = Append(reviews,
                        [device |-> d, status |-> "uploading", overdue |-> FALSE,
                         upsert |-> FALSE, action |-> "none", spender |-> 0])
                  /\ media' = Append(media, NoMedia)
                  /\ reviewCall' = [reviewCall EXCEPT ![c].pc = "media",
                                                      ![c].review = Len(reviews) + 1,
                                                      ![c].todo = MediaKinds]
             ELSE End(c, "failed") /\ UNCHANGED <<reviews, media>>
    /\ UNCHANGED <<settledOrder, agedCount, enrolled, cleanup>>

InsertMedia(c) ==
    /\ At(c, "create", "media")
    /\ LET k == CHOOSE k \in reviewCall[c].todo : TRUE
           left == reviewCall[c].todo \ {k}
       IN  /\ media' = [media EXCEPT ![reviewCall[c].review][k].status = "signed"]
           /\ reviewCall' = [reviewCall EXCEPT ![c].todo = left,
                               ![c].pc = IF left = {} THEN "ok" ELSE @]
    /\ UNCHANGED <<reviews, settledOrder, agedCount, enrolled, cleanup>>

\* The client puts an image through a signed URL: once, or again when the
\* URLs were refreshed.  URLs live for two hours.
Upload(r, k) ==
    /\ media[r][k].status # "none"
    /\ \A n \in 1..agedCount : settledOrder[n] # r
    /\ media[r][k].stored = "none" \/ reviews[r].upsert
    /\ \E bytes \in {"declared", "other"} :
         media' = [media EXCEPT ![r][k].stored = bytes]
    /\ UNCHANGED <<reviews, settledOrder, agedCount, enrolled, reviewCall, cleanup>>

-----------------------------------------------------------------------------
(* Calls about an existing request: they read it with requireReview, which *)
(* expires an overdue one.                                                 *)

RequireReview(c) ==
    /\ reviewCall[c].op \in {"complete", "refreshUrls", "cancel"}
    /\ reviewCall[c].pc = "idle"
    /\ \E r \in Reviews :
         /\ reviews[r].device = reviewCall[c].device
         /\ reviewCall' = [reviewCall EXCEPT
              ![c].review = r, ![c].read = reviews[r].status,
              ![c].pc = IF reviews[r].overdue /\ Active(r) THEN "expiring" ELSE "loaded"]
    /\ UNCHANGED <<reviewRows, cleanup>>

\* An expired request is of no use to any of these calls.
ExpireLoaded(c) ==
    /\ reviewCall[c].op \in {"complete", "refreshUrls", "cancel"}
    /\ reviewCall[c].pc = "expiring"
    /\ TransitionOr(c, reviewCall[c].review, reviewCall[c].read, "expired",
                    "failed", "failed")
    /\ UNCHANGED <<media, agedCount, enrolled, cleanup>>

\* completeRequest on what was read: a pending request is answered at once.
StartVerifying(c) ==
    /\ At(c, "complete", "loaded")
    /\ LET r == reviewCall[c].review
       IN  CASE reviewCall[c].read = "pending" -> End(c, "ok")
             [] reviewCall[c].read = "uploading"
                  /\ \A k \in MediaKinds : media[r][k].status # "none" ->
                  reviewCall' = [reviewCall EXCEPT ![c].pc = "verifying",
                                                   ![c].todo = MediaKinds]
             [] OTHER -> End(c, "failed")
    /\ UNCHANGED <<reviewRows, cleanup>>

\* Mutant: the bytes are not looked at.
AnyBytesPass(r, k) == TRUE

BytesMatch(r, k) == media[r][k].stored = "declared"

\* The stored bytes are downloaded and compared, then the row is marked.
VerifyMedia(c) ==
    /\ At(c, "complete", "verifying")
    /\ LET r == reviewCall[c].review
           k == CHOOSE k \in reviewCall[c].todo : TRUE
           left == reviewCall[c].todo \ {k}
       IN  IF BytesMatch(r, k)
             THEN /\ media' = [media EXCEPT ![r][k].status = "uploaded"]
                  /\ reviewCall' = [reviewCall EXCEPT ![c].todo = left,
                                      ![c].pc = IF left = {} THEN "submitting" ELSE @]
             ELSE End(c, "failed") /\ UNCHANGED media
    /\ UNCHANGED <<reviews, settledOrder, agedCount, enrolled, cleanup>>

SubmitRequest(c) ==
    /\ At(c, "complete", "submitting")
    /\ TransitionOr(c, reviewCall[c].review, "uploading", "pending", "ok", "failed")
    /\ UNCHANGED <<media, agedCount, enrolled, cleanup>>

RefreshUploadUrls(c) ==
    /\ At(c, "refreshUrls", "loaded")
    /\ LET r == reviewCall[c].review
       IN  IF reviewCall[c].read = "uploading" /\ \A k \in MediaKinds : media[r][k].status # "none"
             THEN reviews' = [reviews EXCEPT ![r].upsert = TRUE] /\ End(c, "ok")
             ELSE End(c, "failed") /\ UNCHANGED reviews
    /\ UNCHANGED <<media, settledOrder, agedCount, enrolled, cleanup>>

CancelRequest(c) ==
    /\ At(c, "cancel", "loaded")
    /\ IF reviewCall[c].read \in {"uploading", "pending"}
         THEN TransitionOr(c, reviewCall[c].review, reviewCall[c].read, "cancelled",
                           "removing", "failed")
         ELSE End(c, "failed") /\ UNCHANGED <<reviews, settledOrder>>
    /\ UNCHANGED <<media, agedCount, enrolled, cleanup>>

\* The objects go, the rows keep their status.
RemoveCancelled(c) ==
    /\ At(c, "cancel", "removing")
    /\ media' = [media EXCEPT ![reviewCall[c].review] =
                   [k \in MediaKinds |-> [@[k] EXCEPT !.stored = "none"]]]
    /\ End(c, "ok")
    /\ UNCHANGED <<reviews, settledOrder, agedCount, enrolled, cleanup>>

-----------------------------------------------------------------------------
(* listAdminQueue and applyAdminDecision *)

\* One overdue request of the queue's page is expired.
ExpireQueued(c) ==
    /\ At(c, "queue", "idle")
    /\ \E r \in Reviews :
         /\ reviews[r].status = "pending" /\ reviews[r].overdue
         /\ reviewCall' = [reviewCall EXCEPT ![c].pc = "expiring", ![c].review = r]
    /\ UNCHANGED <<reviewRows, cleanup>>

ExpirePending(c) ==
    /\ reviewCall[c].op \in {"queue", "approve", "reject"} /\ reviewCall[c].pc = "expiring"
    /\ TransitionOr(c, reviewCall[c].review, "pending", "expired", "failed", "failed")
    /\ UNCHANGED <<media, agedCount, enrolled, cleanup>>

LoadForDecision(c) ==
    /\ reviewCall[c].op \in {"approve", "reject"} /\ reviewCall[c].pc = "idle"
    /\ \E r \in Reviews :
         /\ reviews[r].status = "pending"
         /\ reviewCall' = [reviewCall EXCEPT ![c].review = r,
              ![c].pc = IF reviews[r].overdue THEN "expiring" ELSE "deciding"]
    /\ UNCHANGED <<reviewRows, cleanup>>

Decision(c) == IF reviewCall[c].op = "approve" THEN "approved" ELSE "rejected"

Decide(c) ==
    /\ reviewCall[c].pc = "deciding"
    /\ TransitionOr(c, reviewCall[c].review, "pending", Decision(c), "recording", "failed")
    /\ UNCHANGED <<media, agedCount, enrolled, cleanup>>

\* insertReviewAction
RecordAction(c) ==
    /\ reviewCall[c].pc = "recording"
    /\ reviews' = [reviews EXCEPT ![reviewCall[c].review].action = Decision(c)]
    /\ End(c, "ok")
    /\ UNCHANGED <<media, settledOrder, agedCount, enrolled, cleanup>>

-----------------------------------------------------------------------------
(* completeRegistration with human-review evidence *)

Usable(r, d) ==
    reviews[r].status = "approved" /\ ~reviews[r].overdue /\ reviews[r].device = d

ValidateApproval(c) ==
    /\ At(c, "register", "idle")
    /\ \E r \in Reviews :
         /\ Usable(r, reviewCall[c].device)
         /\ reviewCall' = [reviewCall EXCEPT ![c].pc = "enrolling", ![c].review = r]
    /\ UNCHANGED <<reviewRows, cleanup>>

\* The user, the credential and its attestation are stored before the
\* approval is consumed.
EnrolDevice(c) ==
    /\ At(c, "register", "enrolling")
    /\ enrolled' = enrolled \cup {reviewCall[c].device}
    /\ StepTo(c, "revalidating")
    /\ UNCHANGED <<reviews, media, settledOrder, agedCount, cleanup>>

Revalidate(c) ==
    /\ At(c, "register", "revalidating")
    /\ StepTo(c, IF Usable(reviewCall[c].review, reviewCall[c].device)
                   THEN "consuming" ELSE "failed")
    /\ UNCHANGED <<reviewRows, cleanup>>

ConsumeApproval(c) ==
    /\ At(c, "register", "consuming")
    /\ TransitionOr(c, reviewCall[c].review, "approved", "consumed", "associating", "failed")
    /\ UNCHANGED <<media, agedCount, enrolled, cleanup>>

\* associateConsumedUser touches the row; then the session is issued, which
\* may fail with the session limit.
AssociateUser(c) ==
    /\ At(c, "register", "associating")
    /\ LET r == reviewCall[c].review
       IN  IF reviews[r].status = "consumed"
             THEN /\ reviews' = [reviews EXCEPT ![r].spender = @ + 1]
                  /\ settledOrder' = Touched(r)
             ELSE UNCHANGED <<reviews, settledOrder>>
    /\ \/ reviewCall' = [reviewCall EXCEPT ![c].pc = "deleting", ![c].todo = MediaKinds]
       \/ End(c, "failed")
    /\ UNCHANGED <<media, agedCount, enrolled, cleanup>>

Erased(m) == IF m.status = "deleted" THEN m
             ELSE [status |-> "deleted", stored |-> "none"]

\* deleteConsumedMedia: an image whose object cannot be removed is left to
\* the retention worker.
DeleteConsumedMedia(c) ==
    /\ At(c, "register", "deleting")
    /\ LET r == reviewCall[c].review
           k == CHOOSE k \in reviewCall[c].todo : TRUE
           left == reviewCall[c].todo \ {k}
       IN  /\ media' \in {media, [media EXCEPT ![r][k] = Erased(@)]}
           /\ reviewCall' = [reviewCall EXCEPT ![c].todo = left,
                               ![c].pc = IF left = {} THEN "ok" ELSE @]
    /\ UNCHANGED <<reviews, settledOrder, agedCount, enrolled, cleanup>>

-----------------------------------------------------------------------------
(* cleanupExpiredAndRetainedMedia, run again and again by the worker *)

OverdueRows == {[review |-> r, read |-> reviews[r].status] :
                  r \in {s \in Reviews : Active(s) /\ reviews[s].overdue}}

\* listOverdueActive: as many as the limit allows, whichever they are.
ListOverdue ==
    /\ cleanup.pc = "idle"
    /\ \E rows \in SUBSET OverdueRows :
         /\ rows = OverdueRows \/ Cardinality(rows) = CleanupLimit
         /\ Cardinality(rows) <= CleanupLimit
         /\ cleanup' = [cleanup EXCEPT !.pc = "expiring", !.todo = SetToSeq(rows)]
    /\ UNCHANGED <<reviewRows, reviewCall>>

ExpireOverdue ==
    /\ cleanup.pc = "expiring" /\ cleanup.todo # <<>>
    /\ LET row == Head(cleanup.todo)
       IN  IF StatusMatches(row.review, row.read)
             THEN Transition(row.review, "expired")
             ELSE UNCHANGED <<reviews, settledOrder>>
    /\ cleanup' = [cleanup EXCEPT !.todo = Tail(@)]
    /\ UNCHANGED <<media, agedCount, enrolled, reviewCall>>

\* Mutant: the requests settled last come first.
NewestAged == LET n == agedCount
                  m == IF n < CleanupLimit THEN n ELSE CleanupLimit
              IN  SubSeq(settledOrder, n - m + 1, n)

\* listMediaCleanupCandidates: the oldest settled requests, cleaned up or
\* not.
OldestAged == SubSeq(settledOrder, 1,
                     IF agedCount < CleanupLimit THEN agedCount ELSE CleanupLimit)

ListCandidates ==
    /\ cleanup.pc = "expiring" /\ cleanup.todo = <<>>
    /\ cleanup' = [pc |-> "deleting", todo |-> OldestAged, kinds |-> MediaKinds]
    /\ UNCHANGED <<reviewRows, reviewCall>>

AtImage == cleanup.pc = "deleting" /\ cleanup.todo # <<>>
NextImage == CHOOSE k \in cleanup.kinds : TRUE

GoToNextImage ==
    cleanup' = IF cleanup.kinds = {NextImage}
                 THEN [cleanup EXCEPT !.todo = Tail(@), !.kinds = MediaKinds]
                 ELSE [cleanup EXCEPT !.kinds = @ \ {NextImage}]

\* The storage removes the object, and the row is marked.
EraseMedia ==
    /\ AtImage /\ media[Head(cleanup.todo)][NextImage].status \notin {"none", "deleted"}
    /\ media' = [media EXCEPT ![Head(cleanup.todo)][NextImage] = Erased(@)]
    /\ GoToNextImage
    /\ UNCHANGED <<reviews, settledOrder, agedCount, enrolled, reviewCall>>

\* There is no row, or it is marked already, or the storage answers with an
\* error and the image is left to a later run.
PassOverMedia ==
    /\ AtImage
    /\ GoToNextImage
    /\ UNCHANGED <<reviewRows, reviewCall>>

EndCleanup ==
    /\ cleanup.pc = "deleting" /\ cleanup.todo = <<>>
    /\ cleanup' = IdleCleanup
    /\ UNCHANGED <<reviewRows, reviewCall>>

\* A query throws, or the process ends: the run is over, perhaps between the
\* removal of an object and the mark on its row.
AbortCleanup ==
    /\ cleanup.pc # "idle"
    /\ \/ UNCHANGED media
       \/ AtImage /\ media' = [media EXCEPT ![Head(cleanup.todo)][NextImage].stored = "none"]
    /\ cleanup' = IdleCleanup
    /\ UNCHANGED <<reviews, settledOrder, agedCount, enrolled, reviewCall>>

CleanupStep == ListOverdue \/ ExpireOverdue \/ ListCandidates \/ EraseMedia \/ PassOverMedia
            \/ EndCleanup \/ AbortCleanup

-----------------------------------------------------------------------------
(* Time *)

PassDeadline(r) ==
    /\ Active(r) /\ ~reviews[r].overdue
    /\ reviews' = [reviews EXCEPT ![r].overdue = TRUE]
    /\ UNCHANGED <<media, settledOrder, agedCount, enrolled, reviewCall, cleanup>>

InUse(r) == \E c \in ReviewCalls : reviewCall[c].review = r
                /\ reviewCall[c].pc \notin {"idle", "ok", "failed"}

\* Days pass: no call takes that long.
PassRetention ==
    /\ agedCount < Len(settledOrder)
    /\ ~InUse(settledOrder[agedCount + 1])
    /\ agedCount' = agedCount + 1
    /\ UNCHANGED <<reviews, media, settledOrder, enrolled, reviewCall, cleanup>>

ReviewNext ==
    \/ \E c \in ReviewCalls :
         \/ FindActive(c) \/ ExpireOld(c) \/ InsertRequest(c) \/ InsertMedia(c)
         \/ RequireReview(c) \/ ExpireLoaded(c)
         \/ StartVerifying(c) \/ VerifyMedia(c) \/ SubmitRequest(c)
         \/ RefreshUploadUrls(c) \/ CancelRequest(c) \/ RemoveCancelled(c)
         \/ ExpireQueued(c) \/ ExpirePending(c)
         \/ LoadForDecision(c) \/ Decide(c) \/ RecordAction(c)
         \/ ValidateApproval(c) \/ EnrolDevice(c) \/ Revalidate(c)
         \/ ConsumeApproval(c) \/ AssociateUser(c) \/ DeleteConsumedMedia(c)
    \/ CleanupStep
    \/ \E r \in Reviews : PassDeadline(r) \/ \E k \in MediaKinds : Upload(r, k)
    \/ PassRetention

\* The timer starts run after run, and again and again one ends without a
\* query that throws; the storage does not refuse to remove for ever.
ReviewFairness == []<><<EndCleanup>>_reviewVars /\ SF_reviewVars(EraseMedia)

ReviewSpec == ReviewInit /\ [][ReviewNext]_reviewVars /\ ReviewFairness

-----------------------------------------------------------------------------
\* The types of the variables.
ReviewTypeOK ==
    /\ \A r \in Reviews :
         /\ reviews[r].device \in ReviewDevices
         /\ reviews[r].status \in ActiveStatuses \cup SettledStatuses
         /\ reviews[r].overdue \in BOOLEAN /\ reviews[r].upsert \in BOOLEAN
         /\ reviews[r].action \in {"none", "approved", "rejected"}
         /\ reviews[r].spender \in Nat
    /\ media \in [Reviews -> [MediaKinds ->
         [status : {"none", "signed", "uploaded", "deleted"},
          stored : {"none", "declared", "other"}]]]
    /\ Range(settledOrder) = {r \in Reviews : ~Active(r)}
    /\ agedCount \in 0..Len(settledOrder)
    /\ enrolled \subseteq ReviewDevices
    /\ cleanup.pc \in {"idle", "expiring", "deleting"}

\* The requests as one-time grants of their devices.
ReviewGrants == 1..Cardinality(ReviewCalls)
GrantStateOf(r) ==
    IF r \notin Reviews THEN "absent"
    ELSE CASE reviews[r].status \in {"uploading", "pending"} -> "open"
           [] reviews[r].status = "approved" -> "approved"
           [] reviews[r].status = "consumed" -> "spent"
           [] OTHER -> "void"

Grant == INSTANCE OneTimeGrant WITH
    Grants <- ReviewGrants, Holders <- ReviewDevices, Nobody <- NoDevice,
    grantState <- [r \in ReviewGrants |-> GrantStateOf(r)],
    grantHolder <- [r \in ReviewGrants |->
                      IF r \in Reviews THEN reviews[r].device ELSE NoDevice]

\* However calls, administrators, deadlines and the worker overlap, a
\* device has one live request at most, a settled request stays as it is,
\* and only an approved one is consumed.
ReviewImplementsGrant == Grant!GrantSpec

\* An administrator never looks at a request without its images: while it
\* is pending or approved, each image was verified and is stored.
ReviewedRequestsHaveMedia ==
    \A r \in Reviews : reviews[r].status \in {"pending", "approved"} =>
        \A k \in MediaKinds :
            media[r][k].status = "uploaded" /\ media[r][k].stored # "none"

\* A registration that succeeds has spent an approval of its own device,
\* which an administrator gave, and shares it with no other registration.
RegistrationsSpendApprovals ==
    \A c \in ReviewCalls : At(c, "register", "ok") =>
        LET r == reviewCall[c].review
        IN  /\ reviews[r].status = "consumed"
            /\ reviews[r].device = reviewCall[c].device
            /\ reviews[r].action # "rejected"
            /\ \A b \in ReviewCalls : At(b, "register", "ok") /\ b # c =>
                 reviewCall[b].review # r

\* An approval is given for images that are there, and is spent once.
ApprovalsAreEarnedAndSpentOnce ==
    ReviewedRequestsHaveMedia /\ RegistrationsSpendApprovals

Rows(r) == {media[r][k].status : k \in MediaKinds}

\* The images of the requests that were settled first, as many as one
\* cleanup run takes on, are deleted when the retention time is over.  The
\* others' are not: the candidates are not filtered by what is left to do.
OldestMediaIsDeleted ==
    \A n \in 1..CleanupLimit :
        agedCount >= n ~> /\ agedCount >= n
                          /\ Rows(settledOrder[n]) \subseteq {"none", "deleted"}
=============================================================================
