---------------------------- MODULE PushDelivery ----------------------------
(***************************************************************************)
(* Notifications and their push deliveries: triggers of the discussion     *)
(* tables write the inbox and queue one delivery per installation, and     *)
(* workers claim the queue and call the push providers (migration          *)
(* 20260826120000_add_discussion_notifications, notificationRepository,    *)
(* services/notificationDeliveryWorker).                                   *)
(*                                                                         *)
(* One recipient with one phone: every session registers the same token.   *)
(* A claim is identified by its delivery and its attempt number, which no  *)
(* two claims share.  Batches are larger than the queue.                   *)
(***************************************************************************)
EXTENDS Integers, FiniteSets, Sequences, SequencesExt

CONSTANTS PushSessions,    \* sessions of the recipient, an installation each
          PushWorkers,     \* backend processes
          MaxPushAttempts,
          PushLimit        \* bound: events, changes by the recipient, and
                           \* troubles (crashes, failing calls, leases
                           \* outlived) of a behaviour, all together

ASSUME PushSessionsAssumption == IsFiniteSet(PushSessions)
ASSUME MaxPushAttemptsAssumption == MaxPushAttempts \in Nat \ {0}
ASSUME PushLimitAssumption == PushLimit \in Nat

VARIABLES
    account,       \* users.account_status: "active" or "deleted"
    pushEnabled,   \* notification_preferences
    session,       \* auth_sessions: "active", "expired", "ended"
    installation,  \* push_installations.status, "none" without a row
    notice,        \* notifications: the n-th one
    delivery,      \* push_deliveries: the n-th one
    batch,         \* batch[w]: claims a run of worker w waits for
    handlers,      \* deliveries being handled, a record for each claim
    accepted,      \* history: how often the provider took the n-th one
    doubted,       \* history: deliveries whose handling went wrong somewhere
    happened       \* events, changes and troubles so far

recipientVars == <<account, pushEnabled, session, installation, notice>>
workVars == <<batch, handlers, accepted, doubted>>
pushVars == <<recipientVars, delivery, workVars, happened>>

Deliveries == DOMAIN delivery
OpenStatuses == {"pending", "retry", "processing"}
FinalStatuses == {"sent", "invalid_token", "dead", "deleted"}

\* The session that has registered the token at first.
FirstPushSession == CHOOSE s \in PushSessions : TRUE

PushInit ==
    /\ account = "active" /\ pushEnabled = TRUE
    /\ session = [s \in PushSessions |-> "active"]
    /\ installation = [s \in PushSessions |->
                         IF s = FirstPushSession THEN "active" ELSE "none"]
    /\ notice = <<>> /\ delivery = <<>>
    /\ batch = [w \in PushWorkers |-> {}]
    /\ handlers = {} /\ accepted = <<>> /\ doubted = {} /\ happened = 0

Happen == happened < PushLimit /\ happened' = happened + 1

-----------------------------------------------------------------------------
(* The recipient *)

\* register_push_installation: the token moves to this session.
RegisterInstallation(s) ==
    /\ account = "active" /\ session[s] = "active"
    /\ Happen
    /\ \E granted \in BOOLEAN :
         installation' = [t \in PushSessions |->
           IF t = s THEN (IF granted THEN "active" ELSE "revoked")
           ELSE IF installation[t] = "active" THEN "stale" ELSE installation[t]]
    /\ UNCHANGED <<account, pushEnabled, session, notice, delivery, workVars>>

RevokeInstallation(s) ==
    /\ installation[s] # "none"
    /\ Happen
    /\ installation' = [installation EXCEPT ![s] = "revoked"]
    /\ UNCHANGED <<account, pushEnabled, session, notice, delivery, workVars>>

\* The trigger revokes the installation; a session that only expires leaves
\* it.
EndSession(s) ==
    /\ session[s] = "active"
    /\ Happen
    /\ \/ /\ session' = [session EXCEPT ![s] = "ended"]
          /\ installation' = [installation EXCEPT ![s] = IF @ = "active" THEN "revoked" ELSE @]
       \/ session' = [session EXCEPT ![s] = "expired"] /\ UNCHANGED installation
    /\ UNCHANGED <<account, pushEnabled, notice, delivery, workVars>>

UpdatePreferences ==
    /\ account = "active"
    /\ Happen
    /\ pushEnabled' = ~pushEnabled
    /\ UNCHANGED <<account, session, installation, notice, delivery, workVars>>

ArchiveNotice(n) ==
    /\ notice[n].status = "inbox"
    /\ Happen
    /\ notice' = [notice EXCEPT ![n].status = "archived"]
    /\ UNCHANGED <<account, pushEnabled, session, installation, delivery, workVars>>

\* cleanup_disabled_user_notifications, and what cascades from it.
DeleteRecipient ==
    /\ account = "active"
    /\ Happen
    /\ account' = "deleted" /\ pushEnabled' = FALSE
    /\ session' = [s \in PushSessions |-> "ended"]
    /\ installation' = [s \in PushSessions |-> "none"]
    /\ notice' = [n \in DOMAIN notice |-> [notice[n] EXCEPT !.status = "deleted"]]
    /\ delivery' = [d \in Deliveries |-> [delivery[d] EXCEPT !.status = "deleted"]]
    /\ UNCHANGED workVars

-----------------------------------------------------------------------------
(* The triggers of the discussion tables *)

\* enqueue_notification_push_deliveries
Enqueued(n) ==
    IF ~pushEnabled THEN <<>>
    ELSE LET installed == SetToSeq({s \in PushSessions :
                            installation[s] = "active" /\ session[s] = "active"})
         IN  [k \in DOMAIN installed |->
                [notice |-> n, session |-> installed[k], status |-> "pending",
                 due |-> TRUE, leaseOver |-> FALSE, attempts |-> 0]]

EnqueueDeliveries(n) ==
    /\ delivery' = delivery \o Enqueued(n)
    /\ accepted' = accepted \o [k \in DOMAIN Enqueued(n) |-> 0]

\* materialize_published_comment_notification: a notification of its own.
PublishComment ==
    /\ account = "active" /\ Happen
    /\ notice' = Append(notice, [kind |-> "comment", status |-> "inbox", recent |-> TRUE])
    /\ EnqueueDeliveries(Len(notice) + 1)
    /\ UNCHANGED <<account, pushEnabled, session, installation, batch, handlers, doubted>>

LikeNotices == {n \in DOMAIN notice : notice[n].kind = "like"}

\* materialize_discussion_like_notification: later likes of the same post
\* bring the notification back, and are pushed again when the last push is
\* not recent.
LikePost ==
    /\ account = "active" /\ Happen
    /\ IF LikeNotices = {}
         THEN /\ notice' = Append(notice, [kind |-> "like", status |-> "inbox", recent |-> TRUE])
              /\ EnqueueDeliveries(Len(notice) + 1)
         ELSE \E n \in LikeNotices :
              /\ notice' = [notice EXCEPT ![n] = [@ EXCEPT !.status = "inbox", !.recent = TRUE]]
              /\ IF notice[n].recent THEN UNCHANGED <<delivery, accepted>> ELSE EnqueueDeliveries(n)
    /\ UNCHANGED <<account, pushEnabled, session, installation, batch, handlers, doubted>>

-----------------------------------------------------------------------------
(* runOnce: claim_notification_push_deliveries, then all handlers at once *)

Eligible(d) ==
    /\ notice[delivery[d].notice].status = "inbox"
    /\ installation[delivery[d].session] = "active"
    /\ session[delivery[d].session] = "active"
    /\ pushEnabled

\* Mutant: a delivery can be claimed while its lease runs.
ClaimableWhileLeased(d) == delivery[d].status \in OpenStatuses /\ delivery[d].due

\* Mutant: what was once claimed is never claimed again without a retry.
NeverReclaimed(d) == delivery[d].status \in {"pending", "retry"} /\ delivery[d].due

Claimable(d) ==
    /\ delivery[d].due
    /\ \/ delivery[d].status \in {"pending", "retry"}
       \/ delivery[d].status = "processing" /\ delivery[d].leaseOver

Screened(d) == delivery[d].status \in OpenStatuses /\ ~Eligible(d)

Claimed == {d \in Deliveries : Claimable(d) /\ Eligible(d)}

\* Deliveries that may no longer be made die first, claimed ones too.
ClaimDeliveries(w) ==
    /\ batch[w] = {}
    /\ Claimed # {} \/ \E d \in Deliveries : Screened(d)
    /\ delivery' = [d \in Deliveries |->
         IF Screened(d) THEN [delivery[d] EXCEPT !.status = "dead"]
         ELSE IF d \in Claimed
           THEN [delivery[d] EXCEPT !.status = "processing", !.leaseOver = FALSE,
                                    !.attempts = @ + 1]
           ELSE delivery[d]]
    /\ LET claims == {<<d, delivery[d].attempts + 1>> : d \in Claimed}
       IN  /\ batch' = [batch EXCEPT ![w] = claims]
           /\ handlers' = handlers \cup
                {[claim |-> c, worker |-> w, step |-> "send"] : c \in claims}
    /\ UNCHANGED <<recipientVars, accepted, doubted, happened>>

\* What a handler does next, and what its run waits for when it has ended.
GoOn(h, step) ==
    /\ handlers' = (handlers \ {h}) \cup
         (IF step = "end" THEN {} ELSE {[h EXCEPT !.step = step]})
    /\ batch' = IF step = "end" THEN [batch EXCEPT ![h.worker] = @ \ {h.claim}] ELSE batch

Of(h) == h.claim[1]

Trouble(h) ==
    /\ Happen
    /\ doubted' = doubted \cup {Of(h)}

\* The provider's answer, or none: the call may have been taken all the
\* same.  A token that cannot be decrypted counts as "dead".
Send(h) ==
    /\ h.step = "send"
    /\ \/ /\ accepted' = [accepted EXCEPT ![Of(h)] = @ + 1]
          /\ GoOn(h, "sent") /\ UNCHANGED <<doubted, happened>>
       \/ /\ \E answer \in {"invalid_token", "retry", "dead"} : GoOn(h, answer)
          /\ UNCHANGED <<accepted, doubted, happened>>
       \/ /\ accepted' \in {accepted, [accepted EXCEPT ![Of(h)] = @ + 1]}
          /\ GoOn(h, "retry") /\ Trouble(h)
    /\ UNCHANGED <<recipientVars, delivery>>

\* Mutant: the attempts are not counted.
NeverExhausted(h) == FALSE

Exhausted(h) == h.claim[2] >= MaxPushAttempts

Outcome(h) == IF h.step = "retry" /\ Exhausted(h) THEN "dead" ELSE h.step

\* completeDelivery names the row only: neither who has it now nor its
\* status matter.
Complete(d, status, due) ==
    delivery' = [delivery EXCEPT ![d] =
        IF @.status = "deleted" THEN @
        ELSE [@ EXCEPT !.status = status, !.due = due, !.leaseOver = FALSE]]

CompleteDelivery(h) ==
    /\ h.step \in {"sent", "invalid_token", "retry", "dead"}
    /\ \/ /\ Complete(Of(h), Outcome(h), Outcome(h) # "retry")
          /\ GoOn(h, CASE h.step = "sent" -> "markSuccessful"
                       [] h.step = "invalid_token" -> "markInvalid"
                       [] OTHER -> "end")
          /\ UNCHANGED <<doubted, happened>>
       \/ GoOn(h, "catch") /\ Trouble(h) /\ UNCHANGED delivery
    /\ UNCHANGED <<recipientVars, accepted>>

\* The installation is updated by id, whatever token it has by now.
MarkInstallation(h) ==
    /\ h.step \in {"markSuccessful", "markInvalid"}
    /\ \/ /\ installation' = [installation EXCEPT ![delivery[Of(h)].session] =
                IF h.step = "markInvalid" /\ @ # "none" THEN "invalid" ELSE @]
          /\ GoOn(h, "end")
          /\ UNCHANGED <<doubted, happened>>
       \/ GoOn(h, "catch") /\ Trouble(h) /\ UNCHANGED installation
    /\ UNCHANGED <<account, pushEnabled, session, notice, delivery, accepted>>

\* The catch block of runOnce; when it fails as well, the run ends and the
\* other handlers go on by themselves.
CatchFailure(h) ==
    /\ h.step = "catch"
    /\ \/ /\ Complete(Of(h), IF Exhausted(h) THEN "dead" ELSE "retry", FALSE)
          /\ GoOn(h, "end")
          /\ UNCHANGED <<doubted, happened>>
       \/ /\ handlers' = handlers \ {h}
          /\ batch' = [batch EXCEPT ![h.worker] = {}]
          /\ Trouble(h) /\ UNCHANGED delivery
    /\ UNCHANGED <<recipientVars, accepted>>

CrashPushWorker(w) ==
    /\ Happen
    /\ LET lost == {h \in handlers : h.worker = w}
       IN  /\ lost # {}
           /\ handlers' = handlers \ lost
           /\ doubted' = doubted \cup {Of(h) : h \in lost}
    /\ batch' = [batch EXCEPT ![w] = {}]
    /\ UNCHANGED <<recipientVars, delivery, accepted>>

-----------------------------------------------------------------------------
(* Time *)

Handled(d) == \E h \in handlers : Of(h) = d

\* The lock timeout of a claim, which a slow handler may outlive.
LeaseRunsOut(d) ==
    /\ delivery[d].status = "processing" /\ ~delivery[d].leaseOver
    /\ delivery' = [delivery EXCEPT ![d].leaseOver = TRUE]
    /\ IF Handled(d)
         THEN Happen /\ doubted' = doubted \cup {d}
         ELSE UNCHANGED <<doubted, happened>>
    /\ UNCHANGED <<recipientVars, batch, handlers, accepted>>

RetryIsDue(d) ==
    /\ delivery[d].status \in OpenStatuses /\ ~delivery[d].due
    /\ delivery' = [delivery EXCEPT ![d].due = TRUE]
    /\ UNCHANGED <<recipientVars, workVars, happened>>

\* Fifteen minutes after a push.
PushIsOld(n) ==
    /\ notice[n].kind = "like" /\ notice[n].recent
    /\ notice' = [notice EXCEPT ![n].recent = FALSE]
    /\ UNCHANGED <<account, pushEnabled, session, installation, delivery, workVars, happened>>

PushWork ==
    \/ \E w \in PushWorkers : ClaimDeliveries(w)
    \/ \E h \in handlers :
         Send(h) \/ CompleteDelivery(h) \/ MarkInstallation(h) \/ CatchFailure(h)
    \/ \E d \in Deliveries : LeaseRunsOut(d) \/ RetryIsDue(d)

PushNext ==
    \/ \E s \in PushSessions :
         RegisterInstallation(s) \/ RevokeInstallation(s) \/ EndSession(s)
    \/ UpdatePreferences \/ DeleteRecipient \/ PublishComment \/ LikePost
    \/ \E n \in DOMAIN notice : ArchiveNotice(n) \/ PushIsOld(n)
    \/ PushWork
    \/ \E w \in PushWorkers : CrashPushWorker(w)

PushFairness == WF_pushVars(PushWork)

PushSpec == PushInit /\ [][PushNext]_pushVars /\ PushFairness

-----------------------------------------------------------------------------
\* The types of the variables; every claim a run waits for has a handler.
PushTypeOK ==
    /\ account \in {"active", "deleted"} /\ pushEnabled \in BOOLEAN
    /\ session \in [PushSessions -> {"active", "expired", "ended"}]
    /\ installation \in [PushSessions -> {"none", "active", "revoked", "stale", "invalid"}]
    /\ \A n \in DOMAIN notice : notice[n].status \in {"inbox", "archived", "deleted"}
    /\ \A d \in Deliveries :
         /\ delivery[d].status \in OpenStatuses \cup FinalStatuses
         /\ delivery[d].attempts \in Nat
    /\ DOMAIN accepted = Deliveries /\ doubted \subseteq Deliveries
    /\ \A w \in PushWorkers :
         batch[w] \subseteq {h.claim : h \in {g \in handlers : g.worker = w}}

\* A push goes out twice, or is tried more often than maxAttempts, only when
\* something went wrong in handling it: a crash, a lost answer, a failing
\* update or a lease outlived.  Runs, retries, registrations and preferences
\* that overlap never double it.
DuplicatesAreExplained ==
    \A d \in Deliveries :
        accepted[d] > 1 \/ delivery[d].attempts > MaxPushAttempts => d \in doubted

\* Every delivery ends, through crashes, retries and lost leases, and stays
\* as it ended.
DeliveriesEnd ==
    <>[](\A d \in Deliveries : delivery[d].status \in FinalStatuses)
=============================================================================
