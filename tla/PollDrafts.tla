----------------------------- MODULE PollDrafts -----------------------------
(***************************************************************************)
(* A poll from its creation to its close: the drafts its owner edits and   *)
(* publishes, the moderation, the review, and the triggers that freeze a   *)
(* published poll (services/pollDraftService, repositories/pollRepository, *)
(* migration 20260710130000).                                              *)
(*                                                                         *)
(* The policy is everything of the row the trigger freezes but the hash of *)
(* the options.  A policy is named by the call that wrote it, and so are   *)
(* the options that call brings; a hash is the set of options it is made   *)
(* from.  A call is split where it awaits the database or the moderation,  *)
(* and may stop anywhere.                                                  *)
(* Not modelled: images, scheduled polls, the validation of the input.     *)
(***************************************************************************)
EXTENDS Integers

CONSTANT DraftCalls  \* bound: the calls of a behaviour

ASSUME DraftCallsAssumption == DraftCalls \subseteq Nat \ {0}

NoContent == 0

DraftOps == {"create", "update", "publish"}

\* statusForAction, and what a model's answer may be
ReviewOutcomes == {"published", "blocked", "needs_edit"}
ModerationOutcomes == {"published", "blocked", "review_required", "moderation_error"}

VARIABLES
    draft,         \* the row of polls
    draftOptions,  \* the rows of poll_options, by the calls that brought them
    draftCall,     \* draftCall[c]: the state of call c
    cleared        \* history: policies and hashes the moderation allowed

draftVars == <<draft, draftOptions, draftCall, cleared>>

IdleCall == [pc |-> "idle", op |-> "none", status |-> "none", row |-> NoContent,
             options |-> {}, unread |-> {}]

FinishedCall == [IdleCall EXCEPT !.pc = "done"]

DraftInit ==
    /\ draft = [status |-> "none", policy |-> NoContent, hash |-> {},
                moderation |-> "none"]
    /\ draftOptions = {}
    /\ draftCall = [c \in DraftCalls |-> IdleCall]
    /\ cleared = {}

-----------------------------------------------------------------------------
(* The triggers of polls and poll_options *)

\* prevent_published_poll_policy_mutation
PollMayBecome(row) ==
    draft.status # "draft" =>
        /\ row.status # "draft"
        /\ row.policy = draft.policy /\ row.hash = draft.hash

\* Mutant: the trigger on the options is missing.
OptionsAlwaysMutable == TRUE

\* prevent_published_poll_options_mutation
OptionsMayChange == draft.status = "draft"

\* updateById: an exception of the trigger ends the call.
UpdateById(c, row, next) ==
    IF PollMayBecome(row)
      THEN draft' = row /\ draftCall' = [draftCall EXCEPT ![c] = next]
      ELSE draftCall' = [draftCall EXCEPT ![c] = FinishedCall] /\ UNCHANGED draft

-----------------------------------------------------------------------------
(* createPoll *)

StageDraft(c) ==
    /\ draftCall[c].pc = "idle" /\ draft.status = "none"
    /\ \E status \in {"draft", "active"} :
         /\ draft' = [status |-> "draft", policy |-> c, hash |-> {c},
                      moderation |-> IF status = "draft" THEN "draft" ELSE "moderation_pending"]
         /\ draftCall' = [draftCall EXCEPT ![c] = [IdleCall EXCEPT
              !.pc = "inserting", !.op = "create", !.status = status,
              !.row = c, !.options = {c}]]
    /\ UNCHANGED <<draftOptions, cleared>>

AfterInsert(c) ==
    IF draftCall[c].op = "create" /\ draftCall[c].status = "active"
      THEN [draftCall[c] EXCEPT !.pc = "moderating"] ELSE FinishedCall

\* insertOptions, of a new poll or at the end of replaceOptions, adds to the
\* rows there are, unless two have the same id.
InsertOptions(c) ==
    /\ draftCall[c].pc = "inserting"
    /\ \/ /\ OptionsMayChange /\ draftOptions \cap draftCall[c].options = {}
          /\ draftOptions' = draftOptions \cup draftCall[c].options
          /\ draftCall' = [draftCall EXCEPT ![c] = AfterInsert(c)]
       \/ /\ ~OptionsMayChange \/ draftOptions # {}
          /\ draftCall' = [draftCall EXCEPT ![c] = FinishedCall]
          /\ UNCHANGED draftOptions
    /\ UNCHANGED <<draft, cleared>>

-----------------------------------------------------------------------------
(* updateDraftPoll and publishDraftPoll *)

\* The row, the options and the editability are read at the same time.
StartEdit(c) ==
    /\ draftCall[c].pc = "idle" /\ draft.status # "none"
    /\ \E op \in {"update", "publish"} :
         draftCall' = [draftCall EXCEPT ![c] = [IdleCall EXCEPT
             !.pc = "reading", !.op = op, !.unread = {"row", "options", "editable"}]]
    /\ UNCHANGED <<draft, draftOptions, cleared>>

\* createEditabilityResult; a draft has no votes.
ReadForDraft(c) ==
    /\ draftCall[c].pc = "reading"
    /\ \E what \in draftCall[c].unread :
         LET read == [draftCall[c] EXCEPT !.unread = @ \ {what}]
         IN  draftCall' = [draftCall EXCEPT ![c] =
               CASE what = "row"      -> [read EXCEPT !.row = draft.policy]
                 [] what = "options"  -> [read EXCEPT !.options = draftOptions]
                 [] what = "editable" ->
                      IF draft.status = "draft" THEN read ELSE FinishedCall]
    /\ UNCHANGED <<draft, draftOptions, cleared>>

AllRead(c) == draftCall[c].pc = "reading" /\ draftCall[c].unread = {}

\* An update brings a policy, and new options or some of the old ones, and
\* makes a draft or an active poll of it, "active" by default.
PrepareUpdate(c) ==
    /\ AllRead(c) /\ draftCall[c].op = "update"
    /\ \E status \in {"draft", "active"},
          options \in (SUBSET (draftCall[c].options \cup {c})) \ {{}} :
         draftCall' = [draftCall EXCEPT ![c] = [@ EXCEPT
             !.pc = IF status = "draft" THEN "updating" ELSE "moderating",
             !.status = status, !.row = c, !.options = options]]
    /\ UNCHANGED <<draft, draftOptions, cleared>>

\* The poll a call has in mind, its status and its moderation aside
Payload(c) == [policy |-> draftCall[c].row, hash |-> draftCall[c].options]

RowOf(c, status, moderation) ==
    [status |-> status, policy |-> Payload(c).policy, hash |-> Payload(c).hash,
     moderation |-> moderation]

UpdateDraft(c) ==
    /\ draftCall[c].pc = "updating"
    /\ UpdateById(c, RowOf(c, "draft", "draft"), [draftCall[c] EXCEPT !.pc = "deleting"])
    /\ UNCHANGED <<draftOptions, cleared>>

\* A publication takes what it has read, with two options at least; the poll
\* is staged as a draft first.
StagePublication(c) ==
    /\ AllRead(c) /\ draftCall[c].op = "publish"
    /\ IF draftCall[c].options = {}
         THEN draftCall' = [draftCall EXCEPT ![c] = FinishedCall] /\ UNCHANGED draft
         ELSE UpdateById(c, RowOf(c, "draft", "moderation_pending"),
                         [draftCall[c] EXCEPT !.pc = "moderating", !.status = "active"])
    /\ UNCHANGED <<draftOptions, cleared>>

\* Mutant: a poll becomes active whatever the moderation says.
AlwaysActive(outcome) == "active"

\* applyModerationResultToPayload
StatusAfter(outcome) == IF outcome = "published" THEN "active" ELSE "draft"

\* The answer of the moderation and the update after it; a creation and a
\* publication leave the options alone.
StoreModerated(c) ==
    /\ draftCall[c].pc = "moderating"
    /\ \E outcome \in ModerationOutcomes :
         /\ UpdateById(c, RowOf(c, StatusAfter(outcome), outcome),
              IF draftCall[c].op = "update" THEN [draftCall[c] EXCEPT !.pc = "deleting"]
              ELSE FinishedCall)
         /\ cleared' = IF outcome = "published" THEN cleared \cup {Payload(c)} ELSE cleared
    /\ UNCHANGED draftOptions

\* replaceOptions: where there are no rows, no trigger fires.
DeleteOptions(c) ==
    /\ draftCall[c].pc = "deleting"
    /\ IF OptionsMayChange \/ draftOptions = {}
         THEN /\ draftOptions' = {}
              /\ draftCall' = [draftCall EXCEPT ![c].pc = "inserting"]
         ELSE /\ draftCall' = [draftCall EXCEPT ![c] = FinishedCall]
              /\ UNCHANGED draftOptions
    /\ UNCHANGED <<draft, cleared>>

-----------------------------------------------------------------------------
\* applyDecision, of a reviewer: the status of the poll stays.
ReviewPoll ==
    /\ draft.moderation = "review_required"
    /\ \E outcome \in ReviewOutcomes : draft' = [draft EXCEPT !.moderation = outcome]
    /\ UNCHANGED <<draftOptions, draftCall, cleared>>

\* closeExpiredPolls
ClosePoll ==
    /\ draft.status = "active"
    /\ draft' = [draft EXCEPT !.status = "closed"]
    /\ UNCHANGED <<draftOptions, draftCall, cleared>>

DraftNext ==
    \/ \E c \in DraftCalls :
         \/ StageDraft(c) \/ InsertOptions(c)
         \/ StartEdit(c) \/ ReadForDraft(c)
         \/ PrepareUpdate(c) \/ UpdateDraft(c)
         \/ StagePublication(c) \/ StoreModerated(c) \/ DeleteOptions(c)
    \/ ReviewPoll \/ ClosePoll

DraftSpec == DraftInit /\ [][DraftNext]_draftVars

-----------------------------------------------------------------------------
IsPublished == draft.status \in {"active", "closed"}

\* The types of the variables; whoever waits for the moderation has options.
DraftTypeOK ==
    /\ draft.status \in {"none", "draft", "active", "closed"}
    /\ draft.policy \in DraftCalls \cup {NoContent}
    /\ draft.hash \subseteq DraftCalls
    /\ draftOptions \subseteq DraftCalls
    /\ cleared \subseteq [policy : DraftCalls, hash : SUBSET DraftCalls]
    /\ \A c \in DraftCalls :
         /\ draftCall[c].op \in DraftOps \cup {"none"}
         /\ draftCall[c].pc \in {"idle", "inserting", "reading", "updating",
                                 "moderating", "deleting", "done"}
         /\ draftCall[c].pc = "moderating" => draftCall[c].options # {}

\* A published poll is one the moderation has allowed, its policy and the
\* hash of its options together, and its moderation status says so: no
\* other update, publication or review under way has changed either.
PublishedPollsAreCleared ==
    IsPublished =>
        /\ [policy |-> draft.policy, hash |-> draft.hash] \in cleared
        /\ draft.moderation = "published"

\* What a poll asks and its options stay as they were published, whatever
\* calls were under way when it was.
PublishedPollsAreFrozen ==
    [][IsPublished =>
         /\ IsPublished'
         /\ draft'.policy = draft.policy /\ draft'.hash = draft.hash
         /\ draftOptions' = draftOptions]_draftVars

\* The hash of a published poll, which votes and tally proofs are checked
\* against, is the hash of its options.
HashIsOfTheOptions == IsPublished => draft.hash = draftOptions
=============================================================================
