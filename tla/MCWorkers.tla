------------------------------ MODULE MCWorkers ------------------------------
(***************************************************************************)
(* The components of the backend with workers of their own, for TLC: a     *)
(* behaviour is one of the component in focus, the others stay at an       *)
(* initial state of theirs, where their workers have nothing to do.        *)
(***************************************************************************)
EXTENDS BackgroundWorkers

VARIABLE focus

vars == <<focus, reviewVars, pushVars, mapVars>>

-----------------------------------------------------------------------------
ByOneDevice(ops) == [c \in DOMAIN ops |-> <<ops[c], "d1">>]

\* Registrations that race, for an approval or against a rejection, and
\* requests that are cancelled, approved and replaced.
MCReviewMixes ==
    {ByOneDevice(<<"create", "complete", "approve", "register", "register">>),
     ByOneDevice(<<"create", "complete", "approve", "reject", "register">>),
     ByOneDevice(<<"create", "complete", "cancel", "queue", "refreshUrls">>),
     ByOneDevice(<<"create", "complete", "cancel", "approve", "register">>),
     ByOneDevice(<<"create", "create", "cancel", "register", "approve">>),
     ByOneDevice(<<"create", "create", "complete", "queue", "approve">>)}

FirstMix == CHOOSE mix \in MCReviewMixes : TRUE

\* The map with two polls and one process, or with one poll and two.
Polls == IF focus = "queue" THEN MapPolls ELSE {"p1"}
MapFoci == {"queue", "replicas"}
Running(w) == focus = "replicas" \/ (focus = "queue" /\ w = "w1")

\* Two changes or troubles, or a notice and two troubles of one worker
PushFocus(A) ==
    \/ focus = "push" /\ A /\ happened' < PushLimit
    \/ /\ focus = "troubles" /\ A
       /\ UNCHANGED <<account, pushEnabled, session>> /\ Len(notice') < 2
       /\ \A s \in PushSessions : installation'[s] \in {installation[s], "invalid"}
       /\ \A h \in handlers' : h.worker = "w1"

MCInit ==
    /\ focus \in {"review", "push", "troubles", "queue", "replicas"}
    /\ ReviewInit /\ PushInit /\ MapInit
    /\ focus = "review" \/ \A c \in ReviewCalls : reviewCall[c].op = FirstMix[c][1]

MCNext ==
    /\ UNCHANGED focus
    /\ \/ focus = "review" /\ ReviewNext /\ UNCHANGED <<pushVars, mapVars>>
       \/ PushFocus(PushNext) /\ UNCHANGED <<reviewVars, mapVars>>
       \/ /\ focus \in MapFoci /\ MapNext
          /\ \A w \in MapWorkers : Running(w) \/ UNCHANGED <<mapWorker[w], bootstrap[w]>>
          /\ \A p \in MapPolls \ Polls : p \notin Range(votePoll') /\ queue'[p] = queue[p]
          /\ UNCHANGED <<reviewVars, pushVars>>

\* The fairness of the component in focus, and of the processes that run
FocusedFairness ==
    /\ focus # "review" \/ []<><<EndCleanup>>_reviewVars
    /\ SF_reviewVars(focus = "review" /\ EraseMedia)
    /\ WF_pushVars(PushFocus(PushWork))
    /\ \A w \in MapWorkers : WF_mapVars(Running(w) /\ MapWorkerStep(w))
    /\ WF_mapVars(focus \in MapFoci /\ MapTime)

MCSpec == MCInit /\ [][MCNext]_vars /\ FocusedFairness
=============================================================================
