--------------------------- MODULE AuditHashChain ---------------------------
(***************************************************************************)
(* The hash-linked audit events of the backend: concurrent calls of        *)
(* backendAuditEventRepository.append, each of which reads the tail of its *)
(* stream, hashes its event onto it and asks the SQL function              *)
(* append_backend_audit_event to insert the row, which it only does when   *)
(* the tail is still the one that was hashed.                              *)
(*                                                                         *)
(* The SQL function holds an advisory lock of the stream until it commits, *)
(* so a call of it is one step.  A call appends one event and is named by  *)
(* it.  SHA-256 is taken to be injective: the hash of a row is the         *)
(* sequence of the events up to and including it.                          *)
(***************************************************************************)
EXTENDS Naturals, Sequences

CONSTANTS Calls,         \* calls of append, of any handler and process
          Streams,       \* stream ids: "zkp.poll:<poll id>"
          StreamOf,      \* StreamOf[c]: the stream c appends to
          MaxAttempts    \* how often append tries: 2

ASSUME StreamAssumption == StreamOf \in [Calls -> Streams]
ASSUME AttemptsAssumption == MaxAttempts \in Nat \ {0}

VARIABLES
    chain,       \* backend_audit_events: the rows of each stream by sequence
    pc, attempt,
    previous,    \* previous[c]: the tail hash c read last
    startLen     \* history: the length of c's stream when c began

vars == <<chain, pc, attempt, previous, startLen>>

Genesis == <<>>
Hash(previousHash, event) == Append(previousHash, event)

TailHash(s) == IF chain[s] = <<>> THEN Genesis ELSE chain[s][Len(chain[s])].hash

Init ==
    /\ chain = [s \in Streams |-> <<>>]
    /\ pc = [c \in Calls |-> "idle"]
    /\ attempt = [c \in Calls |-> 0]
    /\ previous = [c \in Calls |-> Genesis]
    /\ startLen = [c \in Calls |-> 0]

GoTo(c, step) == pc' = [pc EXCEPT ![c] = step]

Begin(c) ==
    /\ pc[c] = "idle"
    /\ GoTo(c, "reading")
    /\ attempt' = [attempt EXCEPT ![c] = 1]
    /\ startLen' = [startLen EXCEPT ![c] = Len(chain[StreamOf[c]])]
    /\ UNCHANGED <<chain, previous>>

\* Mutant: the tail is only read for the first attempt.
ReadTailOnce(c) ==
    /\ pc[c] = "reading"
    /\ previous' = [previous EXCEPT ![c] = IF attempt[c] = 1 THEN TailHash(StreamOf[c]) ELSE @]
    /\ GoTo(c, "appending")
    /\ UNCHANGED <<chain, attempt, startLen>>

\* readPreviousEventHash.
ReadTail(c) ==
    /\ pc[c] = "reading"
    /\ previous' = [previous EXCEPT ![c] = TailHash(StreamOf[c])]
    /\ GoTo(c, "appending")
    /\ UNCHANGED <<chain, attempt, startLen>>

\* Mutant: the previous hash is not compared with the tail.
AnyTail(c) == TRUE

\* The SQL function accepts an event that was hashed onto the current tail.
TailIsPrevious(c) == previous[c] = TailHash(StreamOf[c])

Insert(c) ==
    chain' = [chain EXCEPT ![StreamOf[c]] =
                Append(@, [event |-> c, previous |-> previous[c],
                           hash |-> Hash(previous[c], c)])]

AppendEvent(c) ==
    /\ pc[c] = "appending"
    /\ TailIsPrevious(c)
    /\ Insert(c)
    /\ GoTo(c, "appended")
    /\ UNCHANGED <<attempt, previous, startLen>>

\* Mutant: the bound of the loop is off by one.
RetryOnceMore(c) ==
    IF attempt[c] <= MaxAttempts
      THEN attempt' = [attempt EXCEPT ![c] = @ + 1] /\ GoTo(c, "reading")
      ELSE GoTo(c, "conflict") /\ UNCHANGED attempt

Retry(c) ==
    IF attempt[c] < MaxAttempts
      THEN attempt' = [attempt EXCEPT ![c] = @ + 1] /\ GoTo(c, "reading")
      ELSE GoTo(c, "conflict") /\ UNCHANGED attempt

\* "previous event hash does not match": once more, or the error is thrown.
\* (In an empty stream the tail is the genesis hash, which every call reads.)
MissTail(c) ==
    /\ pc[c] = "appending"
    /\ ~TailIsPrevious(c)
    /\ Retry(c)
    /\ UNCHANGED <<chain, previous, startLen>>

\* Mutant: every error is retried.
LoseAnswerAndRetry(c) ==
    /\ pc[c] = "appending"
    /\ TailIsPrevious(c)
    /\ Insert(c)
    /\ Retry(c)
    /\ UNCHANGED <<previous, startLen>>

\* The row is inserted but the answer is lost: the error is thrown.
LoseAnswer(c) ==
    /\ pc[c] = "appending"
    /\ TailIsPrevious(c)
    /\ Insert(c)
    /\ GoTo(c, "failed")
    /\ UNCHANGED <<attempt, previous, startLen>>

\* The database is not reached, or the process stops.
FailCall(c) ==
    /\ pc[c] \in {"reading", "appending"}
    /\ GoTo(c, "failed")
    /\ UNCHANGED <<chain, attempt, previous, startLen>>

Step(c) ==
    \/ Begin(c) \/ ReadTail(c) \/ AppendEvent(c) \/ MissTail(c) \/ LoseAnswer(c)
    \/ FailCall(c)

Next == \E c \in Calls : Step(c)

Spec == Init /\ [][Next]_vars
-----------------------------------------------------------------------------
(* Properties. *)

Row == [event : Calls, previous : Seq(Calls), hash : Seq(Calls)]

\* Every variable has its type; no call tries more often than the loop allows.
TypeOK ==
    /\ chain \in [Streams -> Seq(Row)]
    /\ pc \in [Calls -> {"idle", "reading", "appending", "appended", "conflict", "failed"}]
    /\ attempt \in [Calls -> 0..MaxAttempts]
    /\ previous \in [Calls -> Seq(Calls)]
    /\ startLen \in [Calls -> Nat]

\* Every stream is one hash chain from the genesis hash, however many calls
\* read the same tail: recomputing the hashes over its events verifies it.
ChainsAreLinked ==
    \A s \in Streams : \A i \in DOMAIN chain[s] :
        LET row == chain[s][i] IN
        /\ row.previous = IF i = 1 THEN Genesis ELSE chain[s][i - 1].hash
        /\ row.hash = Hash(row.previous, row.event)
        /\ StreamOf[row.event] = s

Recorded(c) == \E i \in DOMAIN chain[StreamOf[c]] : chain[StreamOf[c]][i].event = c

\* What append answers is what happened: an event whose append returned is in
\* its stream, one whose append lost the race for the tail is not.
AnswersMatchChain ==
    \A c \in Calls :
        /\ pc[c] = "appended" => Recorded(c)
        /\ pc[c] \in {"idle", "reading", "appending", "conflict"} => ~Recorded(c)

\* An append that gives up lost each of its attempts to another event of the
\* same stream: with one concurrent append there is no error, and other
\* streams never cause one.
ConflictsMeanProgress ==
    \A c \in Calls :
        pc[c] = "conflict" => Len(chain[StreamOf[c]]) >= startLen[c] + MaxAttempts

\* The streams implement an append-only log with every event at most once,
\* whatever is retried, lost or raced.
events == [s \in Streams |-> [i \in DOMAIN chain[s] |-> chain[s][i].event]]

Log == INSTANCE AuditLog WITH Events <- Calls, log <- events

ImplementsAuditLog == Log!LogSpec
=============================================================================
