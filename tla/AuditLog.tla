------------------------------ MODULE AuditLog ------------------------------
(***************************************************************************)
(* What the backend's audit trail promises: one append-only log per        *)
(* stream, in which an event is recorded at most once.                     *)
(***************************************************************************)
EXTENDS Sequences, Functions

CONSTANTS Streams, Events

VARIABLE log     \* log[s]: the events of stream s, oldest first

LogInit == log = [s \in Streams |-> <<>>]

Record(s, e) ==
    /\ \A t \in Streams : e \notin Range(log[t])
    /\ log' = [log EXCEPT ![s] = Append(@, e)]

LogNext == \E s \in Streams, e \in Events : Record(s, e)

LogSpec == LogInit /\ [][LogNext]_log
=============================================================================
