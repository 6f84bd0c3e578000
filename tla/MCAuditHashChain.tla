-------------------------- MODULE MCAuditHashChain --------------------------
(* An instance of AuditHashChain for TLC. *)
EXTENDS AuditHashChain

CONSTANTS e1, e2, e3, e4, poll1, poll2

\* Three events for one poll, one for another.
TwoStreams == [c \in Calls |-> IF c = e4 THEN poll2 ELSE poll1]
=============================================================================
