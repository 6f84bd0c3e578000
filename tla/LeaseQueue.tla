----------------------------- MODULE LeaseQueue -----------------------------
(***************************************************************************)
(* What a lease-based work queue of this backend promises, whatever its    *)
(* columns are: an item waits, is leased to a worker, and ends done or     *)
(* dead; a lease may be taken over by another worker (it timed out); the   *)
(* item's effect is performed at least once before the item is done, and   *)
(* an effect, once performed, is never lost.                               *)
(***************************************************************************)
EXTENDS FiniteSets

CONSTANTS Items,        \* what is queued
          Holders,      \* who can hold a lease
          Nobody,       \* the lease of an item nobody holds
          Reopenable    \* the phases from which an item may wait again

VARIABLES phase,        \* phase[i]: where item i stands
          lease,        \* lease[i]: who holds i
          performed     \* the items whose effect has been performed

queueVars == <<phase, lease, performed>>

Phases == {"absent", "waiting", "leased", "done", "dead"}

QueueInit ==
    /\ phase = [i \in Items |-> "absent"]
    /\ lease = [i \in Items |-> Nobody]
    /\ performed = {}

Add(i) ==
    /\ phase[i] = "absent"
    /\ phase' = [phase EXCEPT ![i] = "waiting"]
    /\ UNCHANGED <<lease, performed>>

\* A waiting item is leased, or a lease is taken over.
Take(i, h) ==
    /\ phase[i] \in {"waiting", "leased"}
    /\ phase' = [phase EXCEPT ![i] = "leased"]
    /\ lease' = [lease EXCEPT ![i] = h]
    /\ UNCHANGED performed

\* The effect outlives the lease: a worker that lost its lease may still
\* perform it, and it may be performed again.
Perform(i) ==
    /\ phase[i] # "absent"
    /\ performed' = performed \cup {i}
    /\ UNCHANGED <<phase, lease>>

\* The holder settles its item: done, dead, or back in the queue.
Settle(i, outcome) ==
    /\ phase[i] = "leased"
    /\ outcome = "done" => i \in performed
    /\ phase' = [phase EXCEPT ![i] = outcome]
    /\ lease' = [lease EXCEPT ![i] = Nobody]
    /\ UNCHANGED performed

\* Items are put back in the queue, together.
Reopen(S) ==
    /\ \A i \in S : phase[i] \in Reopenable
    /\ phase' = [i \in Items |-> IF i \in S THEN "waiting" ELSE phase[i]]
    /\ lease' = [i \in Items |-> IF i \in S THEN Nobody ELSE lease[i]]
    /\ UNCHANGED performed

QueueNext ==
    \/ \E i \in Items : Add(i) \/ Perform(i)
    \/ \E i \in Items, h \in Holders : Take(i, h)
    \/ \E i \in Items, outcome \in {"done", "dead", "waiting"} : Settle(i, outcome)
    \/ \E S \in SUBSET Items : Reopen(S)

QueueSpec == QueueInit /\ [][QueueNext]_queueVars
=============================================================================
