---------------------------- MODULE OneTimeGrant ----------------------------
(***************************************************************************)
(* What the backend promises of everything it lets a client use once: a    *)
(* grant is asked for, approved, and spent by one use; it may be voided    *)
(* until then, alone or with others.  A holder has at most one live grant. *)
(* The approvals of human verification and the QR sign-in transactions are *)
(* such grants.                                                            *)
(***************************************************************************)
CONSTANTS Grants, Holders, Nobody

VARIABLES grantState, grantHolder

Live(g) == grantState[g] \in {"open", "approved"}

GrantInit ==
    /\ grantState = [g \in Grants |-> "absent"]
    /\ grantHolder = [g \in Grants |-> Nobody]

AskFor(g, h) ==
    /\ grantState[g] = "absent"
    /\ \A f \in Grants : Live(f) => grantHolder[f] # h
    /\ grantState' = [grantState EXCEPT ![g] = "open"]
    /\ grantHolder' = [grantHolder EXCEPT ![g] = h]

Move(g, from, to) ==
    /\ grantState[g] = from
    /\ grantState' = [grantState EXCEPT ![g] = to]
    /\ UNCHANGED grantHolder

\* An account that is deleted takes all its grants along.
Void(G) ==
    /\ \A g \in G : Live(g)
    /\ grantState' = [g \in Grants |-> IF g \in G THEN "void" ELSE grantState[g]]
    /\ UNCHANGED grantHolder

GrantNext ==
    \/ \E g \in Grants :
         \/ \E h \in Holders : AskFor(g, h)
         \/ Move(g, "open", "approved")
         \/ Move(g, "approved", "spent")
    \/ \E G \in SUBSET Grants : Void(G)

GrantSpec == GrantInit /\ [][GrantNext]_<<grantState, grantHolder>>
=============================================================================
