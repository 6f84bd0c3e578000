---------------------------- MODULE AuthSessions ----------------------------
(***************************************************************************)
(* First-party sessions (services/authService.ts, auth/requireViewer.ts    *)
(* and the tables auth_sessions, refresh_token_families, auth_challenges)  *)
(* of one user with several devices, each with an enrolled credential.     *)
(*                                                                         *)
(* A request is split where it awaits a write, or a read whose staleness   *)
(* another request can notice.  auth_generation is left out: it changes    *)
(* only in the transaction that also deletes the rows that carry it        *)
(* (revokeAuthenticationForRecovery has no caller).  Session s and its     *)
(* refresh-token family have the same number; token n stands for the n-th  *)
(* pair of an access and a refresh token.                                  *)
(***************************************************************************)
EXTENDS Integers, FiniteSets, Sequences, SequencesExt

CONSTANTS Devices,           \* devices with an active credential
          FirstDevice,       \* the one that is logged in already
          LoginChallenges,   \* numbers of issued challenges: the device's
                             \* assertion for challenge k has signCount k
          AuthRequests,      \* bound: the requests of a behaviour
          RequestMixes,      \* what those requests are: kind and device
          SessionLimit       \* maxActiveSessionsPerUser

ASSUME FirstDeviceAssumption == FirstDevice \in Devices
ASSUME LoginChallengesAssumption == LoginChallenges \subseteq Nat \ {0}
ASSUME SessionLimitAssumption == SessionLimit \in Nat \ {0}
RequestKinds == {"login", "refresh", "access", "revoke", "list"}
ASSUME RequestMixesAssumption ==
    RequestMixes \subseteq [AuthRequests -> RequestKinds \X Devices]

VARIABLES
    userActive,      \* users.account_status = 'active'
    usedChallenges,  \* auth_challenges with consumed_at
    signCounts,      \* app_attestation_credentials.last_counter, 0 for null
    sessions,        \* auth_sessions, in the order of creation
    families,        \* refresh_token_families
    tokenCount,      \* tokens made so far
    handedOut,       \* tokens some client may hold
    call             \* call[r]: the state of request r

authRows == <<userActive, usedChallenges, signCounts, sessions, families,
              tokenCount, handedOut>>
authVars == <<userActive, usedChallenges, signCounts, sessions, families,
              tokenCount, handedOut, call>>

NoFamily == [status |-> "none", current |-> 0, previous |-> 0,
             expired |-> FALSE, orphan |-> FALSE]
Waiting(ask) == [pc |-> "idle", kind |-> ask[1], device |-> ask[2], arg |-> 0,
                 row |-> 0, fresh |-> 0, todo |-> <<>>, then |-> "failed",
                 stale |-> FALSE]

AuthInit ==
    /\ userActive = TRUE
    /\ usedChallenges = {}
    /\ signCounts = [d \in Devices |-> 0]
    /\ sessions = <<[device |-> FirstDevice, status |-> "active", access |-> 1,
                     expired |-> FALSE]>>
    /\ families = <<[NoFamily EXCEPT !.status = "active", !.current = 1]>>
    /\ tokenCount = 1
    /\ handedOut = {1}
    /\ \E mix \in RequestMixes : call = [r \in AuthRequests |-> Waiting(mix[r])]

-----------------------------------------------------------------------------
(* Rows as the requests read them. *)

Sessions == DOMAIN sessions
IsActive(s) == sessions[s].status = "active"
ByAccessToken(n) == {s \in Sessions : sessions[s].access = n
                                      /\ sessions[s].status # "deleted"}
ByCurrentToken(n) == {s \in Sessions : families[s].current = n
                                       /\ families[s].status \notin {"none", "deleted"}}
ByPreviousToken(n) == {s \in Sessions : families[s].previous = n
                                        /\ families[s].status \notin {"none", "deleted"}}

\* What no request that begins now may succeed with.
Stale(kind, n) ==
    \/ ~userActive
    \/ kind = "login" /\ n \in usedChallenges
    \/ kind = "refresh" /\ ~\E s \in ByCurrentToken(n) :
                             IsActive(s) /\ families[s].status = "active"
    \/ kind = "access" /\ ~\E s \in ByAccessToken(n) : IsActive(s)

\* What the request presents: a challenge, a token or a session.
Arguments(kind) ==
    CASE kind = "login" -> LoginChallenges
      [] kind \in {"refresh", "access"} -> handedOut
      [] kind = "revoke" -> Sessions
      [] kind = "list" -> {0}

Begins(r, kind) ==
    /\ call[r].pc = "idle" /\ call[r].kind = kind
    /\ \E n \in Arguments(kind) :
         call' = [call EXCEPT ![r].pc = kind, ![r].arg = n, ![r].stale = Stale(kind, n)]
    /\ UNCHANGED authRows

\* The routes, and the access token of any other one.
LoginCompleteRoute(r) == Begins(r, "login")
RefreshRoute(r)       == Begins(r, "refresh")
LogoutRoute(r)        == Begins(r, "revoke")
ListSessionsRoute(r)  == Begins(r, "list")
RequireViewer(r)      == Begins(r, "access")

\* A finished request forgets what it read.
Finished(c, pc) == [Waiting(<<c.kind, c.device>>) EXCEPT !.pc = pc, !.stale = c.stale]

Goto(r, pc) ==
    call' = [call EXCEPT ![r] = IF pc \in {"ok", "failed"} THEN Finished(@, pc)
                                ELSE [@ EXCEPT !.pc = pc]]

\* The request carries out the writes of todo, one by one, then goes to then.
RevokeThen(r, todo, then) ==
    IF todo = <<>> THEN Goto(r, then)
    ELSE call' = [call EXCEPT ![r].pc = "revoking", ![r].todo = todo, ![r].then = then]

Write(table, s, status) == [table |-> table, row |-> s, status |-> status]

\* Mutant: a session is revoked without its family.
SessionOnly(s, status) == <<Write("session", s, "revoked")>>

\* revokeSessionLineage, for a session read as active: it, then its family.
Lineage(s, status) ==
    <<Write("session", s, "revoked"), Write("family", s, status)>>

FamilyThenSession(s, status) ==
    <<Write("family", s, status), Write("session", s, "revoked")>>

\* An update by id: it does not look at the status, and finds no deleted row.
Settled(row, status) ==
    IF row.status \in {"none", "deleted"} THEN row
    ELSE [row EXCEPT !.status = status]

RevokeNext(r) ==
    /\ call[r].pc = "revoking"
    /\ LET w == Head(call[r].todo)
       IN  IF w.table = "session"
             THEN /\ sessions' = [sessions EXCEPT ![w.row] = Settled(@, w.status)]
                  /\ families' = families
             ELSE /\ families' = [families EXCEPT ![w.row] = Settled(@, w.status)]
                  /\ sessions' = sessions
    /\ IF Len(call[r].todo) > 1
         THEN call' = [call EXCEPT ![r].todo = Tail(@)]
         ELSE IF call[r].then = "inserting"
           THEN call' = [call EXCEPT ![r].pc = "inserting", ![r].todo = <<>>]
           ELSE Goto(r, call[r].then)
    /\ UNCHANGED <<userActive, usedChallenges, signCounts, tokenCount, handedOut>>

-----------------------------------------------------------------------------
(* completeLogin and issueFirstPartyAuthSession *)

\* Mutant: consumed_at is not looked at.
AnyChallengePasses(r) == TRUE

ChallengePasses(r) == call[r].arg \notin usedChallenges

\* verifyStoredChallenge; the challenge may have expired as well.
VerifyChallenge(r) ==
    /\ call[r].pc = "login"
    /\ \/ ChallengePasses(r) /\ Goto(r, "verifying")
       \/ Goto(r, "failed")
    /\ UNCHANGED authRows

\* The counter of the device's assertion must be above the stored one.
AssertionAdvances(r) == call[r].arg > signCounts[call[r].device]

\* The credential, the user and the attestation are read.
VerifyAssertion(r) ==
    /\ call[r].pc = "verifying"
    /\ Goto(r, IF userActive /\ AssertionAdvances(r) THEN "consuming" ELSE "failed")
    /\ UNCHANGED authRows

\* markConsumed updates only an unconsumed challenge; whether it did is not
\* looked at.
ConsumeChallenge(r) ==
    /\ call[r].pc = "consuming"
    /\ usedChallenges' = usedChallenges \cup {call[r].arg}
    /\ Goto(r, "listing")
    /\ UNCHANGED <<userActive, signCounts, sessions, families, tokenCount, handedOut>>

\* The active sessions a login from the device revokes, oldest last.
PrunedFor(device) ==
    {s \in Sessions : IsActive(s) /\ (sessions[s].expired \/ sessions[s].device = device)}

\* Some sessions, the last one first; there is one such order.
Orders(rows) ==
    {order \in [1..Cardinality(rows) -> rows] :
       \A i, j \in DOMAIN order : i < j => order[i] > order[j]}

\* Their lineages, one after the other
Lineages(order) ==
    [n \in 1..2 * Len(order) |->
       LET both == Lineage(order[(n + 1) \div 2], "revoked")
       IN  IF n % 2 = 1 THEN Head(both) ELSE Last(both)]

WithinLimit(rest) == Cardinality(rest) < SessionLimit

\* pruneInactiveLoginSessions over the rows of listByUserId; the limit is
\* checked against what was read.
PruneForLogin(r) ==
    /\ call[r].pc = "listing"
    /\ LET pruned == PrunedFor(call[r].device)
           rest   == {s \in Sessions : IsActive(s)} \ pruned
       IN  \E order \in Orders(pruned) :
             RevokeThen(r, Lineages(order),
                        IF WithinLimit(rest) THEN "inserting" ELSE "failed")
    /\ UNCHANGED authRows

\* Mutant: the row is inserted although the credential is gone.
CredentialNotChecked(r) == TRUE

\* auth_sessions.auth_credential_id references a credential that exists.
CredentialExists(r) == userActive

InsertSession(r) ==
    /\ call[r].pc = "inserting"
    /\ IF CredentialExists(r)
         THEN /\ sessions' = Append(sessions,
                    [device |-> call[r].device, status |-> "active",
                     access |-> tokenCount + 1, expired |-> FALSE])
              /\ families' = Append(families, NoFamily)
              /\ tokenCount' = tokenCount + 1
              /\ call' = [call EXCEPT ![r].pc = "recording", ![r].row = Len(sessions) + 1,
                                      ![r].fresh = tokenCount + 1]
         ELSE /\ Goto(r, "failed")
              /\ UNCHANGED <<sessions, families, tokenCount>>
    /\ UNCHANGED <<userActive, usedChallenges, signCounts, handedOut>>

\* recordAssertion sets the counter, whatever it is by now.
RecordAssertion(r) ==
    /\ call[r].pc = "recording"
    /\ signCounts' = [signCounts EXCEPT ![call[r].device] = call[r].arg]
    /\ Goto(r, "insertingFamily")
    /\ UNCHANGED <<userActive, usedChallenges, sessions, families, tokenCount, handedOut>>

\* The family references a session that exists.
InsertFamily(r) ==
    /\ call[r].pc = "insertingFamily"
    /\ LET s == call[r].row
       IN  IF sessions[s].status # "deleted"
             THEN /\ families' = [families EXCEPT ![s] =
                        [status |-> "active", current |-> call[r].fresh, previous |-> 0,
                         expired |-> FALSE, orphan |-> ~IsActive(s)]]
                  /\ handedOut' = handedOut \cup {call[r].fresh}
                  /\ Goto(r, "ok")
             ELSE Goto(r, "failed") /\ UNCHANGED <<families, handedOut>>
    /\ UNCHANGED <<userActive, usedChallenges, signCounts, sessions, tokenCount>>

-----------------------------------------------------------------------------
(* refreshSession *)

\* Mutant: the previous token is accepted as well.
FamilyOfEither(n) == ByCurrentToken(n) \cup ByPreviousToken(n)

FamilyOf(n) == ByCurrentToken(n)

FindFamily(r) ==
    /\ call[r].pc = "refresh"
    /\ LET found == FamilyOf(call[r].arg)
       IN  IF found = {} THEN Goto(r, "byPrevious")
           ELSE \E s \in found :
             IF families[s].status # "active" THEN Goto(r, "failed")
             ELSE IF families[s].expired
               THEN RevokeThen(r, FamilyThenSession(s, "expired"), "failed")
               ELSE call' = [call EXCEPT ![r].pc = "loadSession", ![r].row = s]
    /\ UNCHANGED authRows

\* A token that was rotated last ends its family and session.
FindReused(r) ==
    /\ call[r].pc = "byPrevious"
    /\ LET found == ByPreviousToken(call[r].arg)
       IN  IF found = {} THEN Goto(r, "failed")
           ELSE \E s \in found : RevokeThen(r, FamilyThenSession(s, "reused"), "failed")
    /\ UNCHANGED authRows

LoadSession(r) ==
    /\ call[r].pc = "loadSession"
    /\ LET s == call[r].row
       IN  IF sessions[s].status = "deleted" THEN Goto(r, "failed")
           ELSE IF ~IsActive(s)
             THEN RevokeThen(r, <<Write("family", s, "revoked")>>, "failed")
             ELSE Goto(r, "loadUser")
    /\ UNCHANGED authRows

LoadUser(r) ==
    /\ call[r].pc = "loadUser"
    /\ IF userActive THEN Goto(r, "rotatingAccess")
       ELSE RevokeThen(r, Lineage(call[r].row, "revoked"), "failed")
    /\ UNCHANGED authRows

\* rotateAccessToken: by id, whatever the session's status is by now.
RotateAccess(r) ==
    /\ call[r].pc = "rotatingAccess"
    /\ tokenCount' = tokenCount + 1
    /\ sessions' = [sessions EXCEPT ![call[r].row] =
          IF @.status = "deleted" THEN @
          ELSE [@ EXCEPT !.access = tokenCount + 1, !.expired = FALSE]]
    /\ call' = [call EXCEPT ![r].pc = "rotatingFamily", ![r].fresh = tokenCount + 1]
    /\ UNCHANGED <<userActive, usedChallenges, signCounts, families, handedOut>>

\* rotateCurrentToken: by id; the token read becomes the previous one.
RotateFamily(r) ==
    /\ call[r].pc = "rotatingFamily"
    /\ families' = [families EXCEPT ![call[r].row] =
          IF @.status = "deleted" THEN @
          ELSE [@ EXCEPT !.previous = call[r].arg, !.current = call[r].fresh,
                         !.expired = FALSE]]
    /\ handedOut' = handedOut \cup {call[r].fresh}
    /\ Goto(r, "ok")
    /\ UNCHANGED <<userActive, usedChallenges, signCounts, sessions, tokenCount>>

-----------------------------------------------------------------------------
(* requireViewer, logout, the session list and account deletion *)

\* requireViewer: an expired token ends the session.
FindSession(r) ==
    /\ call[r].pc = "access"
    /\ LET found == {s \in ByAccessToken(call[r].arg) : IsActive(s)}
       IN  IF found = {} THEN Goto(r, "failed")
           ELSE \E s \in found :
             IF sessions[s].expired THEN RevokeThen(r, Lineage(s, "expired"), "failed")
             ELSE call' = [call EXCEPT ![r].pc = "viewer", ![r].row = s]
    /\ UNCHANGED authRows

ResolveViewer(r) ==
    /\ call[r].pc = "viewer"
    /\ IF userActive THEN Goto(r, "ok")
       ELSE RevokeThen(r, Lineage(call[r].row, "revoked"), "failed")
    /\ UNCHANGED authRows

\* revokeSessionForUser, once the viewer is resolved.
LogOut(r) ==
    /\ call[r].pc = "revoke"
    /\ LET s == call[r].arg
       IN  IF sessions[s].status = "deleted" THEN Goto(r, "failed")
           ELSE RevokeThen(r, IF IsActive(s) THEN Lineage(s, "revoked")
                              ELSE <<Write("family", s, "revoked")>>, "ok")
    /\ UNCHANGED authRows

\* listSessionsForUser prunes what has expired.
ListSessions(r) ==
    /\ call[r].pc = "list"
    /\ IF userActive
         THEN \E order \in Orders({s \in Sessions : IsActive(s) /\ sessions[s].expired}) :
                RevokeThen(r, Lineages(order), "ok")
         ELSE Goto(r, "failed")
    /\ UNCHANGED authRows

Deleted(row) == [row EXCEPT !.status = "deleted"]

\* delete_account_for_user, one transaction: credentials go, sessions and
\* families with them, and the account is disabled.
DeleteAccount ==
    /\ userActive
    /\ userActive' = FALSE
    /\ sessions' = [s \in Sessions |-> Deleted(sessions[s])]
    /\ families' = [s \in Sessions |-> Deleted(families[s])]
    /\ UNCHANGED <<usedChallenges, signCounts, tokenCount, handedOut, call>>

\* Time: the access token is the first to expire.
ExpireAccess(s) ==
    /\ IsActive(s) /\ ~sessions[s].expired
    /\ sessions' = [sessions EXCEPT ![s].expired = TRUE]
    /\ UNCHANGED <<userActive, usedChallenges, signCounts, families, tokenCount,
                   handedOut, call>>

ExpireFamily(s) ==
    /\ IsActive(s) /\ sessions[s].expired
    /\ families[s].status = "active" /\ ~families[s].expired
    /\ families' = [families EXCEPT ![s].expired = TRUE]
    /\ UNCHANGED <<userActive, usedChallenges, signCounts, sessions, tokenCount,
                   handedOut, call>>

AuthNext ==
    \/ \E r \in AuthRequests :
         \/ LoginCompleteRoute(r) \/ RefreshRoute(r) \/ LogoutRoute(r)
         \/ ListSessionsRoute(r) \/ RequireViewer(r) \/ RevokeNext(r)
         \/ VerifyChallenge(r) \/ VerifyAssertion(r) \/ ConsumeChallenge(r)
         \/ PruneForLogin(r) \/ InsertSession(r) \/ RecordAssertion(r)
         \/ InsertFamily(r)
         \/ FindFamily(r) \/ FindReused(r) \/ LoadSession(r) \/ LoadUser(r)
         \/ RotateAccess(r) \/ RotateFamily(r)
         \/ FindSession(r) \/ ResolveViewer(r) \/ LogOut(r) \/ ListSessions(r)
    \/ DeleteAccount
    \/ \E s \in Sessions : ExpireAccess(s) \/ ExpireFamily(s)

AuthSpec == AuthInit /\ [][AuthNext]_authVars

-----------------------------------------------------------------------------
SessionStatuses == {"active", "revoked", "deleted"}
FamilyStatuses == {"none", "active", "revoked", "reused", "expired", "deleted"}

Writes == [table : {"session", "family"}, row : Sessions,
           status : SessionStatuses \cup FamilyStatuses]

\* The types of the variables.
AuthTypeOK ==
    /\ userActive \in BOOLEAN
    /\ usedChallenges \subseteq LoginChallenges
    /\ signCounts \in [Devices -> LoginChallenges \cup {0}]
    /\ sessions \in Seq([device : Devices, status : SessionStatuses, access : Nat,
                         expired : BOOLEAN])
    /\ families \in Seq([status : FamilyStatuses, current : Nat, previous : Nat,
                         expired : BOOLEAN, orphan : BOOLEAN])
    /\ Len(families) = Len(sessions)
    /\ tokenCount \in Nat
    /\ handedOut \subseteq 1..tokenCount
    /\ \A r \in AuthRequests : call[r].todo \in Seq(Writes)

\* A request that begins with something spent never succeeds, whatever
\* requests it overlaps: a consumed challenge, a refresh token that was
\* rotated away or whose lineage has ended, an access token whose session
\* was revoked, or anything at all after the account's deletion.
StaleRequestsFail ==
    \A r \in AuthRequests : call[r].stale => call[r].pc # "ok"

\* Deletion is final: no login or refresh that was under way leaves a
\* session or a family of the deleted account behind.
NothingOutlivesDeletion ==
    ~userActive => \A s \in Sessions :
        /\ sessions[s].status = "deleted"
        /\ families[s].status \in {"none", "deleted"}

\* A session and its refresh family end together.  A revoked session has an
\* active family only while the request that revoked it goes on (or was cut
\* off), or when its own login inserted the family after the revocation.
LineagesEndTogether ==
    \A s \in Sessions :
        sessions[s].status = "revoked" /\ families[s].status = "active" =>
            \/ families[s].orphan
            \/ \E r \in AuthRequests : \E k \in DOMAIN call[r].todo :
                 call[r].todo[k].table = "family" /\ call[r].todo[k].row = s
=============================================================================
