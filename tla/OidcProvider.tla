---------------------------- MODULE OidcProvider ----------------------------
(***************************************************************************)
(* Signing in at another site (services/oidcProviderService.ts): the       *)
(* browser opens a QR transaction, the app approves or denies it, the      *)
(* browser polls for the code, and the site exchanges the code for an      *)
(* access token and a refresh token, which it rotates.                     *)
(*                                                                         *)
(* One user and one client, which stays active.  Secrets, redirect URI and *)
(* PKCE verifier are right.  A call is split where it awaits the database; *)
(* reads in a row with no write of another call that tells them apart are  *)
(* one step.  The row of oidc_authorization_requests follows its           *)
(* transaction and is left out.  A row remembers the epoch it was inserted *)
(* in: 1 before the account's deletion, 2 after.  A deleted row keeps its  *)
(* number, with status "deleted".                                          *)
(***************************************************************************)
EXTENDS Integers, FiniteSets, Sequences, SequencesExt

CONSTANTS QrTransactions,
          NoBrowser,
          OidcCalls,     \* bound: the calls of a behaviour
          OidcMixes      \* what those calls are

OidcOps == {"approve", "deny", "preview", "poll", "exchange", "refresh",
            "userInfo", "revokeAccess", "revokeRefresh"}

ASSUME OidcMixesAssumption == OidcMixes \subseteq [OidcCalls -> OidcOps]
ASSUME NoBrowserAssumption == NoBrowser \notin QrTransactions

VARIABLES
    oidcUserActive,
    qr,             \* oidc_authorize_qr_transactions
    codes,          \* oidc_authorization_codes
    pairwiseRow,    \* epoch of the pairwise subject, 0 without one
    grantRow,       \* epoch of the grant, 0 without one
    accessTokens,   \* oidc_access_tokens
    tokenFamilies,  \* oidc_refresh_token_families
    refreshCount,   \* refresh tokens made
    held,           \* tokens the site has received: [access, refresh]
    oidcCall        \* the state of a call

qrRows    == <<qr, codes>>
consent   == <<pairwiseRow, grantRow>>
siteRows  == <<accessTokens, tokenFamilies, refreshCount, held>>
oidcVars  == <<oidcUserActive, qrRows, consent, siteRows, oidcCall>>

OidcEpoch == IF oidcUserActive THEN 1 ELSE 2

Starting(op) == [op |-> op, pc |-> "idle", arg |-> 0, stale |-> FALSE, row |-> 0,
                 session |-> FALSE, pairwise |-> 0, grant |-> 0, access |-> 0]

OidcInit ==
    /\ oidcUserActive = TRUE
    /\ qr = [t \in QrTransactions |-> [status |-> "none", overdue |-> FALSE]]
    /\ codes = <<>>
    /\ pairwiseRow = 0
    /\ grantRow = 0
    /\ accessTokens = <<>>
    /\ tokenFamilies = <<>>
    /\ refreshCount = 0
    /\ held = [access |-> {}, refresh |-> {}]
    /\ \E mix \in OidcMixes : oidcCall = [c \in OidcCalls |-> Starting(mix[c])]

-----------------------------------------------------------------------------
(* Calls *)

Doing(c, op, pc) == oidcCall[c].op = op /\ oidcCall[c].pc = pc

FamiliesOf(n) == {f \in DOMAIN tokenFamilies :
                    /\ tokenFamilies[f].status # "deleted"
                    /\ n \in {tokenFamilies[f].current, tokenFamilies[f].previous}}

\* What a call presents: a transaction, a code or a token.
Presented(op) ==
    CASE op \in {"approve", "deny", "preview", "poll"} ->
           {t \in QrTransactions : qr[t].status # "none"}
      [] op = "exchange" -> DOMAIN codes
      [] op \in {"refresh", "revokeRefresh"} -> held.refresh
      [] op \in {"userInfo", "revokeAccess"} -> held.access

\* What no call that begins now may succeed with.
Spent(op, n) ==
    \/ op \in {"exchange", "refresh", "userInfo"} /\ ~oidcUserActive
    \/ op = "exchange" /\ codes[n].status # "active"
    \/ op = "refresh" /\ ~\E f \in FamiliesOf(n) : /\ tokenFamilies[f].current = n
                                                   /\ tokenFamilies[f].status = "active"
    \/ op = "userInfo" /\ accessTokens[n].status # "active"

Receives(c, op, pc) ==
    /\ Doing(c, op, "idle")
    /\ \E n \in Presented(op) :
         oidcCall' = [oidcCall EXCEPT ![c].arg = n, ![c].stale = Spent(op, n), ![c].pc = pc]
    /\ UNCHANGED <<oidcUserActive, qrRows, consent, siteRows>>

\* The routes; the app's resolve the viewer first.  A call that the rate
\* limit refuses does not begin.
PollRoute(c)     == Receives(c, "poll", "reading")
ApproveRoute(c)  == oidcUserActive /\ Receives(c, "approve", "session")
PreviewRoute(c)  == oidcUserActive /\ Receives(c, "preview", "reading")
DenyRoute(c)     == oidcUserActive /\ Receives(c, "deny", "reading")
TokenRoute(c)    == Receives(c, "exchange", "reading") \/ Receives(c, "refresh", "reading")
UserInfoRoute(c) == Receives(c, "userInfo", "reading")
RevokeRoute(c)   == Receives(c, "revokeAccess", "reading") \/ Receives(c, "revokeRefresh", "reading")

\* A call that has ended forgets what it read.
To(c, pc) ==
    oidcCall' = [oidcCall EXCEPT ![c] =
      IF pc \in {"ok", "failed"}
        THEN [Starting(@.op) EXCEPT !.pc = pc, !.arg = oidcCall[c].arg,
                                    !.stale = oidcCall[c].stale]
        ELSE [@ EXCEPT !.pc = pc]]

-----------------------------------------------------------------------------
(* The QR transaction *)

\* createAuthorizationQrTransaction
OpenQr(t) ==
    /\ qr[t].status = "none"
    /\ qr' = [qr EXCEPT ![t].status = "pending"]
    /\ UNCHANGED <<oidcUserActive, codes, consent, siteRows, oidcCall>>

\* The session of the viewer is looked up once more, to be recorded.
FindViewerSession(c) ==
    /\ Doing(c, "approve", "session")
    /\ oidcCall' = [oidcCall EXCEPT ![c].pc = "reading", ![c].session = oidcUserActive]
    /\ UNCHANGED <<oidcUserActive, qrRows, consent, siteRows>>

CodesOf(t) == {k \in DOMAIN codes : codes[k].qr = t}

\* isQrTransactionExpired
Lapsed(t) == qr[t].overdue /\ qr[t].status \in {"pending", "approved", "denied"}

\* classifyQrSecretFailure; otherwise the call goes on at next.
Classify(c, next) ==
    LET t == oidcCall[c].arg
    IN  IF qr[t].status = "expired" \/ Lapsed(t) THEN To(c, "expiring")
        ELSE IF qr[t].status # "pending" THEN To(c, "failed")
        ELSE To(c, next)

ReadQr(c) ==
    /\ oidcCall[c].pc = "reading"
    /\ \/ oidcCall[c].op = "approve" /\ Classify(c, "pairwise")
       \/ oidcCall[c].op = "deny"    /\ Classify(c, "denying")
       \/ oidcCall[c].op = "preview" /\ Classify(c, "ok")
    /\ UNCHANGED <<oidcUserActive, qrRows, consent, siteRows>>

\* expireAuthorizeQrTransaction: pending or approved, whatever was read.
ExpireQr(c) ==
    /\ oidcCall[c].pc = "expiring"
    /\ LET t == oidcCall[c].arg
       IN  qr' = IF qr[t].status \in {"pending", "approved"}
                   THEN [qr EXCEPT ![t].status = "expired"] ELSE qr
    /\ To(c, "failed")
    /\ UNCHANGED <<oidcUserActive, codes, consent, siteRows>>

\* getOrCreatePairwiseSubject; a lost race finds the winner's row.
FindPairwise(c) ==
    /\ oidcCall[c].pc = "pairwise"
    /\ oidcCall' = IF pairwiseRow # 0
         THEN [oidcCall EXCEPT ![c].pc = "granting", ![c].pairwise = pairwiseRow]
         ELSE [oidcCall EXCEPT ![c].pc = "insertPairwise"]
    /\ UNCHANGED <<oidcUserActive, qrRows, consent, siteRows>>

InsertPairwise(c) ==
    /\ oidcCall[c].pc = "insertPairwise"
    /\ pairwiseRow' = IF pairwiseRow = 0 THEN OidcEpoch ELSE pairwiseRow
    /\ oidcCall' = [oidcCall EXCEPT ![c].pc = "granting", ![c].pairwise = pairwiseRow']
    /\ UNCHANGED <<oidcUserActive, qrRows, grantRow, siteRows>>

\* upsertGrant; the grant references the pairwise subject.
UpsertGrant(c) ==
    /\ oidcCall[c].pc = "granting"
    /\ IF oidcCall[c].pairwise = pairwiseRow
         THEN /\ grantRow' = IF grantRow = 0 THEN OidcEpoch ELSE grantRow
              /\ oidcCall' = [oidcCall EXCEPT ![c].grant = grantRow',
                   ![c].pc = IF oidcCall[c].op = "approve" THEN "approving" ELSE "insertAccess"]
         ELSE To(c, "failed") /\ UNCHANGED grantRow
    /\ UNCHANGED <<oidcUserActive, qrRows, pairwiseRow, siteRows>>

\* Mutant: foreign keys are not enforced.
NoForeignKeys(c) == TRUE

\* The rows the call refers to still exist.
ReferencesExist(c) ==
    /\ oidcCall[c].pairwise = pairwiseRow
    /\ oidcCall[c].grant = grantRow

\* approve_oidc_authorize_qr_transaction: its clock is the call's, so the
\* deadline was met when the row was read.  A row that is pending no more is
\* read and classified again.
ApproveQr(c) ==
    /\ oidcCall[c].pc = "approving"
    /\ LET t == oidcCall[c].arg
       IN  IF qr[t].status # "pending" THEN To(c, "rereading") /\ UNCHANGED qr
           ELSE IF ReferencesExist(c) /\ (oidcCall[c].session => oidcUserActive)
             THEN /\ qr' = [qr EXCEPT ![t] = [status |-> "approved", overdue |-> FALSE]]
                  /\ To(c, "ok")
             ELSE To(c, "failed") /\ UNCHANGED qr
    /\ UNCHANGED <<oidcUserActive, codes, consent, siteRows>>

\* deny_oidc_authorize_qr_transaction
DenyQr(c) ==
    /\ oidcCall[c].pc = "denying"
    /\ LET t == oidcCall[c].arg
       IN  IF qr[t].status # "pending" THEN To(c, "rereading") /\ UNCHANGED qr
           ELSE /\ qr' = [qr EXCEPT ![t] = [status |-> "denied", overdue |-> FALSE]]
                /\ To(c, "ok")
    /\ UNCHANGED <<oidcUserActive, codes, consent, siteRows>>

RereadQr(c) ==
    /\ oidcCall[c].pc = "rereading"
    /\ Classify(c, "failed")
    /\ UNCHANGED <<oidcUserActive, qrRows, consent, siteRows>>

\* getAuthorizationQrTransactionStatus; only the answer with the code counts
\* as a success.
PollQr(c) ==
    /\ Doing(c, "poll", "reading")
    /\ LET t == oidcCall[c].arg
       IN  IF Lapsed(t) THEN To(c, "expiring")
           ELSE IF qr[t].status = "approved" /\ CodesOf(t) = {} THEN To(c, "delivering")
           ELSE To(c, "failed")
    /\ UNCHANGED <<oidcUserActive, qrRows, consent, siteRows>>

\* Mutant: without code_delivered_at is null.
DeliverableAgain(t) == qr[t].status = "approved"

Deliverable(t) == qr[t].status = "approved" /\ CodesOf(t) = {}

\* deliver_oidc_authorize_qr_code
DeliverCode(c) ==
    /\ oidcCall[c].pc = "delivering"
    /\ LET t == oidcCall[c].arg
       IN  IF Deliverable(t)
             THEN /\ codes' = Append(codes, [qr |-> t, status |-> "active",
                                             overdue |-> FALSE, pairwise |-> pairwiseRow])
                  /\ To(c, "ok")
             ELSE To(c, "failed") /\ UNCHANGED codes
    /\ UNCHANGED <<oidcUserActive, qr, consent, siteRows>>

-----------------------------------------------------------------------------
(* exchangeAuthorizationCode *)

ReadCode(c) ==
    /\ Doing(c, "exchange", "reading")
    /\ LET code == codes[oidcCall[c].arg]
       IN  IF code.status # "active" THEN To(c, "failed")
           ELSE oidcCall' = [oidcCall EXCEPT ![c].pairwise = code.pairwise,
                  ![c].pc = IF code.overdue THEN "expiringCode" ELSE "loadUser"]
    /\ UNCHANGED <<oidcUserActive, qrRows, consent, siteRows>>

\* An update where the status is active.
MoveCode(k, status) ==
    codes' = IF codes[k].status = "active" THEN [codes EXCEPT ![k].status = status] ELSE codes

ExpireCode(c) ==
    /\ oidcCall[c].pc = "expiringCode"
    /\ MoveCode(oidcCall[c].arg, "expired")
    /\ To(c, "failed")
    /\ UNCHANGED <<oidcUserActive, qr, consent, siteRows>>

\* The user must be active, of the generation that was recorded.
LoadTokenUser(c) ==
    /\ oidcCall[c].pc = "loadUser"
    /\ To(c, IF ~oidcUserActive THEN "failed"
             ELSE CASE oidcCall[c].op = "exchange" -> "consuming"
                    [] oidcCall[c].op = "refresh" -> "loadGrant"
                    [] OTHER -> "ok")
    /\ UNCHANGED <<oidcUserActive, qrRows, consent, siteRows>>

\* Mutant: the status is not looked at again.
ConsumableOnceRead(k) == codes[k].status # "deleted"

Consumable(k) == codes[k].status = "active"

ConsumeCode(c) ==
    /\ oidcCall[c].pc = "consuming"
    /\ LET k == oidcCall[c].arg
       IN  IF Consumable(k)
             THEN codes' = [codes EXCEPT ![k].status = "consumed"] /\ To(c, "findGrant")
             ELSE To(c, "failed") /\ UNCHANGED codes
    /\ UNCHANGED <<oidcUserActive, qr, consent, siteRows>>

\* getGrantByUserAndClient, and a new grant where there is none.
FindGrant(c) ==
    /\ oidcCall[c].pc = "findGrant"
    /\ oidcCall' = IF grantRow # 0
         THEN [oidcCall EXCEPT ![c].pc = "insertAccess", ![c].grant = grantRow]
         ELSE [oidcCall EXCEPT ![c].pc = "granting"]
    /\ UNCHANGED <<oidcUserActive, qrRows, consent, siteRows>>

InsertAccessToken(c) ==
    /\ oidcCall[c].pc = "insertAccess"
    /\ IF ReferencesExist(c)
         THEN LET a == Len(accessTokens) + 1
              IN  /\ accessTokens' = Append(accessTokens, [status |-> "active", overdue |-> FALSE])
                  /\ IF oidcCall[c].op = "exchange"
                       THEN /\ oidcCall' = [oidcCall EXCEPT ![c].pc = "insertFamily",
                                                            ![c].access = a]
                            /\ held' = held
                       ELSE /\ held' = [access |-> held.access \cup {a},
                                        refresh |-> held.refresh \cup {oidcCall[c].access}]
                            /\ To(c, "ok")
         ELSE To(c, "failed") /\ UNCHANGED <<accessTokens, held>>
    /\ UNCHANGED <<oidcUserActive, qrRows, consent, tokenFamilies, refreshCount>>

\* With the scope offline_access a refresh token is answered as well.
InsertTokenFamily(c) ==
    /\ oidcCall[c].pc = "insertFamily"
    /\ \/ /\ held' = [held EXCEPT !.access = @ \cup {oidcCall[c].access}]
          /\ To(c, "ok")
          /\ UNCHANGED <<tokenFamilies, refreshCount>>
       \/ IF oidcCall[c].grant = grantRow
            THEN /\ refreshCount' = refreshCount + 1
                 /\ tokenFamilies' = Append(tokenFamilies,
                        [status |-> "active", current |-> refreshCount + 1, previous |-> 0,
                         overdue |-> FALSE, grant |-> grantRow])
                 /\ held' = [access |-> held.access \cup {oidcCall[c].access},
                             refresh |-> held.refresh \cup {refreshCount + 1}]
                 /\ To(c, "ok")
            ELSE To(c, "failed") /\ UNCHANGED <<tokenFamilies, refreshCount, held>>
    /\ UNCHANGED <<oidcUserActive, qrRows, consent, accessTokens>>

-----------------------------------------------------------------------------
(* The refresh grant *)

\* revokeRefreshTokenFamilyById updates an active family only.
EndFamily(f, status) ==
    tokenFamilies' = IF tokenFamilies[f].status = "active"
                       THEN [tokenFamilies EXCEPT ![f].status = status] ELSE tokenFamilies

\* getRefreshTokenFamilyByTokenHash
FindTokenFamily(c) ==
    /\ Doing(c, "refresh", "reading")
    /\ IF FamiliesOf(oidcCall[c].arg) = {} THEN To(c, "failed")
       ELSE \E f \in FamiliesOf(oidcCall[c].arg) :
         LET family == tokenFamilies[f]
         IN  IF family.status # "active" THEN To(c, "failed")
             ELSE oidcCall' = [oidcCall EXCEPT ![c].row = f,
                    ![c].pc = IF family.current # oidcCall[c].arg THEN "endReused"
                              ELSE IF family.overdue THEN "endExpired" ELSE "loadUser"]
    /\ UNCHANGED <<oidcUserActive, qrRows, consent, siteRows>>

EndTokenFamily(c) ==
    /\ oidcCall[c].pc \in {"endReused", "endExpired"}
    /\ EndFamily(oidcCall[c].row, IF oidcCall[c].pc = "endReused" THEN "reused" ELSE "expired")
    /\ To(c, "failed")
    /\ UNCHANGED <<oidcUserActive, qrRows, consent, accessTokens, refreshCount, held>>

\* getGrantById, with its pairwise subject.
LoadGrant(c) ==
    /\ oidcCall[c].pc = "loadGrant"
    /\ IF tokenFamilies[oidcCall[c].row].grant = grantRow
         THEN oidcCall' = [oidcCall EXCEPT ![c].pc = "rotating", ![c].grant = grantRow,
                                           ![c].pairwise = pairwiseRow]
         ELSE To(c, "failed")
    /\ UNCHANGED <<oidcUserActive, qrRows, consent, siteRows>>

\* Mutant: the family is updated by its id alone.
RotatableById(f, n) == tokenFamilies[f].status # "deleted"

Rotatable(f, n) == tokenFamilies[f].status = "active" /\ tokenFamilies[f].current = n

\* rotateRefreshTokenFamily
RotateTokenFamily(c) ==
    /\ oidcCall[c].pc = "rotating"
    /\ LET f == oidcCall[c].row
           n == oidcCall[c].arg
       IN  IF Rotatable(f, n)
             THEN /\ refreshCount' = refreshCount + 1
                  /\ tokenFamilies' = [tokenFamilies EXCEPT ![f].previous = n,
                                                            ![f].current = refreshCount + 1]
                  /\ oidcCall' = [oidcCall EXCEPT ![c].pc = "insertAccess",
                                                  ![c].access = refreshCount + 1]
             ELSE To(c, "failed") /\ UNCHANGED <<tokenFamilies, refreshCount>>
    /\ UNCHANGED <<oidcUserActive, qrRows, consent, accessTokens, held>>

-----------------------------------------------------------------------------
(* getUserInfo and revokeToken *)

\* Mutant: the status of an access token is not looked at.
AnyAccessToken(a) == accessTokens[a].status # "deleted"

UsableAccessToken(a) == accessTokens[a].status = "active"

ReadAccessToken(c) ==
    /\ Doing(c, "userInfo", "reading")
    /\ LET a == oidcCall[c].arg
       IN  To(c, IF ~UsableAccessToken(a) THEN "failed"
                 ELSE IF accessTokens[a].overdue THEN "expiringAccess" ELSE "loadUser")
    /\ UNCHANGED <<oidcUserActive, qrRows, consent, siteRows>>

\* expireAccessToken and revokeAccessTokenByHash
EndAccessToken(c) ==
    /\ \/ oidcCall[c].pc = "expiringAccess" /\ To(c, "failed")
       \/ Doing(c, "revokeAccess", "reading") /\ To(c, "ok")
    /\ LET a == oidcCall[c].arg
       IN  accessTokens' = IF accessTokens[a].status = "active"
             THEN [accessTokens EXCEPT ![a].status =
                     IF oidcCall[c].op = "userInfo" THEN "expired" ELSE "revoked"]
             ELSE accessTokens
    /\ UNCHANGED <<oidcUserActive, qrRows, consent, tokenFamilies, refreshCount, held>>

FindFamilyToRevoke(c) ==
    /\ Doing(c, "revokeRefresh", "reading")
    /\ IF FamiliesOf(oidcCall[c].arg) = {} THEN To(c, "ok")
       ELSE \E f \in FamiliesOf(oidcCall[c].arg) :
              oidcCall' = [oidcCall EXCEPT ![c].pc = "revoking", ![c].row = f]
    /\ UNCHANGED <<oidcUserActive, qrRows, consent, siteRows>>

RevokeTokenFamily(c) ==
    /\ oidcCall[c].pc = "revoking"
    /\ EndFamily(oidcCall[c].row, "revoked")
    /\ To(c, "ok")
    /\ UNCHANGED <<oidcUserActive, qrRows, consent, accessTokens, refreshCount, held>>

-----------------------------------------------------------------------------
AllDeleted(rows) == [n \in DOMAIN rows |-> [rows[n] EXCEPT !.status = "deleted"]]

\* delete_account_for_user; a transaction has its user once it is approved.
DeleteOidcAccount ==
    /\ oidcUserActive
    /\ oidcUserActive' = FALSE
    /\ qr' = [t \in QrTransactions |->
                IF qr[t].status = "approved" \/ CodesOf(t) # {}
                  THEN [qr[t] EXCEPT !.status = "deleted"] ELSE qr[t]]
    /\ codes' = AllDeleted(codes)
    /\ accessTokens' = AllDeleted(accessTokens)
    /\ tokenFamilies' = AllDeleted(tokenFamilies)
    /\ pairwiseRow' = 0
    /\ grantRow' = 0
    /\ UNCHANGED <<refreshCount, held, oidcCall>>

\* Time passes the deadline of a row.
LapseQr(t) ==
    /\ qr[t].status \in {"pending", "approved", "denied"} /\ ~qr[t].overdue
    /\ qr' = [qr EXCEPT ![t].overdue = TRUE]
    /\ UNCHANGED <<oidcUserActive, codes, consent, siteRows, oidcCall>>

LapseCode(k) ==
    /\ codes[k].status = "active" /\ ~codes[k].overdue
    /\ codes' = [codes EXCEPT ![k].overdue = TRUE]
    /\ UNCHANGED <<oidcUserActive, qr, consent, siteRows, oidcCall>>

LapseAccessToken(a) ==
    /\ accessTokens[a].status = "active" /\ ~accessTokens[a].overdue
    /\ accessTokens' = [accessTokens EXCEPT ![a].overdue = TRUE]
    /\ UNCHANGED <<oidcUserActive, qrRows, consent, tokenFamilies, refreshCount, held, oidcCall>>

LapseTokenFamily(f) ==
    /\ tokenFamilies[f].status = "active" /\ ~tokenFamilies[f].overdue
    /\ tokenFamilies' = [tokenFamilies EXCEPT ![f].overdue = TRUE]
    /\ UNCHANGED <<oidcUserActive, qrRows, consent, accessTokens, refreshCount, held, oidcCall>>

OidcNext ==
    \/ \E c \in OidcCalls :
         \/ PollRoute(c) \/ ApproveRoute(c) \/ PreviewRoute(c) \/ DenyRoute(c)
         \/ TokenRoute(c) \/ UserInfoRoute(c) \/ RevokeRoute(c)
         \/ FindViewerSession(c) \/ ReadQr(c) \/ ExpireQr(c)
         \/ FindPairwise(c) \/ InsertPairwise(c) \/ UpsertGrant(c)
         \/ ApproveQr(c) \/ DenyQr(c) \/ RereadQr(c) \/ PollQr(c) \/ DeliverCode(c)
         \/ ReadCode(c) \/ ExpireCode(c) \/ LoadTokenUser(c) \/ ConsumeCode(c)
         \/ FindGrant(c) \/ InsertAccessToken(c) \/ InsertTokenFamily(c)
         \/ FindTokenFamily(c) \/ EndTokenFamily(c) \/ LoadGrant(c) \/ RotateTokenFamily(c)
         \/ ReadAccessToken(c) \/ EndAccessToken(c)
         \/ FindFamilyToRevoke(c) \/ RevokeTokenFamily(c)
    \/ \E t \in QrTransactions : OpenQr(t) \/ LapseQr(t)
    \/ DeleteOidcAccount
    \/ \E k \in DOMAIN codes : LapseCode(k)
    \/ \E a \in DOMAIN accessTokens : LapseAccessToken(a)
    \/ \E f \in DOMAIN tokenFamilies : LapseTokenFamily(f)

OidcSpec == OidcInit /\ [][OidcNext]_oidcVars

-----------------------------------------------------------------------------
\* The types of the variables.
OidcTypeOK ==
    /\ oidcUserActive \in BOOLEAN
    /\ qr \in [QrTransactions ->
         [status : {"none", "pending", "approved", "denied", "expired", "deleted"},
          overdue : BOOLEAN]]
    /\ pairwiseRow \in 0..2 /\ grantRow \in 0..2
    /\ codes \in Seq([qr : QrTransactions, overdue : BOOLEAN, pairwise : 1..2,
                      status : {"active", "consumed", "expired", "deleted"}])
    /\ accessTokens \in Seq([status : {"active", "expired", "revoked", "deleted"},
                             overdue : BOOLEAN])
    /\ tokenFamilies \in Seq([current : 1..refreshCount, previous : 0..refreshCount,
                              overdue : BOOLEAN, grant : 1..2,
                              status : {"active", "revoked", "reused", "expired", "deleted"}])
    /\ held.access \subseteq DOMAIN accessTokens
    /\ held.refresh \subseteq 1..refreshCount

\* A transaction as a one-time grant of its browser; what delivers a second
\* code is no grant.
QrGrantState(t) ==
    CASE qr[t].status = "none" -> "absent"
      [] Cardinality(CodesOf(t)) = 1 -> "spent"
      [] Cardinality(CodesOf(t)) > 1 -> "overspent"
      [] qr[t].status = "pending" /\ CodesOf(t) = {} -> "open"
      [] qr[t].status = "approved" /\ CodesOf(t) = {} -> "approved"
      [] OTHER -> "void"

QrGrant == INSTANCE OneTimeGrant WITH
    Grants <- QrTransactions, Holders <- QrTransactions, Nobody <- NoBrowser,
    grantState <- [t \in QrTransactions |-> QrGrantState(t)],
    grantHolder <- [t \in QrTransactions |->
                      IF qr[t].status = "none" THEN NoBrowser ELSE t]

\* However polls, approvals, denials and deadlines overlap, a transaction
\* yields one code at most, only after an approval, and never once it was
\* denied or has expired.
QrImplementsGrant == QrGrant!GrantSpec

\* A code is exchanged once and a refresh token is rotated once, also by
\* calls that read it at the same time.
TokensAreSpentOnce ==
    \A b, c \in OidcCalls :
        /\ b # c /\ oidcCall[b].op = oidcCall[c].op /\ oidcCall[b].arg = oidcCall[c].arg
        /\ oidcCall[b].op \in {"exchange", "refresh"}
        => ~(oidcCall[b].pc = "ok" /\ oidcCall[c].pc = "ok")

\* A call that begins with something spent never succeeds, whatever it
\* overlaps: a code that is not active, a refresh token that was rotated or
\* whose family has ended, an access token that was revoked or expired, and
\* any of them after the account's deletion.
StaleTokensFail ==
    \A c \in OidcCalls : oidcCall[c].stale => oidcCall[c].pc # "ok"

\* No exchange or refresh that was under way leaves a token of a deleted
\* account behind, although approvals under way create its rows anew.
NoTokenOutlivesAccount ==
    ~oidcUserActive =>
        /\ \A a \in DOMAIN accessTokens : accessTokens[a].status = "deleted"
        /\ \A f \in DOMAIN tokenFamilies : tokenFamilies[f].status = "deleted"
=============================================================================
