--------------------------- MODULE IdentityProofs ---------------------------
(***************************************************************************)
(* What holds of sign-ins, in the app and at other sites, for any number   *)
(* of devices, codes, tokens and calls: what is spent, rotated, revoked or *)
(* deleted never comes back, whatever is under way at the time, and the QR *)
(* transactions of OidcProvider implement OneTimeGrant.  Of credentials    *)
(* and their roots it is that what is issued can be proved.                *)
(***************************************************************************)
EXTENDS AccountServices, DataLemmas

-----------------------------------------------------------------------------
(* OidcProvider: types. *)

OidcSteps == {"idle", "session", "reading", "expiring", "pairwise", "insertPairwise",
              "granting", "approving", "denying", "rereading", "delivering",
              "expiringCode", "loadUser", "consuming", "findGrant", "insertAccess",
              "insertFamily", "endReused", "endExpired", "loadGrant", "rotating",
              "expiringAccess", "revoking", "ok", "failed"}

OidcCallTypes ==
    [op : OidcOps, pc : OidcSteps, arg : QrTransactions \cup Nat, stale : BOOLEAN,
     row : Nat, session : BOOLEAN, pairwise : 0..2, grant : 0..2, access : Nat]

QrTypes ==
    [status : {"none", "pending", "approved", "denied", "expired", "deleted"},
     overdue : BOOLEAN]

CodeTypes == [qr : QrTransactions, overdue : BOOLEAN, pairwise : 1..2,
              status : {"active", "consumed", "expired", "deleted"}]

AccessTypes == [status : {"active", "expired", "revoked", "deleted"}, overdue : BOOLEAN]

TokenFamilyTypes(n) == [current : 1..n, previous : 0..n, overdue : BOOLEAN, grant : 1..2,
                        status : {"active", "revoked", "reused", "expired", "deleted"}]

OidcCallsTyped == oidcCall \in [OidcCalls -> OidcCallTypes]

OidcRowsTyped ==
    /\ oidcUserActive \in BOOLEAN
    /\ qr \in [QrTransactions -> QrTypes]
    /\ pairwiseRow \in 0..2 /\ grantRow \in 0..2
    /\ codes \in Seq(CodeTypes)
    /\ accessTokens \in Seq(AccessTypes)
    /\ refreshCount \in Nat
    /\ tokenFamilies \in Seq(TokenFamilyTypes(refreshCount))
    /\ held \in [access : SUBSET Nat, refresh : SUBSET Nat]
    /\ held.access \subseteq DOMAIN accessTokens
    /\ held.refresh \subseteq 1..refreshCount

OidcTyped == OidcCallsTyped /\ OidcRowsTyped

\* What the call c does leaves the others alone and keeps what it is about.
Others(c) == \A d \in OidcCalls : d # c => oidcCall'[d] = oidcCall[d]

SameCall(c) ==
    /\ oidcCall'[c].op = oidcCall[c].op /\ oidcCall'[c].arg = oidcCall[c].arg
    /\ oidcCall'[c].stale = oidcCall[c].stale

Moves(c) == OidcCallsTyped' /\ Others(c) /\ SameCall(c)

\* A call that goes on keeps what it has read as well.
Keeps(c) ==
    /\ oidcCall'[c].row = oidcCall[c].row /\ oidcCall'[c].session = oidcCall[c].session
    /\ oidcCall'[c].pairwise = oidcCall[c].pairwise
    /\ oidcCall'[c].grant = oidcCall[c].grant /\ oidcCall'[c].access = oidcCall[c].access

\* The record of a call is replaced.
LEMMA CallReplaced ==
  ASSUME NEW c \in OidcCalls, OidcCallsTyped, NEW next \in OidcCallTypes,
         next.op = oidcCall[c].op, next.arg = oidcCall[c].arg,
         next.stale = oidcCall[c].stale, oidcCall' = [oidcCall EXCEPT ![c] = next]
  PROVE  Moves(c) /\ oidcCall'[c] = next
  BY DEF OidcCallsTyped, Moves, Others, SameCall

\* What To does to a call.
LEMMA CallGoes ==
  ASSUME NEW c \in OidcCalls, OidcCallsTyped, NEW pc \in OidcSteps, To(c, pc)
  PROVE  Moves(c) /\ oidcCall'[c].pc = pc /\ (pc \notin {"ok", "failed"} => Keeps(c))
<1>1. oidcCall[c] \in OidcCallTypes
  BY DEF OidcCallsTyped
<1>2. CASE pc \in {"ok", "failed"}
  <2> DEFINE next == [Starting(oidcCall[c].op) EXCEPT
                        !.pc = pc, !.arg = oidcCall[c].arg, !.stale = oidcCall[c].stale]
  <2>1. Starting(oidcCall[c].op) \in OidcCallTypes
        /\ Starting(oidcCall[c].op).op = oidcCall[c].op
    BY <1>1 DEF Starting, OidcCallTypes, OidcSteps
  <2>2. next \in OidcCallTypes /\ next.op = oidcCall[c].op /\ next.pc = pc
        /\ next.arg = oidcCall[c].arg /\ next.stale = oidcCall[c].stale
    BY <1>1, <2>1 DEF OidcCallTypes
  <2>3. oidcCall' = [oidcCall EXCEPT ![c] = next]
    BY <1>2 DEF To, OidcCallsTyped
  <2> HIDE DEF next
  <2>4. Moves(c) /\ oidcCall'[c] = next
    BY <2>2, <2>3, CallReplaced
  <2> QED BY <1>2, <2>2, <2>4
<1>3. CASE pc \notin {"ok", "failed"}
  <2> DEFINE next == [oidcCall[c] EXCEPT !.pc = pc]
  <2>1. next \in OidcCallTypes /\ next.op = oidcCall[c].op /\ next.pc = pc
        /\ next.arg = oidcCall[c].arg /\ next.stale = oidcCall[c].stale
        /\ next.row = oidcCall[c].row /\ next.session = oidcCall[c].session
        /\ next.pairwise = oidcCall[c].pairwise /\ next.grant = oidcCall[c].grant
        /\ next.access = oidcCall[c].access
    BY <1>1 DEF OidcCallTypes
  <2>2. oidcCall' = [oidcCall EXCEPT ![c] = next]
    BY <1>3 DEF To, OidcCallsTyped
  <2> HIDE DEF next
  <2>3. Moves(c) /\ oidcCall'[c] = next
    BY <2>1, <2>2, CallReplaced
  <2> QED BY <2>1, <2>3 DEF Keeps
<1> QED BY <1>2, <1>3

\* A call that goes on and remembers what it read or made: a session, a
\* pairwise subject, a grant or both, a family or a token.
RemembersSession(c, pc, session) ==
    oidcCall' = [oidcCall EXCEPT ![c].pc = pc, ![c].session = session]
RemembersPairwise(c, pc, pairwise) ==
    oidcCall' = [oidcCall EXCEPT ![c].pc = pc, ![c].pairwise = pairwise]
RemembersGrant(c, pc, grant) ==
    oidcCall' = [oidcCall EXCEPT ![c].pc = pc, ![c].grant = grant]
RemembersConsent(c, pc, grant, pairwise) ==
    oidcCall' = [oidcCall EXCEPT ![c].pc = pc, ![c].grant = grant, ![c].pairwise = pairwise]
RemembersRow(c, pc, row) ==
    oidcCall' = [oidcCall EXCEPT ![c].pc = pc, ![c].row = row]
RemembersToken(c, pc, access) ==
    oidcCall' = [oidcCall EXCEPT ![c].pc = pc, ![c].access = access]

LEMMA CallRemembersSession ==
  ASSUME NEW c \in OidcCalls, OidcCallsTyped, NEW pc \in OidcSteps, NEW session \in BOOLEAN,
         RemembersSession(c, pc, session)
  PROVE  /\ Moves(c) /\ oidcCall'[c].pc = pc /\ oidcCall'[c].session = session
<1> DEFINE next == [oidcCall[c] EXCEPT !.pc = pc, !.session = session]
<1>1. next \in OidcCallTypes /\ next.op = oidcCall[c].op /\ next.arg = oidcCall[c].arg
      /\ next.stale = oidcCall[c].stale
      /\ next.pc = pc /\ next.session = session
  BY DEF OidcCallTypes, OidcCallsTyped
<1>2. oidcCall' = [oidcCall EXCEPT ![c] = next]
  BY DEF OidcCallsTyped, RemembersSession
<1> HIDE DEF next
<1>3. Moves(c) /\ oidcCall'[c] = next
  BY <1>1, <1>2, CallReplaced
<1> QED BY <1>1, <1>3

LEMMA CallRemembersPairwise ==
  ASSUME NEW c \in OidcCalls, OidcCallsTyped, NEW pc \in OidcSteps, NEW pairwise \in 0..2,
         RemembersPairwise(c, pc, pairwise)
  PROVE  /\ Moves(c) /\ oidcCall'[c].pc = pc /\ oidcCall'[c].pairwise = pairwise
         /\ oidcCall'[c].grant = oidcCall[c].grant
<1> DEFINE next == [oidcCall[c] EXCEPT !.pc = pc, !.pairwise = pairwise]
<1>1. next \in OidcCallTypes /\ next.op = oidcCall[c].op /\ next.arg = oidcCall[c].arg
      /\ next.stale = oidcCall[c].stale
      /\ next.pc = pc /\ next.pairwise = pairwise /\ next.grant = oidcCall[c].grant
  BY DEF OidcCallTypes, OidcCallsTyped
<1>2. oidcCall' = [oidcCall EXCEPT ![c] = next]
  BY DEF OidcCallsTyped, RemembersPairwise
<1> HIDE DEF next
<1>3. Moves(c) /\ oidcCall'[c] = next
  BY <1>1, <1>2, CallReplaced
<1> QED BY <1>1, <1>3

LEMMA CallRemembersGrant ==
  ASSUME NEW c \in OidcCalls, OidcCallsTyped, NEW pc \in OidcSteps, NEW grant \in 0..2,
         RemembersGrant(c, pc, grant)
  PROVE  /\ Moves(c) /\ oidcCall'[c].pc = pc /\ oidcCall'[c].grant = grant
         /\ oidcCall'[c].pairwise = oidcCall[c].pairwise
<1> DEFINE next == [oidcCall[c] EXCEPT !.pc = pc, !.grant = grant]
<1>1. next \in OidcCallTypes /\ next.op = oidcCall[c].op /\ next.arg = oidcCall[c].arg
      /\ next.stale = oidcCall[c].stale
      /\ next.pc = pc /\ next.grant = grant /\ next.pairwise = oidcCall[c].pairwise
  BY DEF OidcCallTypes, OidcCallsTyped
<1>2. oidcCall' = [oidcCall EXCEPT ![c] = next]
  BY DEF OidcCallsTyped, RemembersGrant
<1> HIDE DEF next
<1>3. Moves(c) /\ oidcCall'[c] = next
  BY <1>1, <1>2, CallReplaced
<1> QED BY <1>1, <1>3

LEMMA CallRemembersConsent ==
  ASSUME NEW c \in OidcCalls, OidcCallsTyped, NEW pc \in OidcSteps, NEW grant \in 0..2, NEW pairwise \in 0..2,
         RemembersConsent(c, pc, grant, pairwise)
  PROVE  /\ Moves(c) /\ oidcCall'[c].pc = pc /\ oidcCall'[c].grant = grant /\ oidcCall'[c].pairwise = pairwise
         /\ oidcCall'[c].row = oidcCall[c].row
<1> DEFINE next == [oidcCall[c] EXCEPT !.pc = pc, !.grant = grant, !.pairwise = pairwise]
<1>1. next \in OidcCallTypes /\ next.op = oidcCall[c].op /\ next.arg = oidcCall[c].arg
      /\ next.stale = oidcCall[c].stale
      /\ next.pc = pc /\ next.grant = grant /\ next.pairwise = pairwise /\ next.row = oidcCall[c].row
  BY DEF OidcCallTypes, OidcCallsTyped
<1>2. oidcCall' = [oidcCall EXCEPT ![c] = next]
  BY DEF OidcCallsTyped, RemembersConsent
<1> HIDE DEF next
<1>3. Moves(c) /\ oidcCall'[c] = next
  BY <1>1, <1>2, CallReplaced
<1> QED BY <1>1, <1>3

LEMMA CallRemembersRow ==
  ASSUME NEW c \in OidcCalls, OidcCallsTyped, NEW pc \in OidcSteps, NEW row \in Nat,
         RemembersRow(c, pc, row)
  PROVE  /\ Moves(c) /\ oidcCall'[c].pc = pc /\ oidcCall'[c].row = row
<1> DEFINE next == [oidcCall[c] EXCEPT !.pc = pc, !.row = row]
<1>1. next \in OidcCallTypes /\ next.op = oidcCall[c].op /\ next.arg = oidcCall[c].arg
      /\ next.stale = oidcCall[c].stale
      /\ next.pc = pc /\ next.row = row
  BY DEF OidcCallTypes, OidcCallsTyped
<1>2. oidcCall' = [oidcCall EXCEPT ![c] = next]
  BY DEF OidcCallsTyped, RemembersRow
<1> HIDE DEF next
<1>3. Moves(c) /\ oidcCall'[c] = next
  BY <1>1, <1>2, CallReplaced
<1> QED BY <1>1, <1>3

LEMMA CallRemembersToken ==
  ASSUME NEW c \in OidcCalls, OidcCallsTyped, NEW pc \in OidcSteps, NEW access \in Nat,
         RemembersToken(c, pc, access)
  PROVE  /\ Moves(c) /\ oidcCall'[c].pc = pc /\ oidcCall'[c].access = access
         /\ oidcCall'[c].row = oidcCall[c].row /\ oidcCall'[c].pairwise = oidcCall[c].pairwise /\ oidcCall'[c].grant = oidcCall[c].grant
<1> DEFINE next == [oidcCall[c] EXCEPT !.pc = pc, !.access = access]
<1>1. next \in OidcCallTypes /\ next.op = oidcCall[c].op /\ next.arg = oidcCall[c].arg
      /\ next.stale = oidcCall[c].stale
      /\ next.pc = pc /\ next.access = access /\ next.row = oidcCall[c].row /\ next.pairwise = oidcCall[c].pairwise /\ next.grant = oidcCall[c].grant
  BY DEF OidcCallTypes, OidcCallsTyped
<1>2. oidcCall' = [oidcCall EXCEPT ![c] = next]
  BY DEF OidcCallsTyped, RemembersToken
<1> HIDE DEF next
<1>3. Moves(c) /\ oidcCall'[c] = next
  BY <1>1, <1>2, CallReplaced
<1> QED BY <1>1, <1>3

\* A call that goes on and remembers nothing more.
LEMMA CallSteps ==
  ASSUME NEW c \in OidcCalls, OidcCallsTyped, NEW pc \in OidcSteps,
         oidcCall' = [oidcCall EXCEPT ![c].pc = pc]
  PROVE  Moves(c) /\ oidcCall'[c].pc = pc /\ Keeps(c)
<1> DEFINE next == [oidcCall[c] EXCEPT !.pc = pc]
<1>1. next \in OidcCallTypes /\ next.op = oidcCall[c].op /\ next.pc = pc
      /\ next.arg = oidcCall[c].arg /\ next.stale = oidcCall[c].stale
      /\ next.row = oidcCall[c].row /\ next.session = oidcCall[c].session
      /\ next.pairwise = oidcCall[c].pairwise /\ next.grant = oidcCall[c].grant
      /\ next.access = oidcCall[c].access
  BY DEF OidcCallTypes, OidcCallsTyped
<1>2. oidcCall' = [oidcCall EXCEPT ![c] = next]
  BY DEF OidcCallsTyped
<1> HIDE DEF next
<1>3. Moves(c) /\ oidcCall'[c] = next
  BY <1>1, <1>2, CallReplaced
<1> QED BY <1>1, <1>3 DEF Keeps

\* A call begins with something that is there.
LEMMA CallBegins ==
  ASSUME NEW c \in OidcCalls, OidcTyped, NEW op \in OidcOps, NEW pc \in OidcSteps,
         Receives(c, op, pc)
  PROVE  /\ OidcCallsTyped' /\ Others(c) /\ oidcCall[c].op = op /\ oidcCall'[c].op = op
         /\ oidcCall'[c].pc = pc
         /\ oidcCall'[c].arg \in Presented(op)
         /\ oidcCall'[c].stale <=> Spent(op, oidcCall'[c].arg)
         /\ UNCHANGED <<oidcUserActive, qrRows, consent, siteRows>>
<1>1. oidcCall[c] \in OidcCallTypes /\ oidcCall[c].op = op
  BY DEF OidcTyped, OidcCallsTyped, Receives, Doing
<1>2. PICK n \in Presented(op) :
        oidcCall' = [oidcCall EXCEPT ![c].arg = n, ![c].stale = Spent(op, n), ![c].pc = pc]
  BY DEF Receives
<1>3. n \in QrTransactions \cup Nat
  BY RowOfTable DEF Presented, OidcOps, OidcTyped, OidcRowsTyped
<1>4. PICK stale \in BOOLEAN : stale = Spent(op, n)
  BY DEF Spent
<1> DEFINE next == [oidcCall[c] EXCEPT !.arg = n, !.stale = stale, !.pc = pc]
<1>5. next \in OidcCallTypes /\ next.op = op /\ next.arg = n /\ next.stale = stale
      /\ next.pc = pc
  BY <1>1, <1>3 DEF OidcCallTypes
<1>6. oidcCall' = [oidcCall EXCEPT ![c] = next]
  BY <1>2, <1>4 DEF OidcTyped, OidcCallsTyped
<1> HIDE DEF next
<1>7. OidcCallsTyped' /\ Others(c) /\ oidcCall'[c] = next
  BY <1>5, <1>6 DEF OidcTyped, OidcCallsTyped, Others
<1> QED BY <1>1, <1>2, <1>4, <1>5, <1>7 DEF Receives

-----------------------------------------------------------------------------
(* OidcProvider: what a call has at hand where it stands. *)

QrOps == {"approve", "deny", "preview", "poll"}
FamilyOps == {"refresh", "revokeRefresh"}
AccessOps == {"userInfo", "revokeAccess"}

\* Each step belongs to some operations.
StepOK(c) ==
    /\ oidcCall[c].pc = "session" => oidcCall[c].op = "approve"
    /\ oidcCall[c].pc = "expiring" => oidcCall[c].op \in QrOps
    /\ oidcCall[c].pc \in {"pairwise", "insertPairwise", "approving"} => oidcCall[c].op = "approve"
    /\ oidcCall[c].pc = "denying" => oidcCall[c].op = "deny"
    /\ oidcCall[c].pc = "rereading" => oidcCall[c].op \in {"approve", "deny"}
    /\ oidcCall[c].pc = "delivering" => oidcCall[c].op = "poll"
    /\ oidcCall[c].pc = "granting" => oidcCall[c].op \in {"approve", "exchange"}
    /\ oidcCall[c].pc \in {"expiringCode", "consuming", "findGrant", "insertFamily"} =>
         oidcCall[c].op = "exchange"
    /\ oidcCall[c].pc = "loadUser" => oidcCall[c].op \in {"exchange", "refresh", "userInfo"}
    /\ oidcCall[c].pc = "insertAccess" => oidcCall[c].op \in {"exchange", "refresh"}
    /\ oidcCall[c].pc \in {"endReused", "endExpired", "loadGrant", "rotating"} =>
         oidcCall[c].op = "refresh"
    /\ oidcCall[c].pc = "expiringAccess" => oidcCall[c].op = "userInfo"
    /\ oidcCall[c].pc = "revoking" => oidcCall[c].op = "revokeRefresh"

\* What a call presents stays there, and so do the rows it found or made.
HoldsRows(c) ==
    /\ oidcCall[c].pc # "idle" =>
         /\ oidcCall[c].op \in QrOps => /\ oidcCall[c].arg \in QrTransactions
                                        /\ qr[oidcCall[c].arg].status # "none"
         /\ oidcCall[c].op = "exchange" => oidcCall[c].arg \in DOMAIN codes
         /\ oidcCall[c].op \in FamilyOps => oidcCall[c].arg \in 1..refreshCount
         /\ oidcCall[c].op \in AccessOps => oidcCall[c].arg \in DOMAIN accessTokens
    /\ oidcCall[c].pc \in {"endReused", "endExpired", "loadGrant", "rotating", "revoking"} =>
         oidcCall[c].row \in DOMAIN tokenFamilies
    /\ oidcCall[c].op = "refresh" /\ oidcCall[c].pc = "loadUser" =>
         oidcCall[c].row \in DOMAIN tokenFamilies
    /\ oidcCall[c].pc = "insertFamily" => oidcCall[c].access \in DOMAIN accessTokens
    /\ oidcCall[c].op = "refresh" /\ oidcCall[c].pc = "insertAccess" =>
         oidcCall[c].access \in 1..refreshCount

\* The consent a call relies on: an exchange or a refresh that goes on after
\* it has found the user is one of the account before its deletion.
HoldsConsent(c) ==
    /\ oidcCall[c].op = "approve" /\ oidcCall[c].pc \in {"granting", "approving"} =>
         oidcCall[c].pairwise # 0
    /\ oidcCall[c].op = "exchange" /\ oidcCall[c].pc = "loadUser" =>
         (oidcUserActive => oidcCall[c].pairwise = 1)
    /\ oidcCall[c].op = "exchange"
         /\ oidcCall[c].pc \in {"consuming", "findGrant", "granting", "insertAccess",
                                "insertFamily"} =>
         oidcCall[c].pairwise = 1
    /\ oidcCall[c].op = "exchange" /\ oidcCall[c].pc = "insertAccess" => oidcCall[c].grant # 0
    /\ oidcCall[c].pc = "insertFamily" => oidcCall[c].grant = 1
    /\ oidcCall[c].op = "refresh" /\ oidcCall[c].pc \in {"rotating", "insertAccess"} =>
         oidcCall[c].grant = 1

\* A family whose current token is n and that can be rotated.
Current(n) == \E f \in DOMAIN tokenFamilies :
                 tokenFamilies[f].current = n /\ tokenFamilies[f].status = "active"

\* A call that has spent a code or a token leaves nothing to spend.
Spends(c) ==
    \/ /\ oidcCall[c].op = "exchange"
       /\ oidcCall[c].pc \in {"findGrant", "granting", "insertAccess", "insertFamily", "ok"}
    \/ oidcCall[c].op = "refresh" /\ oidcCall[c].pc \in {"insertAccess", "ok"}

SpendsOnce(c) ==
    Spends(c) =>
        /\ oidcCall[c].op = "exchange" => codes[oidcCall[c].arg].status # "active"
        /\ oidcCall[c].op = "refresh" =>
             \A f \in DOMAIN tokenFamilies : tokenFamilies[f].current # oidcCall[c].arg

\* A call that began with something spent gets as far as the user, and
\* there only when the account is deleted.
StaysStale(c) ==
    oidcCall[c].stale =>
        /\ oidcCall[c].op \in {"exchange", "refresh", "userInfo"}
        /\ oidcCall[c].pc \in {"reading", "expiringCode", "endReused", "endExpired",
                               "expiringAccess", "loadUser", "failed"}
        /\ oidcCall[c].pc = "loadUser" => ~oidcUserActive
        /\ \/ ~oidcUserActive
           \/ oidcCall[c].op = "exchange" /\ codes[oidcCall[c].arg].status # "active"
           \/ oidcCall[c].op = "refresh" /\ ~Current(oidcCall[c].arg)
           \/ oidcCall[c].op = "userInfo" /\ accessTokens[oidcCall[c].arg].status # "active"

CallOK(c) == StepOK(c) /\ HoldsRows(c) /\ HoldsConsent(c) /\ SpendsOnce(c) /\ StaysStale(c)

\* The rows of the account before and after its deletion.
Epochs ==
    /\ oidcUserActive => /\ pairwiseRow # 2 /\ grantRow # 2
                         /\ \A k \in DOMAIN codes : codes[k].pairwise = 1
    /\ ~oidcUserActive =>
         /\ pairwiseRow # 1 /\ grantRow # 1
         /\ \A a \in DOMAIN accessTokens : accessTokens[a].status = "deleted"
         /\ \A f \in DOMAIN tokenFamilies : tokenFamilies[f].status = "deleted"
    /\ \A f \in DOMAIN tokenFamilies : tokenFamilies[f].grant = 1
    /\ \A t \in QrTransactions : qr[t].status = "approved" => pairwiseRow # 0

\* A transaction has one code at most, and only after its approval; a
\* refresh token is the current one of one family.
SingleUse ==
    /\ \A j, k \in DOMAIN codes : codes[j].qr = codes[k].qr => j = k
    /\ \A k \in DOMAIN codes : qr[codes[k].qr].status \in {"approved", "expired", "deleted"}
    /\ \A f, g \in DOMAIN tokenFamilies :
         tokenFamilies[f].current = tokenFamilies[g].current => f = g

CallsOK == \A c \in OidcCalls : CallOK(c)

SpentByOne ==
    \A b, c \in OidcCalls :
        Spends(b) /\ Spends(c) /\ oidcCall[b].op = oidcCall[c].op
          /\ oidcCall[b].arg = oidcCall[c].arg => b = c

OidcInv == OidcTyped /\ CallsOK /\ Epochs /\ SingleUse /\ SpentByOne

\* The calls that only read.
Reading(c) ==
    \/ FindViewerSession(c) \/ ReadQr(c) \/ FindPairwise(c) \/ RereadQr(c) \/ PollQr(c)
    \/ ReadCode(c) \/ LoadTokenUser(c) \/ FindGrant(c) \/ FindTokenFamily(c) \/ LoadGrant(c)
    \/ ReadAccessToken(c) \/ FindFamilyToRevoke(c)

OidcBegins(c) == PollRoute(c) \/ ApproveRoute(c) \/ PreviewRoute(c) \/ DenyRoute(c)
                 \/ TokenRoute(c) \/ UserInfoRoute(c) \/ RevokeRoute(c)

\* A call that begins has what it needs.
LEMMA BeginsOK ==
  ASSUME NEW c \in OidcCalls, OidcInv, OidcBegins(c)
  PROVE  OidcCallsTyped' /\ Others(c) /\ CallOK(c)' /\ ~Spends(c)'
         /\ UNCHANGED <<oidcUserActive, qrRows, consent, siteRows>>
<1>1. PICK op \in OidcOps, pc \in {"session", "reading"} :
        Receives(c, op, pc) /\ (pc = "session" => op = "approve")
  BY DEF OidcBegins, PollRoute, ApproveRoute, PreviewRoute, DenyRoute, TokenRoute, UserInfoRoute,
         RevokeRoute, OidcOps
<1>2. /\ OidcCallsTyped' /\ Others(c) /\ oidcCall[c].op = op /\ oidcCall'[c].op = op
      /\ oidcCall'[c].pc = pc /\ oidcCall'[c].arg \in Presented(op)
      /\ oidcCall'[c].stale <=> Spent(op, oidcCall'[c].arg)
      /\ UNCHANGED <<oidcUserActive, qrRows, consent, siteRows>>
  BY <1>1, CallBegins DEF OidcInv, OidcSteps
<1>3. StepOK(c)' /\ HoldsConsent(c)' /\ SpendsOnce(c)' /\ ~Spends(c)'
  BY <1>1, <1>2 DEF StepOK, HoldsConsent, SpendsOnce, Spends
<1>4. HoldsRows(c)'
  BY <1>1, <1>2 DEF HoldsRows, Presented, QrOps, FamilyOps, AccessOps, OidcInv, OidcTyped,
         OidcRowsTyped, qrRows, siteRows, OidcOps
<1>5. StaysStale(c)'
  BY <1>1, <1>2 DEF StaysStale, Spent, Current, FamiliesOf, qrRows, siteRows, OidcOps, Epochs,
     OidcInv
<1> QED BY <1>2, <1>3, <1>4, <1>5 DEF CallOK

\* What a call has read holds when it has read it.
LEMMA ReadingOK ==
  ASSUME NEW c \in OidcCalls, OidcInv, Reading(c)
  PROVE  /\ Moves(c) /\ CallOK(c)'
         /\ Spends(c)' <=> Spends(c)
         /\ UNCHANGED <<oidcUserActive, qrRows, consent, siteRows>>
<1>1. /\ oidcCall[c] \in OidcCallTypes /\ CallOK(c) /\ OidcCallsTyped
      /\ pairwiseRow \in 0..2 /\ grantRow \in 0..2 /\ oidcUserActive \in BOOLEAN
      /\ UNCHANGED <<oidcUserActive, qrRows, consent, siteRows>>
  BY DEF OidcInv, OidcTyped, OidcCallsTyped, OidcRowsTyped, CallsOK, Reading,
         FindViewerSession, ReadQr, FindPairwise, RereadQr, PollQr, ReadCode, LoadTokenUser,
         FindGrant, FindTokenFamily, LoadGrant, ReadAccessToken, FindFamilyToRevoke
<1>2. PICK pairwise \in 0..2, grant \in 0..2 : pairwise = pairwiseRow /\ grant = grantRow
  BY <1>1
<1> DEFINE Goes(pc) == Moves(c) /\ oidcCall'[c].pc = pc
<1>3. \A pc \in OidcSteps : To(c, pc) =>
        Goes(pc) /\ (pc \notin {"ok", "failed"} => Keeps(c))
  BY <1>1, CallGoes
<1>4. CASE FindViewerSession(c)
  <2>1. PICK session \in BOOLEAN : session = oidcUserActive
    BY <1>1
  <2>2. RemembersSession(c, "reading", session) /\ oidcCall[c].op = "approve"
    BY <1>4, <2>1 DEF FindViewerSession, Doing, RemembersSession
  <2>4. Moves(c) /\ SameCall(c) /\ oidcCall'[c].pc = "reading"
    BY <1>1, <2>2, CallRemembersSession DEF OidcSteps, Moves
  <2> QED
    BY <1>1, <1>4, <2>2, <2>4 DEF FindViewerSession, Doing, CallOK, StepOK, HoldsRows, QrOps,
       FamilyOps, AccessOps, HoldsConsent, SpendsOnce, Spends, StaysStale, SameCall, qrRows,
       siteRows, Current
<1>5. CASE ReadQr(c) \/ RereadQr(c) \/ PollQr(c)
  <2>1. PICK pc \in {"expiring", "failed", "pairwise", "denying", "ok", "delivering"} :
          /\ To(c, pc)
          /\ \/ oidcCall[c].op = "approve" /\ pc \in {"expiring", "failed", "pairwise"}
             \/ oidcCall[c].op = "deny" /\ pc \in {"expiring", "failed", "denying"}
             \/ oidcCall[c].op = "preview" /\ pc \in {"expiring", "failed", "ok"}
             \/ oidcCall[c].op = "poll" /\ pc \in {"expiring", "failed", "delivering"}
          /\ oidcCall[c].pc \in {"reading", "rereading"}
    BY <1>1, <1>5 DEF ReadQr, RereadQr, PollQr, Classify, Doing, CallOK, StepOK
  <2>2. Goes(pc) /\ SameCall(c)
    BY <1>3, <2>1 DEF OidcSteps, Moves
  <2> QED
    BY <1>1, <2>1, <2>2 DEF CallOK, StepOK, HoldsRows, QrOps, FamilyOps, AccessOps,
       HoldsConsent, SpendsOnce, Spends, StaysStale, SameCall, qrRows,
       siteRows, Current
<1>6. CASE FindPairwise(c)
  <2>1. oidcCall[c].pc = "pairwise" /\ oidcCall[c].op = "approve"
    BY <1>1, <1>6 DEF FindPairwise, CallOK, StepOK
  <2>2. CASE pairwiseRow # 0
    <3>1. RemembersPairwise(c, "granting", pairwise)
      BY <1>2, <1>6, <2>2 DEF FindPairwise, RemembersPairwise
    <3>3. Moves(c) /\ SameCall(c) /\ oidcCall'[c].pc = "granting" /\ oidcCall'[c].pairwise # 0
      BY <1>1, <1>2, <2>2, <3>1, CallRemembersPairwise DEF OidcSteps, Moves
    <3> QED
      BY <1>1, <2>1, <3>3 DEF CallOK, StepOK, HoldsRows, QrOps,
       FamilyOps, AccessOps, HoldsConsent, SpendsOnce, Spends, StaysStale, SameCall, qrRows,
       siteRows, Current
  <2>3. CASE pairwiseRow = 0
    <3>1. Moves(c) /\ SameCall(c) /\ oidcCall'[c].pc = "insertPairwise"
      BY <1>1, <1>6, <2>3, CallSteps DEF FindPairwise, OidcSteps, Moves
    <3> QED
      BY <1>1, <2>1, <3>1 DEF CallOK, StepOK, HoldsRows, QrOps,
       FamilyOps, AccessOps, HoldsConsent, SpendsOnce, Spends, StaysStale, SameCall, qrRows,
       siteRows, Current
  <2> QED BY <2>2, <2>3
<1>7. CASE ReadCode(c)
  <2>1. oidcCall[c].pc = "reading" /\ oidcCall[c].op = "exchange"
        /\ oidcCall[c].arg \in DOMAIN codes
    BY <1>1, <1>7 DEF ReadCode, Doing, CallOK, HoldsRows
  <2>2. CASE codes[oidcCall[c].arg].status # "active"
    <3>1. Goes("failed") /\ SameCall(c)
      BY <1>3, <1>7, <2>2 DEF ReadCode, OidcSteps, Moves
    <3> QED
      BY <1>1, <2>1, <3>1 DEF CallOK, StepOK, HoldsRows, QrOps,
       FamilyOps, AccessOps, HoldsConsent, SpendsOnce, Spends, StaysStale, SameCall, qrRows,
       siteRows, Current
  <2>3. CASE codes[oidcCall[c].arg].status = "active"
    <3>1. PICK k : k = oidcCall[c].arg
      OBVIOUS
    <3>2. codes[k].pairwise \in 1..2 /\ codes[k].overdue \in BOOLEAN
      <4>1. codes[k] \in CodeTypes
        BY <2>1, <3>1, RowOfTable DEF OidcInv, OidcTyped, OidcRowsTyped
      <4> QED BY <4>1 DEF CodeTypes
    <3>3. PICK p \in 1..2, pc \in {"expiringCode", "loadUser"} :
            p = codes[k].pairwise /\ pc = IF codes[k].overdue THEN "expiringCode" ELSE "loadUser"
      BY <3>2
    <3>4. oidcCall' = [oidcCall EXCEPT ![c].pairwise = p, ![c].pc = pc]
      BY <1>7, <2>3, <3>1, <3>3 DEF ReadCode
    <3>5. RemembersPairwise(c, pc, p)
      BY <1>1, <3>4 DEF OidcCallsTyped, OidcCallTypes, RemembersPairwise
    <3>7. Moves(c) /\ SameCall(c) /\ oidcCall'[c].pc = pc /\ oidcCall'[c].pairwise = p
      BY <1>1, <3>3, <3>5, CallRemembersPairwise DEF OidcSteps, Moves
    <3>8. oidcUserActive => p = 1
      BY <2>1, <3>1, <3>3 DEF OidcInv, Epochs
    <3> QED
      BY <1>1, <2>1, <2>3, <3>3, <3>7, <3>8 DEF CallOK, StepOK, HoldsRows, QrOps,
       FamilyOps, AccessOps, HoldsConsent, SpendsOnce, Spends, StaysStale, SameCall, qrRows,
       siteRows, Current
  <2> QED BY <2>2, <2>3
<1>8. CASE LoadTokenUser(c)
  <2>1. PICK pc \in {"failed", "consuming", "loadGrant", "ok"} :
          /\ To(c, pc) /\ oidcCall[c].pc = "loadUser"
          /\ oidcCall[c].op \in {"exchange", "refresh", "userInfo"}
          /\ ~oidcUserActive => pc = "failed"
          /\ pc = "consuming" => oidcCall[c].op = "exchange"
          /\ pc = "loadGrant" => oidcCall[c].op = "refresh"
          /\ pc = "ok" => oidcCall[c].op = "userInfo"
    BY <1>1, <1>8 DEF LoadTokenUser, CallOK, StepOK
  <2>2. Goes(pc) /\ SameCall(c) /\ (pc \notin {"ok", "failed"} => Keeps(c))
    BY <1>3, <2>1 DEF OidcSteps, Moves
  <2> QED
    BY <1>1, <2>1, <2>2 DEF CallOK, StepOK, HoldsRows, QrOps,
       FamilyOps, AccessOps, HoldsConsent, SpendsOnce, Spends, StaysStale, SameCall, qrRows,
       siteRows, Current, Keeps, siteRows
<1>9. CASE FindGrant(c)
  <2>1. oidcCall[c].pc = "findGrant" /\ oidcCall[c].op = "exchange"
    BY <1>1, <1>9 DEF FindGrant, CallOK, StepOK
  <2>2. CASE grantRow # 0
    <3>1. RemembersGrant(c, "insertAccess", grant)
      BY <1>2, <1>9, <2>2 DEF FindGrant, RemembersGrant
    <3>3. Moves(c) /\ SameCall(c) /\ oidcCall'[c].pc = "insertAccess"
          /\ oidcCall'[c].grant # 0 /\ oidcCall'[c].pairwise = oidcCall[c].pairwise
      BY <1>1, <1>2, <2>2, <3>1, CallRemembersGrant DEF OidcSteps, Moves
    <3> QED
      BY <1>1, <2>1, <3>3 DEF CallOK, StepOK, HoldsRows, QrOps,
       FamilyOps, AccessOps, HoldsConsent, SpendsOnce, Spends, StaysStale, SameCall, qrRows,
       siteRows, Current
  <2>3. CASE grantRow = 0
    <3>1. Moves(c) /\ SameCall(c) /\ oidcCall'[c].pc = "granting" /\ Keeps(c)
      BY <1>1, <1>9, <2>3, CallSteps DEF FindGrant, OidcSteps, Moves
    <3> QED
      BY <1>1, <2>1, <3>1 DEF CallOK, StepOK, HoldsRows, QrOps,
       FamilyOps, AccessOps, HoldsConsent, SpendsOnce, Spends, StaysStale, SameCall, qrRows,
       siteRows, Current, Keeps
  <2> QED BY <2>2, <2>3
<1>10. CASE FindTokenFamily(c)
  <2>1. oidcCall[c].pc = "reading" /\ oidcCall[c].op = "refresh"
    BY <1>10 DEF FindTokenFamily, Doing
  <2>2. CASE To(c, "failed")
    <3>1. Goes("failed") /\ SameCall(c)
      BY <1>3, <2>2 DEF OidcSteps, Moves
    <3> QED
      BY <1>1, <2>1, <3>1 DEF CallOK, StepOK, HoldsRows, QrOps,
       FamilyOps, AccessOps, HoldsConsent, SpendsOnce, Spends, StaysStale, SameCall, qrRows,
       siteRows, Current
  <2>3. CASE ~To(c, "failed")
    <3>1. PICK f \in DOMAIN tokenFamilies, pc \in {"endReused", "endExpired", "loadUser"} :
            /\ oidcCall' = [oidcCall EXCEPT ![c].row = f, ![c].pc = pc]
            /\ tokenFamilies[f].status = "active"
            /\ pc = "loadUser" => tokenFamilies[f].current = oidcCall[c].arg
      BY <1>10, <2>3 DEF FindTokenFamily, FamiliesOf
    <3>2. f \in Nat
      BY RowOfTable DEF OidcInv, OidcTyped, OidcRowsTyped
    <3>3. RemembersRow(c, pc, f)
      BY <1>1, <3>1 DEF OidcCallsTyped, OidcCallTypes, RemembersRow
    <3>5. Moves(c) /\ SameCall(c) /\ oidcCall'[c].pc = pc /\ oidcCall'[c].row = f
      BY <1>1, <3>1, <3>2, <3>3, CallRemembersRow DEF OidcSteps, Moves
    <3> QED
      BY <1>1, <2>1, <3>1, <3>5 DEF CallOK, StepOK, HoldsRows, QrOps,
       FamilyOps, AccessOps, HoldsConsent, SpendsOnce, Spends, StaysStale, SameCall, qrRows,
       siteRows, Current, siteRows
  <2> QED BY <2>2, <2>3
<1>11. CASE LoadGrant(c)
  <2>0. oidcCall[c].pc = "loadGrant"
    BY <1>11 DEF LoadGrant
  <2>1. oidcCall[c].pc = "loadGrant" /\ oidcCall[c].op = "refresh"
        /\ oidcCall[c].row \in DOMAIN tokenFamilies /\ tokenFamilies[oidcCall[c].row].grant = 1
    <3>1. oidcCall[c].op = "refresh" /\ oidcCall[c].row \in DOMAIN tokenFamilies
      BY <1>1, <2>0 DEF CallOK, StepOK, HoldsRows
    <3> QED BY <2>0, <3>1 DEF OidcInv, Epochs
  <2>2. CASE To(c, "failed")
    <3>1. Goes("failed") /\ SameCall(c)
      BY <1>3, <2>2 DEF OidcSteps, Moves
    <3> QED
      BY <1>1, <2>1, <3>1 DEF CallOK, StepOK, HoldsRows, QrOps,
       FamilyOps, AccessOps, HoldsConsent, SpendsOnce, Spends, StaysStale, SameCall, qrRows,
       siteRows, Current
  <2>3. CASE ~To(c, "failed")
    <3>1. grant = 1 /\ RemembersConsent(c, "rotating", grant, pairwise)
      BY <1>2, <1>11, <2>1, <2>3 DEF LoadGrant, RemembersConsent
    <3>3. Moves(c) /\ SameCall(c) /\ oidcCall'[c].pc = "rotating" /\ oidcCall'[c].grant = 1
          /\ oidcCall'[c].row = oidcCall[c].row
      BY <1>1, <3>1, CallRemembersConsent DEF OidcSteps, Moves
    <3> QED
      BY <1>1, <2>1, <3>3 DEF CallOK, StepOK, HoldsRows, QrOps,
       FamilyOps, AccessOps, HoldsConsent, SpendsOnce, Spends, StaysStale, SameCall, qrRows,
       siteRows, Current
  <2> QED BY <2>2, <2>3
<1>12. CASE ReadAccessToken(c)
  <2>1. PICK pc \in {"failed", "expiringAccess", "loadUser"} :
          /\ To(c, pc) /\ oidcCall[c].pc = "reading" /\ oidcCall[c].op = "userInfo"
          /\ pc # "failed" => accessTokens[oidcCall[c].arg].status = "active"
    BY <1>12 DEF ReadAccessToken, Doing, UsableAccessToken
  <2>2. Goes(pc) /\ SameCall(c)
    BY <1>3, <2>1 DEF OidcSteps, Moves
  <2> QED
    BY <1>1, <2>1, <2>2 DEF CallOK, StepOK, HoldsRows, QrOps,
       FamilyOps, AccessOps, HoldsConsent, SpendsOnce, Spends, StaysStale, SameCall, qrRows,
       siteRows, Current
<1>13. CASE FindFamilyToRevoke(c)
  <2>1. oidcCall[c].pc = "reading" /\ oidcCall[c].op = "revokeRefresh"
    BY <1>13 DEF FindFamilyToRevoke, Doing
  <2>2. CASE To(c, "ok")
    <3>1. Goes("ok") /\ SameCall(c)
      BY <1>3, <2>2 DEF OidcSteps, Moves
    <3> QED
      BY <1>1, <2>1, <3>1 DEF CallOK, StepOK, HoldsRows, QrOps,
       FamilyOps, AccessOps, HoldsConsent, SpendsOnce, Spends, StaysStale, SameCall, qrRows,
       siteRows, Current
  <2>3. CASE ~To(c, "ok")
    <3>1. PICK f \in DOMAIN tokenFamilies :
            RemembersRow(c, "revoking", f)
      BY <1>13, <2>3 DEF FindFamilyToRevoke, FamiliesOf, RemembersRow
    <3>2. f \in Nat
      BY RowOfTable DEF OidcInv, OidcTyped, OidcRowsTyped
    <3>4. Moves(c) /\ SameCall(c) /\ oidcCall'[c].pc = "revoking" /\ oidcCall'[c].row = f
      BY <1>1, <3>1, <3>2, CallRemembersRow DEF OidcSteps, Moves
    <3> QED
      BY <1>1, <2>1, <3>1, <3>4 DEF CallOK, StepOK, HoldsRows, QrOps,
       FamilyOps, AccessOps, HoldsConsent, SpendsOnce, Spends, StaysStale, SameCall, qrRows,
       siteRows, Current
  <2> QED BY <2>2, <2>3
<1> QED BY <1>4, <1>5, <1>6, <1>7, <1>8, <1>9, <1>10, <1>11, <1>12, <1>13 DEF Reading

-----------------------------------------------------------------------------
(* OidcProvider: the steps that write. *)

\* What is there stays there, what was spent or ended stays so, and new
\* refresh tokens have new numbers.
Progress ==
    /\ oidcUserActive' => oidcUserActive
    /\ refreshCount <= refreshCount'
    /\ \A t \in QrTransactions : qr[t].status # "none" => qr'[t].status # "none"
    /\ \A k \in DOMAIN codes :
         k \in DOMAIN codes' /\ (codes'[k].status = "active" => codes[k].status = "active")
    /\ \A a \in DOMAIN accessTokens :
         /\ a \in DOMAIN accessTokens'
         /\ accessTokens'[a].status = "active" => accessTokens[a].status = "active"
    /\ DOMAIN tokenFamilies \subseteq DOMAIN tokenFamilies'
    /\ \A f \in DOMAIN tokenFamilies' :
         \/ tokenFamilies'[f].current > refreshCount
         \/ /\ f \in DOMAIN tokenFamilies
            /\ tokenFamilies'[f].current = tokenFamilies[f].current
            /\ tokenFamilies'[f].status = "active" => tokenFamilies[f].status = "active"

\* A step of c in which it spends nothing.
OidcStep(c) ==
    /\ OidcTyped' /\ Epochs' /\ SingleUse' /\ Progress
    /\ Others(c) /\ CallOK(c)' /\ (Spends(c)' => Spends(c) /\ SameCall(c))

\* Whoever does not move keeps what it holds.
LEMMA OidcCallStays ==
  ASSUME NEW d \in OidcCalls, OidcTyped, CallOK(d), Progress, oidcCall'[d] = oidcCall[d],
         refreshCount' \in Nat
  PROVE  CallOK(d)' /\ (Spends(d)' <=> Spends(d))
<1>1. StepOK(d)' /\ HoldsConsent(d)' /\ (Spends(d)' <=> Spends(d))
  BY DEF CallOK, StepOK, HoldsConsent, Spends, Progress
<1>2. refreshCount \in Nat
  BY DEF OidcTyped, OidcRowsTyped
<1>3. HoldsRows(d)'
  BY <1>2 DEF CallOK, HoldsRows, Progress, QrOps, FamilyOps, AccessOps
<1>4. oidcCall[d].op \in FamilyOps /\ oidcCall[d].pc # "idle" =>
        oidcCall[d].arg \in Nat /\ oidcCall[d].arg <= refreshCount
  BY <1>2 DEF CallOK, HoldsRows
<1>5. oidcCall[d].op = "exchange" /\ oidcCall[d].pc # "idle" =>
        oidcCall[d].arg \in DOMAIN codes
  BY DEF CallOK, HoldsRows
<1>6. oidcCall[d].op = "userInfo" /\ oidcCall[d].pc # "idle" =>
        oidcCall[d].arg \in DOMAIN accessTokens
  BY DEF CallOK, HoldsRows, AccessOps
<1>7. SpendsOnce(d)'
  <2>1. CASE oidcCall[d].op = "exchange"
    BY <1>1, <1>5, <2>1 DEF CallOK, SpendsOnce, Spends, Progress
  <2>2. CASE oidcCall[d].op = "refresh"
    <3>1. SUFFICES ASSUME Spends(d), NEW f \in DOMAIN tokenFamilies'
                   PROVE  tokenFamilies'[f].current # oidcCall[d].arg
      BY <1>1, <2>2 DEF SpendsOnce
    <3>2. oidcCall[d].arg \in Nat /\ oidcCall[d].arg <= refreshCount
      BY <1>4, <2>2, <3>1 DEF Spends, FamilyOps
    <3>3. CASE tokenFamilies'[f].current > refreshCount
      BY <1>2, <3>2, <3>3
    <3>4. CASE f \in DOMAIN tokenFamilies
               /\ tokenFamilies'[f].current = tokenFamilies[f].current
      BY <2>2, <3>1, <3>4 DEF CallOK, SpendsOnce
    <3> QED BY <3>3, <3>4 DEF Progress
  <2> QED BY <2>1, <2>2 DEF SpendsOnce
<1>8. StaysStale(d)'
  <2>1. SUFFICES ASSUME oidcCall[d].stale PROVE StaysStale(d)'
    BY DEF StaysStale
  <2>2. oidcCall[d].pc # "idle" /\ StaysStale(d)
    BY <2>1 DEF CallOK, StaysStale
  <2>3. oidcCall[d].op = "refresh" /\ ~Current(oidcCall[d].arg) => ~Current(oidcCall[d].arg)'
    <3>1. SUFFICES ASSUME oidcCall[d].op = "refresh", ~Current(oidcCall[d].arg),
                          NEW f \in DOMAIN tokenFamilies',
                          tokenFamilies'[f].current = oidcCall[d].arg,
                          tokenFamilies'[f].status = "active"
                   PROVE  FALSE
      BY DEF Current
    <3>2. oidcCall[d].arg \in Nat /\ oidcCall[d].arg <= refreshCount
      BY <1>4, <2>2, <3>1 DEF FamilyOps
    <3>3. CASE tokenFamilies'[f].current > refreshCount
      BY <1>2, <3>1, <3>2, <3>3
    <3>4. CASE /\ f \in DOMAIN tokenFamilies
               /\ tokenFamilies'[f].current = tokenFamilies[f].current
               /\ tokenFamilies'[f].status = "active" => tokenFamilies[f].status = "active"
      BY <3>1, <3>4 DEF Current
    <3> QED BY <3>3, <3>4 DEF Progress
  <2> QED BY <1>5, <1>6, <2>2, <2>3 DEF StaysStale, Progress
<1> QED BY <1>1, <1>3, <1>7, <1>8 DEF CallOK

\* Where no row changes there is progress.
LEMMA ProgressStays ==
  ASSUME OidcTyped, UNCHANGED <<oidcUserActive, qrRows, siteRows>>
  PROVE  Progress
  BY DEF OidcTyped, OidcRowsTyped, Progress, qrRows, siteRows

\* Calls that begin or read.
LEMMA QuietOidcStep ==
  ASSUME NEW c \in OidcCalls, OidcInv, OidcBegins(c) \/ Reading(c)
  PROVE  OidcStep(c)
<1>1. /\ OidcCallsTyped' /\ Others(c) /\ CallOK(c)' /\ (Spends(c)' => Spends(c) /\ SameCall(c))
      /\ UNCHANGED <<oidcUserActive, qrRows, consent, siteRows>>
  BY BeginsOK, ReadingOK DEF Moves
<1>2. Progress
  BY <1>1, ProgressStays DEF OidcInv
<1>3. OidcRowsTyped' /\ Epochs' /\ SingleUse'
  BY <1>1 DEF OidcInv, OidcTyped, OidcRowsTyped, Epochs, SingleUse, qrRows, consent, siteRows
<1> QED BY <1>1, <1>2, <1>3 DEF OidcStep, OidcTyped

\* The row of a transaction changes; one with a code is not denied.
LEMMA QrChanged ==
  ASSUME OidcInv, NEW t \in QrTransactions, NEW row \in QrTypes,
         qr' = [qr EXCEPT ![t] = row], UNCHANGED <<oidcUserActive, codes, consent, siteRows>>,
         qr[t].status # "none" => row.status # "none",
         row.status = "approved" => pairwiseRow # 0,
         qr[t].status \in {"approved", "expired", "deleted"} =>
           row.status \in {"approved", "expired", "deleted"}
  PROVE  OidcRowsTyped' /\ Epochs' /\ SingleUse' /\ Progress
<1>1. qr' \in [QrTransactions -> QrTypes] /\ qr'[t] = row
      /\ \A u \in QrTransactions : u # t => qr'[u] = qr[u]
  BY DEF OidcInv, OidcTyped, OidcRowsTyped
<1>2. OidcRowsTyped'
  BY <1>1 DEF OidcInv, OidcTyped, OidcRowsTyped, consent, siteRows
<1>3. Epochs'
  BY <1>1 DEF OidcInv, Epochs, consent, siteRows
<1>4. SingleUse'
  BY <1>1 DEF OidcInv, SingleUse, siteRows
<1>5. Progress
  BY <1>1 DEF OidcInv, OidcTyped, OidcRowsTyped, Progress, siteRows
<1> QED BY <1>2, <1>3, <1>4, <1>5

\* Approvals, denials and expirations of a transaction.
LEMMA QrStep ==
  ASSUME NEW c \in OidcCalls, OidcInv, ExpireQr(c) \/ ApproveQr(c) \/ DenyQr(c)
  PROVE  OidcStep(c)
<1>1. /\ oidcCall[c].op \in {"approve", "deny", "preview", "poll"}
      /\ oidcCall[c].arg \in QrTransactions /\ qr[oidcCall[c].arg].status # "none"
      /\ oidcCall[c].pc \in {"expiring", "approving", "denying"}
      /\ OidcCallsTyped /\ CallOK(c)
  BY DEF OidcInv, OidcTyped, CallsOK, CallOK, StepOK, HoldsRows, QrOps, ExpireQr, ApproveQr,
         DenyQr
<1>2. PICK pc \in {"failed", "rereading", "ok"} :
        To(c, pc) /\ (pc = "rereading" => oidcCall[c].op \in {"approve", "deny"})
  BY <1>1 DEF ExpireQr, ApproveQr, DenyQr, CallOK, StepOK
<1>3. Moves(c) /\ SameCall(c) /\ oidcCall'[c].pc = pc
  BY <1>1, <1>2, CallGoes DEF OidcSteps, Moves
<1>4. UNCHANGED <<oidcUserActive, codes, consent, siteRows>>
  BY DEF ExpireQr, ApproveQr, DenyQr
<1>5. PICK t \in QrTransactions : t = oidcCall[c].arg
  BY <1>1
<1>6. qr \in [QrTransactions -> QrTypes] /\ qr[t] \in QrTypes
  BY DEF OidcInv, OidcTyped, OidcRowsTyped
<1>7. OidcRowsTyped' /\ Epochs' /\ SingleUse' /\ Progress
  <2>1. CASE UNCHANGED qr
    <3>1. Progress
      BY <1>4, <2>1, ProgressStays DEF OidcInv, qrRows
    <3> QED
      BY <1>4, <2>1, <3>1 DEF OidcInv, OidcTyped, OidcRowsTyped, Epochs, SingleUse, consent,
         siteRows
  <2>2. CASE ~UNCHANGED qr /\ ExpireQr(c)
    <3> DEFINE row == [qr[t] EXCEPT !.status = "expired"]
    <3>1. qr' = [qr EXCEPT ![t] = row] /\ row \in QrTypes /\ row.status = "expired"
      BY <1>5, <1>6, <2>2 DEF ExpireQr, QrTypes
    <3>2. PICK next \in QrTypes : next = row
      BY <3>1
    <3> HIDE DEF row
    <3>3. qr' = [qr EXCEPT ![t] = next] /\ next.status = "expired"
      BY <3>1, <3>2
    <3> QED BY <1>4, <3>3, QrChanged
  <2>3. CASE ~UNCHANGED qr /\ DenyQr(c)
    <3>1. PICK row \in QrTypes :
            row.status = "denied" /\ qr' = [qr EXCEPT ![t] = row] /\ qr[t].status = "pending"
      BY <1>5, <2>3 DEF DenyQr, QrTypes
    <3> QED BY <1>4, <3>1, QrChanged
  <2>4. CASE ~UNCHANGED qr /\ ApproveQr(c)
    <3>1. PICK row \in QrTypes :
            row.status = "approved" /\ qr' = [qr EXCEPT ![t] = row] /\ qr[t].status = "pending"
      BY <1>5, <2>4 DEF ApproveQr, QrTypes
    <3>2. pairwiseRow # 0
      BY <1>1, <2>4 DEF ApproveQr, ReferencesExist, CallOK, StepOK, HoldsConsent
    <3> QED BY <1>4, <3>1, <3>2, QrChanged
  <2> QED BY <2>1, <2>2, <2>3, <2>4
<1>8. CallOK(c)' /\ ~Spends(c)'
  <2>1. qr'[oidcCall[c].arg].status # "none"
    BY <1>1, <1>7 DEF Progress
  <2> QED
    BY <1>1, <1>2, <1>3, <2>1 DEF CallOK, StepOK, HoldsRows, QrOps, FamilyOps, AccessOps,
       HoldsConsent, SpendsOnce, Spends, StaysStale, SameCall
<1> QED BY <1>3, <1>7, <1>8 DEF OidcStep, OidcTyped, Moves

\* The pairwise subject and the grant are made in the epoch of the account.
LEMMA ConsentStep ==
  ASSUME NEW c \in OidcCalls, OidcInv, InsertPairwise(c) \/ UpsertGrant(c)
  PROVE  OidcStep(c)
<1>1. /\ oidcCall[c] \in OidcCallTypes /\ OidcCallsTyped /\ CallOK(c)
      /\ pairwiseRow \in 0..2 /\ grantRow \in 0..2 /\ oidcUserActive \in BOOLEAN
      /\ UNCHANGED <<oidcUserActive, qrRows, siteRows>>
  BY DEF OidcInv, OidcTyped, OidcCallsTyped, OidcRowsTyped, CallsOK, InsertPairwise, UpsertGrant
<1>2. Progress
  BY <1>1, ProgressStays DEF OidcInv
<1>3. CASE InsertPairwise(c)
  <2>0. pairwiseRow' = (IF pairwiseRow = 0 THEN OidcEpoch ELSE pairwiseRow)
        /\ UNCHANGED grantRow
    BY <1>3 DEF InsertPairwise
  <2>1. pairwiseRow' \in 1..2
    BY <1>1, <2>0 DEF OidcEpoch
  <2>2. PICK p \in 0..2 : p = pairwiseRow'
    BY <2>1
  <2>3. RemembersPairwise(c, "granting", p)
    BY <1>3, <2>2 DEF InsertPairwise, RemembersPairwise
  <2>4. Moves(c) /\ SameCall(c) /\ oidcCall'[c].pc = "granting" /\ oidcCall'[c].pairwise # 0
    BY <1>1, <2>1, <2>2, <2>3, CallRemembersPairwise DEF OidcSteps, Moves
  <2>5. oidcCall[c].pc = "insertPairwise" /\ oidcCall[c].op = "approve"
    BY <1>1, <1>3 DEF InsertPairwise, CallOK, StepOK
  <2>6. CallOK(c)' /\ ~Spends(c)'
    BY <1>1, <2>4, <2>5 DEF CallOK, StepOK, HoldsRows, QrOps, FamilyOps, AccessOps,
       HoldsConsent, SpendsOnce, Spends, StaysStale, SameCall, qrRows
  <2>7. OidcRowsTyped' /\ Epochs' /\ SingleUse'
    BY <1>1, <2>0, <2>1 DEF OidcInv, OidcTyped, OidcRowsTyped, Epochs, OidcEpoch, SingleUse,
       qrRows, siteRows
  <2> QED BY <1>2, <2>4, <2>6, <2>7 DEF OidcStep, OidcTyped, Moves
<1>4. CASE UpsertGrant(c)
  <2>1. oidcCall[c].pc = "granting" /\ oidcCall[c].op \in {"approve", "exchange"}
    BY <1>1, <1>4 DEF UpsertGrant, CallOK, StepOK
  <2>2. UNCHANGED pairwiseRow
    BY <1>4 DEF UpsertGrant
  <2>3. CASE oidcCall[c].pairwise # pairwiseRow
    <3>1. To(c, "failed") /\ UNCHANGED grantRow
      BY <1>4, <2>3 DEF UpsertGrant
    <3>2. Moves(c) /\ SameCall(c) /\ oidcCall'[c].pc = "failed"
      BY <1>1, <3>1, CallGoes DEF OidcSteps, Moves
    <3>3. CallOK(c)' /\ ~Spends(c)'
      BY <1>1, <2>1, <3>2 DEF CallOK, StepOK, HoldsRows, QrOps, FamilyOps, AccessOps,
         HoldsConsent, SpendsOnce, Spends, StaysStale, SameCall, qrRows
    <3>4. OidcRowsTyped' /\ Epochs' /\ SingleUse'
      BY <1>1, <2>2, <3>1 DEF OidcInv, OidcTyped, OidcRowsTyped, Epochs, SingleUse, qrRows,
         siteRows
    <3> QED BY <1>2, <3>2, <3>3, <3>4 DEF OidcStep, OidcTyped, Moves
  <2>4. CASE oidcCall[c].pairwise = pairwiseRow
    <3>1. grantRow' = (IF grantRow = 0 THEN OidcEpoch ELSE grantRow) /\ grantRow' \in 1..2
      BY <1>1, <1>4, <2>4 DEF UpsertGrant, OidcEpoch
    <3>2. PICK grant \in 0..2, pc \in {"approving", "insertAccess"} :
            grant = grantRow' /\ pc = IF oidcCall[c].op = "approve" THEN "approving"
                                                                    ELSE "insertAccess"
      BY <3>1
    <3>3. oidcCall' = [oidcCall EXCEPT ![c].grant = grant, ![c].pc = pc]
      BY <1>4, <2>4, <3>2 DEF UpsertGrant
    <3>4. RemembersGrant(c, pc, grant)
      BY <1>1, <3>3 DEF OidcCallsTyped, OidcCallTypes, RemembersGrant
    <3>5. /\ Moves(c) /\ SameCall(c) /\ oidcCall'[c].pc = pc /\ oidcCall'[c].grant # 0
          /\ oidcCall'[c].pairwise = oidcCall[c].pairwise
      BY <1>1, <3>1, <3>2, <3>4, CallRemembersGrant DEF OidcSteps, Moves
    <3>6. CallOK(c)' /\ (Spends(c)' => Spends(c))
      BY <1>1, <2>1, <3>2, <3>5 DEF CallOK, StepOK, HoldsRows, QrOps, FamilyOps, AccessOps,
         HoldsConsent, SpendsOnce, Spends, StaysStale, SameCall, qrRows
    <3>7. OidcRowsTyped' /\ Epochs' /\ SingleUse'
      BY <1>1, <2>2, <3>1 DEF OidcInv, OidcTyped, OidcRowsTyped, Epochs, OidcEpoch, SingleUse,
         qrRows, siteRows
    <3> QED BY <1>2, <3>5, <3>6, <3>7 DEF OidcStep, OidcTyped, Moves
  <2> QED BY <2>3, <2>4
<1> QED BY <1>3, <1>4

\* A code changes its status or passes its deadline.
LEMMA CodeChanged ==
  ASSUME OidcInv, NEW k \in DOMAIN codes, NEW row \in CodeTypes,
         codes' = [codes EXCEPT ![k] = row],
         row.qr = codes[k].qr, row.pairwise = codes[k].pairwise,
         row.status = "active" => codes[k].status = "active",
         UNCHANGED <<oidcUserActive, qr, consent, siteRows>>
  PROVE  /\ OidcRowsTyped' /\ Epochs' /\ SingleUse' /\ Progress
         /\ DOMAIN codes' = DOMAIN codes /\ codes'[k].status = row.status
<1>1. /\ codes' \in Seq(CodeTypes) /\ DOMAIN codes' = DOMAIN codes /\ codes'[k] = row
      /\ \A m \in DOMAIN codes : m # k => codes'[m] = codes[m]
  <2>1. PICK old, next : old = codes /\ next = codes'
    OBVIOUS
  <2>2. old \in Seq(CodeTypes) /\ next = [old EXCEPT ![k] = row] /\ k \in DOMAIN old
    BY <2>1 DEF OidcInv, OidcTyped, OidcRowsTyped
  <2> QED BY <2>1, <2>2, RowUpdated
<1>2. \A m \in DOMAIN codes : /\ codes'[m].qr = codes[m].qr
                              /\ codes'[m].pairwise = codes[m].pairwise
                              /\ codes'[m].status = "active" => codes[m].status = "active"
  BY <1>1
<1>3. OidcRowsTyped'
  BY <1>1 DEF OidcInv, OidcTyped, OidcRowsTyped, consent, siteRows
<1>4. Epochs'
  BY <1>1, <1>2 DEF OidcInv, Epochs, consent, siteRows
<1>5. SingleUse'
  BY <1>1, <1>2 DEF OidcInv, SingleUse, siteRows
<1>6. Progress
  BY <1>1, <1>2 DEF OidcInv, OidcTyped, OidcRowsTyped, Progress, siteRows
<1> QED BY <1>1, <1>3, <1>4, <1>5, <1>6

\* The one code of a transaction is made.
LEMMA DeliverStep ==
  ASSUME NEW c \in OidcCalls, OidcInv, DeliverCode(c)
  PROVE  OidcStep(c)
<1>1. /\ oidcCall[c].op = "poll" /\ oidcCall[c].pc = "delivering"
      /\ oidcCall[c].arg \in QrTransactions /\ qr[oidcCall[c].arg].status # "none"
      /\ OidcCallsTyped /\ CallOK(c)
      /\ UNCHANGED <<oidcUserActive, qr, consent, siteRows>>
  BY DEF OidcInv, OidcTyped, CallsOK, CallOK, StepOK, HoldsRows, QrOps, DeliverCode
<1>2. PICK pc \in {"ok", "failed"} : To(c, pc)
  BY DEF DeliverCode
<1>3. Moves(c) /\ SameCall(c) /\ oidcCall'[c].pc = pc
  BY <1>1, <1>2, CallGoes DEF OidcSteps, Moves
<1>4. CallOK(c)' /\ ~Spends(c)'
  BY <1>1, <1>3 DEF CallOK, StepOK, HoldsRows, QrOps, FamilyOps, AccessOps, HoldsConsent,
     SpendsOnce, Spends, StaysStale, SameCall
<1>5. CASE UNCHANGED codes
  <2>1. Progress
    BY <1>1, <1>5, ProgressStays DEF OidcInv, qrRows
  <2>2. OidcRowsTyped' /\ Epochs' /\ SingleUse'
    BY <1>1, <1>5 DEF OidcInv, OidcTyped, OidcRowsTyped, Epochs, SingleUse, consent, siteRows
  <2> QED BY <1>3, <1>4, <2>1, <2>2 DEF OidcStep, OidcTyped, Moves
<1>6. CASE ~UNCHANGED codes
  <2>1. PICK t \in QrTransactions : t = oidcCall[c].arg
    BY <1>1
  <2>2. /\ qr[t].status = "approved" /\ CodesOf(t) = {}
        /\ codes' = Append(codes, [qr |-> t, status |-> "active", overdue |-> FALSE,
                                   pairwise |-> pairwiseRow])
    BY <1>6, <2>1 DEF DeliverCode, Deliverable
  <2>3. pairwiseRow \in 1..2 /\ (oidcUserActive => pairwiseRow = 1)
    BY <2>2 DEF OidcInv, OidcTyped, OidcRowsTyped, Epochs
  <2>4. PICK row \in CodeTypes :
          /\ row = [qr |-> t, status |-> "active", overdue |-> FALSE, pairwise |-> pairwiseRow]
          /\ row.qr = t /\ row.pairwise = pairwiseRow
    <3>1. PICK p \in 1..2 : p = pairwiseRow
      BY <2>3
    <3> DEFINE row == [qr |-> t, status |-> "active", overdue |-> FALSE, pairwise |-> p]
    <3>2. row \in CodeTypes /\ row.qr = t /\ row.pairwise = p
      BY DEF CodeTypes
    <3> QED BY <3>1, <3>2
  <2>5. PICK old, next, n : old = codes /\ next = codes' /\ n = Len(codes) + 1
    OBVIOUS
  <2>6. old \in Seq(CodeTypes) /\ next = Append(old, row)
    BY <2>2, <2>4, <2>5 DEF OidcInv, OidcTyped, OidcRowsTyped
  <2>7. /\ codes' \in Seq(CodeTypes) /\ DOMAIN codes' = DOMAIN codes \cup {n}
        /\ n \notin DOMAIN codes /\ codes'[n] = row
        /\ \A m \in DOMAIN codes : codes'[m] = codes[m]
    BY <2>5, <2>6, RowInserted
  <2>8. OidcRowsTyped'
    BY <1>1, <2>7 DEF OidcInv, OidcTyped, OidcRowsTyped, consent, siteRows
  <2>9. Epochs'
    BY <1>1, <2>3, <2>4, <2>7 DEF OidcInv, Epochs, consent, siteRows
  <2>10. SingleUse'
    <3>1. \A m \in DOMAIN codes : codes[m].qr # t
      BY <2>2 DEF CodesOf
    <3> QED BY <1>1, <2>2, <2>4, <2>7, <3>1 DEF OidcInv, SingleUse, siteRows
  <2>11. Progress
    BY <1>1, <2>7 DEF OidcInv, OidcTyped, OidcRowsTyped, Progress, siteRows
  <2> QED BY <1>3, <1>4, <2>8, <2>9, <2>10, <2>11 DEF OidcStep, OidcTyped, Moves
<1> QED BY <1>5, <1>6

\* A step of c in which it spends a code or a refresh token.
Spending(c) ==
    /\ OidcTyped' /\ Epochs' /\ SingleUse' /\ Progress
    /\ Others(c) /\ SameCall(c) /\ CallOK(c)'
    /\ \/ oidcCall[c].op = "exchange" /\ codes[oidcCall[c].arg].status = "active"
       \/ oidcCall[c].op = "refresh" /\ Current(oidcCall[c].arg)

\* A code is expired or consumed.
LEMMA CodeStep ==
  ASSUME NEW c \in OidcCalls, OidcInv, ExpireCode(c) \/ ConsumeCode(c)
  PROVE  OidcStep(c) \/ Spending(c)
<1>1. /\ oidcCall[c].op = "exchange" /\ oidcCall[c].pc \in {"expiringCode", "consuming"}
      /\ oidcCall[c].arg \in DOMAIN codes
      /\ OidcCallsTyped /\ CallOK(c)
      /\ UNCHANGED <<oidcUserActive, qr, consent, siteRows>>
  BY DEF OidcInv, OidcTyped, CallsOK, CallOK, StepOK, HoldsRows, ExpireCode, ConsumeCode
<1>2. PICK k \in DOMAIN codes : k = oidcCall[c].arg
  BY <1>1
<1>3. codes[k] \in CodeTypes
  BY RowOfTable DEF OidcInv, OidcTyped, OidcRowsTyped
<1>4. PICK pc \in {"failed", "findGrant"} :
        /\ To(c, pc)
        /\ pc = "findGrant" => oidcCall[c].pc = "consuming" /\ codes[k].status = "active"
                               /\ codes' = [codes EXCEPT ![k].status = "consumed"]
        /\ \/ UNCHANGED codes
           \/ codes[k].status = "active"
              /\ \E s \in {"expired", "consumed"} : codes' = [codes EXCEPT ![k].status = s]
  BY <1>2 DEF ExpireCode, ConsumeCode, MoveCode, Consumable
<1>5. Moves(c) /\ SameCall(c) /\ oidcCall'[c].pc = pc /\ (pc = "findGrant" => Keeps(c))
  BY <1>1, <1>4, CallGoes DEF OidcSteps, Moves
<1>6. /\ OidcRowsTyped' /\ Epochs' /\ SingleUse' /\ Progress /\ DOMAIN codes' = DOMAIN codes
      /\ pc = "findGrant" => codes'[k].status # "active"
  <2>1. CASE UNCHANGED codes
    <3>1. Progress
      BY <1>1, <2>1, ProgressStays DEF OidcInv, qrRows
    <3>2. pc # "findGrant"
      <4>1. SUFFICES ASSUME pc = "findGrant" PROVE FALSE
        OBVIOUS
      <4>2. codes'[k].status = "consumed"
        BY <1>3, <1>4, <4>1 DEF CodeTypes
      <4> QED BY <1>4, <2>1, <4>1, <4>2
    <3> QED
      BY <1>1, <2>1, <3>1, <3>2 DEF OidcInv, OidcTyped, OidcRowsTyped, Epochs, SingleUse,
         consent, siteRows
  <2>2. CASE ~UNCHANGED codes
    <3>1. PICK s \in {"expired", "consumed"} : codes' = [codes EXCEPT ![k].status = s]
      BY <1>4, <2>2
    <3>2. PICK row \in CodeTypes : row = [codes[k] EXCEPT !.status = s]
      BY <1>3 DEF CodeTypes
    <3>3. row.status = s /\ row.qr = codes[k].qr /\ row.pairwise = codes[k].pairwise
          /\ codes' = [codes EXCEPT ![k] = row]
      BY <1>3, <3>1, <3>2 DEF CodeTypes
    <3> QED BY <1>1, <3>3, CodeChanged
  <2> QED BY <2>1, <2>2
<1>7. CallOK(c)'
  BY <1>1, <1>2, <1>4, <1>5, <1>6 DEF CallOK, StepOK, HoldsRows, QrOps, FamilyOps, AccessOps,
     HoldsConsent, SpendsOnce, Spends, StaysStale, SameCall, Keeps
<1>8. CASE pc = "findGrant"
  BY <1>1, <1>2, <1>4, <1>5, <1>6, <1>7, <1>8 DEF Spending, OidcTyped, Moves
<1>9. CASE pc = "failed"
  <2>1. ~Spends(c)'
    BY <1>1, <1>5, <1>9 DEF Spends, SameCall
  <2> QED BY <1>5, <1>6, <1>7, <2>1 DEF OidcStep, OidcTyped, Moves
<1> QED BY <1>8, <1>9

\* An access token ends or passes its deadline.
LEMMA AccessTokenChanged ==
  ASSUME OidcInv, NEW a \in DOMAIN accessTokens, NEW row \in AccessTypes,
         accessTokens' = [accessTokens EXCEPT ![a] = row],
         row.status = "active" => accessTokens[a].status = "active",
         accessTokens[a].status = "deleted" => row.status = "deleted",
         UNCHANGED <<oidcUserActive, qrRows, consent, tokenFamilies, refreshCount, held>>
  PROVE  OidcRowsTyped' /\ Epochs' /\ SingleUse' /\ Progress
<1>1. /\ accessTokens' \in Seq(AccessTypes) /\ DOMAIN accessTokens' = DOMAIN accessTokens
      /\ accessTokens'[a] = row
      /\ \A m \in DOMAIN accessTokens : m # a => accessTokens'[m] = accessTokens[m]
  <2>1. PICK old, next : old = accessTokens /\ next = accessTokens'
    OBVIOUS
  <2>2. old \in Seq(AccessTypes) /\ next = [old EXCEPT ![a] = row] /\ a \in DOMAIN old
    BY <2>1 DEF OidcInv, OidcTyped, OidcRowsTyped
  <2> QED BY <2>1, <2>2, RowUpdated
<1>2. \A m \in DOMAIN accessTokens :
        /\ accessTokens'[m].status = "active" => accessTokens[m].status = "active"
        /\ accessTokens[m].status = "deleted" => accessTokens'[m].status = "deleted"
  BY <1>1
<1>3. OidcRowsTyped'
  BY <1>1 DEF OidcInv, OidcTyped, OidcRowsTyped, consent, qrRows
<1>4. Epochs'
  BY <1>1, <1>2 DEF OidcInv, Epochs, consent, qrRows
<1>5. SingleUse'
  BY DEF OidcInv, SingleUse, qrRows
<1>6. Progress
  BY <1>1, <1>2 DEF OidcInv, OidcTyped, OidcRowsTyped, Progress, qrRows
<1> QED BY <1>3, <1>4, <1>5, <1>6

\* An access token is made only while the account is there.
LEMMA InsertAccessStep ==
  ASSUME NEW c \in OidcCalls, OidcInv, InsertAccessToken(c)
  PROVE  OidcStep(c)
<1>1. /\ oidcCall[c].op \in {"exchange", "refresh"} /\ oidcCall[c].pc = "insertAccess"
      /\ OidcCallsTyped /\ CallOK(c) /\ oidcCall[c] \in OidcCallTypes
      /\ UNCHANGED <<oidcUserActive, qrRows, consent, tokenFamilies, refreshCount>>
  BY DEF OidcInv, OidcTyped, OidcCallsTyped, CallsOK, CallOK, StepOK, InsertAccessToken
<1>2. ~oidcCall[c].stale
  BY <1>1 DEF CallOK, StaysStale
<1>3. CASE ~ReferencesExist(c)
  <2>1. To(c, "failed") /\ UNCHANGED <<accessTokens, held>>
    BY <1>3 DEF InsertAccessToken
  <2>2. Moves(c) /\ SameCall(c) /\ oidcCall'[c].pc = "failed"
    BY <1>1, <2>1, CallGoes DEF OidcSteps, Moves
  <2>3. CallOK(c)' /\ ~Spends(c)'
    BY <1>1, <1>2, <2>1, <2>2 DEF CallOK, StepOK, HoldsRows, QrOps, FamilyOps, AccessOps,
       HoldsConsent, SpendsOnce, Spends, StaysStale, SameCall, qrRows
  <2>4. Progress
    BY <1>1, <2>1, ProgressStays DEF OidcInv, siteRows
  <2>5. OidcRowsTyped' /\ Epochs' /\ SingleUse'
    BY <1>1, <2>1 DEF OidcInv, OidcTyped, OidcRowsTyped, Epochs, SingleUse, consent, qrRows
  <2> QED BY <2>2, <2>3, <2>4, <2>5 DEF OidcStep, OidcTyped, Moves
<1>4. CASE ReferencesExist(c)
  <2>1. PICK old, next, a : old = accessTokens /\ next = accessTokens' /\ a = Len(accessTokens) + 1
    OBVIOUS
  <2>2. PICK row \in AccessTypes : row = [status |-> "active", overdue |-> FALSE]
    BY DEF AccessTypes
  <2>3. /\ old \in Seq(AccessTypes) /\ next = Append(old, row)
        /\ \/ oidcCall[c].op = "exchange" /\ RemembersToken(c, "insertFamily", a) /\ held' = held
           \/ oidcCall[c].op = "refresh" /\ To(c, "ok")
              /\ held' = [access |-> held.access \cup {a},
                          refresh |-> held.refresh \cup {oidcCall[c].access}]
    BY <1>1, <1>4, <2>1, <2>2 DEF InsertAccessToken, RemembersToken, OidcInv, OidcTyped,
       OidcRowsTyped
  <2>4. /\ accessTokens' \in Seq(AccessTypes)
        /\ DOMAIN accessTokens' = DOMAIN accessTokens \cup {a}
        /\ a \notin DOMAIN accessTokens /\ a \in Nat
        /\ \A m \in DOMAIN accessTokens : accessTokens'[m] = accessTokens[m]
    BY <2>1, <2>3, RowInserted, RowOfTable
  <2>5. oidcUserActive
    BY <1>1, <1>4 DEF CallOK, HoldsConsent, ReferencesExist, OidcInv, Epochs
  <2>6. Epochs' /\ SingleUse'
    BY <1>1, <2>4, <2>5 DEF OidcInv, Epochs, SingleUse, consent, qrRows
  <2>7. Progress
    BY <1>1, <2>4 DEF OidcInv, OidcTyped, OidcRowsTyped, Progress, qrRows
  <2>8. CASE oidcCall[c].op = "exchange"
    <3>1. /\ Moves(c) /\ SameCall(c) /\ oidcCall'[c].pc = "insertFamily"
          /\ oidcCall'[c].access = a /\ oidcCall'[c].pairwise = oidcCall[c].pairwise
          /\ oidcCall'[c].grant = oidcCall[c].grant
      BY <1>1, <2>3, <2>4, <2>8, CallRemembersToken DEF OidcSteps, Moves
    <3>2. oidcCall[c].grant = 1
      BY <1>1, <1>4, <2>5, <2>8 DEF CallOK, HoldsConsent, ReferencesExist, OidcInv, Epochs,
         OidcTyped, OidcRowsTyped
    <3>3. CallOK(c)' /\ (Spends(c)' => Spends(c))
      BY <1>1, <1>2, <2>4, <2>8, <3>1, <3>2 DEF CallOK, StepOK, HoldsRows, QrOps, FamilyOps,
         AccessOps, HoldsConsent, SpendsOnce, Spends, StaysStale, SameCall, qrRows
    <3>4. OidcRowsTyped'
      BY <1>1, <2>3, <2>4, <2>8 DEF OidcInv, OidcTyped, OidcRowsTyped, consent, qrRows
    <3> QED BY <2>6, <2>7, <3>1, <3>3, <3>4 DEF OidcStep, OidcTyped, Moves
  <2>9. CASE oidcCall[c].op = "refresh"
    <3>1. Moves(c) /\ SameCall(c) /\ oidcCall'[c].pc = "ok"
      BY <1>1, <2>3, <2>9, CallGoes DEF OidcSteps, Moves
    <3>2. oidcCall[c].access \in 1..refreshCount
      BY <1>1, <2>9 DEF CallOK, HoldsRows
    <3>3. CallOK(c)' /\ (Spends(c)' => Spends(c))
      BY <1>1, <1>2, <2>4, <2>9, <3>1 DEF CallOK, StepOK, HoldsRows, QrOps, FamilyOps,
         AccessOps, HoldsConsent, SpendsOnce, Spends, StaysStale, SameCall, qrRows
    <3>4. OidcRowsTyped'
      BY <1>1, <2>3, <2>4, <2>9, <3>2 DEF OidcInv, OidcTyped, OidcRowsTyped, consent, qrRows
    <3> QED BY <2>6, <2>7, <3>1, <3>3, <3>4 DEF OidcStep, OidcTyped, Moves
  <2> QED BY <1>1, <2>8, <2>9
<1> QED BY <1>3, <1>4

\* An access token is expired or revoked.
LEMMA EndAccessStep ==
  ASSUME NEW c \in OidcCalls, OidcInv, EndAccessToken(c)
  PROVE  OidcStep(c)
<1>1. /\ oidcCall[c].op \in {"userInfo", "revokeAccess"}
      /\ oidcCall[c].pc \in {"expiringAccess", "reading"}
      /\ oidcCall[c].arg \in DOMAIN accessTokens
      /\ OidcCallsTyped /\ CallOK(c)
      /\ UNCHANGED <<oidcUserActive, qrRows, consent, tokenFamilies, refreshCount, held>>
  BY DEF OidcInv, OidcTyped, CallsOK, CallOK, StepOK, HoldsRows, AccessOps, EndAccessToken, Doing
<1>2. PICK pc \in {"failed", "ok"} :
        To(c, pc) /\ (pc = "ok" => oidcCall[c].op = "revokeAccess")
  BY <1>1 DEF EndAccessToken, Doing
<1>3. Moves(c) /\ SameCall(c) /\ oidcCall'[c].pc = pc
  BY <1>1, <1>2, CallGoes DEF OidcSteps, Moves
<1>4. PICK a \in DOMAIN accessTokens : a = oidcCall[c].arg
  BY <1>1
<1>5. accessTokens[a] \in AccessTypes
  BY RowOfTable DEF OidcInv, OidcTyped, OidcRowsTyped
<1>6. OidcRowsTyped' /\ Epochs' /\ SingleUse' /\ Progress
  <2>1. CASE UNCHANGED accessTokens
    <3>1. Progress
      BY <1>1, <2>1, ProgressStays DEF OidcInv, siteRows
    <3> QED
      BY <1>1, <2>1, <3>1 DEF OidcInv, OidcTyped, OidcRowsTyped, Epochs, SingleUse, consent, qrRows
  <2>2. CASE ~UNCHANGED accessTokens
    <3>1. PICK s \in {"expired", "revoked"} :
            accessTokens' = [accessTokens EXCEPT ![a].status = s]
            /\ accessTokens[a].status = "active"
      BY <1>4, <2>2 DEF EndAccessToken
    <3>2. PICK row \in AccessTypes : row = [accessTokens[a] EXCEPT !.status = s]
      BY <1>5 DEF AccessTypes
    <3>3. row.status = s /\ accessTokens' = [accessTokens EXCEPT ![a] = row]
      BY <1>5, <3>1, <3>2 DEF AccessTypes
    <3> QED BY <1>1, <3>1, <3>3, AccessTokenChanged
  <2> QED BY <2>1, <2>2
<1>7. CallOK(c)' /\ ~Spends(c)'
  <2>1. oidcCall'[c].arg \in DOMAIN accessTokens'
        /\ (accessTokens'[oidcCall'[c].arg].status = "active" =>
              accessTokens[oidcCall[c].arg].status = "active")
    BY <1>1, <1>3, <1>6 DEF SameCall, Progress
  <2> QED
    BY <1>1, <1>2, <1>3, <2>1 DEF CallOK, StepOK, HoldsRows, QrOps, FamilyOps, AccessOps,
       HoldsConsent, SpendsOnce, Spends, StaysStale, SameCall
<1> QED BY <1>3, <1>6, <1>7 DEF OidcStep, OidcTyped, Moves

\* The families stay of their type when tokens are made.
LEMMA FamiliesTyped ==
  ASSUME NEW m \in Nat, NEW n \in Nat, m <= n, NEW rows \in Seq(TokenFamilyTypes(m))
  PROVE  rows \in Seq(TokenFamilyTypes(n))
<1>1. TokenFamilyTypes(m) \subseteq TokenFamilyTypes(n)
  BY DEF TokenFamilyTypes
<1> QED BY <1>1, SeqMonotonic

\* A family ends or passes its deadline.
LEMMA FamilyChanged ==
  ASSUME OidcInv, NEW f \in DOMAIN tokenFamilies, NEW row \in TokenFamilyTypes(refreshCount),
         tokenFamilies' = [tokenFamilies EXCEPT ![f] = row],
         row.current = tokenFamilies[f].current, row.grant = tokenFamilies[f].grant,
         row.status = "active" => tokenFamilies[f].status = "active",
         tokenFamilies[f].status = "deleted" => row.status = "deleted",
         UNCHANGED <<oidcUserActive, qrRows, consent, accessTokens, refreshCount, held>>
  PROVE  OidcRowsTyped' /\ Epochs' /\ SingleUse' /\ Progress
<1>1. /\ tokenFamilies' \in Seq(TokenFamilyTypes(refreshCount))
      /\ DOMAIN tokenFamilies' = DOMAIN tokenFamilies /\ tokenFamilies'[f] = row
      /\ \A m \in DOMAIN tokenFamilies : m # f => tokenFamilies'[m] = tokenFamilies[m]
  <2>1. PICK old, next, T : old = tokenFamilies /\ next = tokenFamilies'
                             /\ T = TokenFamilyTypes(refreshCount)
    OBVIOUS
  <2>2. old \in Seq(T) /\ next = [old EXCEPT ![f] = row] /\ f \in DOMAIN old /\ row \in T
    BY <2>1 DEF OidcInv, OidcTyped, OidcRowsTyped
  <2> QED BY <2>1, <2>2, RowUpdated
<1>2. \A m \in DOMAIN tokenFamilies :
        /\ tokenFamilies'[m].current = tokenFamilies[m].current
        /\ tokenFamilies'[m].grant = tokenFamilies[m].grant
        /\ tokenFamilies'[m].status = "active" => tokenFamilies[m].status = "active"
        /\ tokenFamilies[m].status = "deleted" => tokenFamilies'[m].status = "deleted"
  BY <1>1
<1>3. OidcRowsTyped'
  BY <1>1 DEF OidcInv, OidcTyped, OidcRowsTyped, consent, qrRows
<1>4. Epochs'
  BY <1>1, <1>2 DEF OidcInv, Epochs, consent, qrRows
<1>5. SingleUse'
  BY <1>1, <1>2 DEF OidcInv, SingleUse, qrRows
<1>6. Progress
  BY <1>1, <1>2 DEF OidcInv, OidcTyped, OidcRowsTyped, Progress, qrRows
<1> QED BY <1>3, <1>4, <1>5, <1>6

\* A family of a reused or expired token ends, or one that is revoked.
LEMMA EndFamilyStep ==
  ASSUME NEW c \in OidcCalls, OidcInv, EndTokenFamily(c) \/ RevokeTokenFamily(c)
  PROVE  OidcStep(c)
<1>1. /\ oidcCall[c].op \in {"refresh", "revokeRefresh"}
      /\ oidcCall[c].pc \in {"endReused", "endExpired", "revoking"}
      /\ oidcCall[c].row \in DOMAIN tokenFamilies
      /\ OidcCallsTyped /\ CallOK(c)
      /\ UNCHANGED <<oidcUserActive, qrRows, consent, accessTokens, refreshCount, held>>
  BY DEF OidcInv, OidcTyped, CallsOK, CallOK, StepOK, HoldsRows, EndTokenFamily,
         RevokeTokenFamily
<1>2. PICK pc \in {"failed", "ok"} :
        To(c, pc) /\ (pc = "ok" => oidcCall[c].op = "revokeRefresh")
  BY <1>1 DEF EndTokenFamily, RevokeTokenFamily, CallOK, StepOK
<1>3. Moves(c) /\ SameCall(c) /\ oidcCall'[c].pc = pc
  BY <1>1, <1>2, CallGoes DEF OidcSteps, Moves
<1>4. PICK f \in DOMAIN tokenFamilies : f = oidcCall[c].row
  BY <1>1
<1>5. tokenFamilies[f] \in TokenFamilyTypes(refreshCount)
  BY RowOfTable DEF OidcInv, OidcTyped, OidcRowsTyped
<1>6. OidcRowsTyped' /\ Epochs' /\ SingleUse' /\ Progress
  <2>1. CASE UNCHANGED tokenFamilies
    <3>1. Progress
      BY <1>1, <2>1, ProgressStays DEF OidcInv, siteRows
    <3> QED
      BY <1>1, <2>1, <3>1 DEF OidcInv, OidcTyped, OidcRowsTyped, Epochs, SingleUse, consent,
         qrRows
  <2>2. CASE ~UNCHANGED tokenFamilies
    <3>1. PICK s \in {"expired", "revoked", "reused"} :
            tokenFamilies' = [tokenFamilies EXCEPT ![f].status = s]
            /\ tokenFamilies[f].status = "active"
      BY <1>4, <2>2 DEF EndTokenFamily, RevokeTokenFamily, EndFamily
    <3>2. PICK row \in TokenFamilyTypes(refreshCount) : row = [tokenFamilies[f] EXCEPT !.status = s]
      BY <1>5 DEF TokenFamilyTypes
    <3>3. /\ row.status = s /\ tokenFamilies' = [tokenFamilies EXCEPT ![f] = row]
          /\ row.current = tokenFamilies[f].current /\ row.grant = tokenFamilies[f].grant
      BY <1>5, <3>1, <3>2 DEF TokenFamilyTypes
    <3> QED BY <1>1, <3>1, <3>3, FamilyChanged
  <2> QED BY <2>1, <2>2
<1>7. CallOK(c)' /\ ~Spends(c)'
  <2>1. Current(oidcCall[c].arg)' => Current(oidcCall[c].arg)
    <3>1. oidcCall[c].arg \in Nat /\ oidcCall[c].arg <= refreshCount /\ refreshCount \in Nat
      BY <1>1 DEF CallOK, HoldsRows, FamilyOps, OidcInv, OidcTyped, OidcRowsTyped
    <3>2. \A g \in DOMAIN tokenFamilies' :
            tokenFamilies'[g].current > refreshCount =>
              tokenFamilies'[g].current # oidcCall[c].arg
      BY <3>1
    <3> QED BY <1>3, <1>6, <3>2 DEF Current, Progress, SameCall
  <2> QED
    BY <1>1, <1>2, <1>3, <2>1 DEF CallOK, StepOK, HoldsRows, QrOps, FamilyOps, AccessOps,
       HoldsConsent, SpendsOnce, Spends, StaysStale, SameCall
<1> QED BY <1>3, <1>6, <1>7 DEF OidcStep, OidcTyped, Moves

\* A family is made only while the account is there.
LEMMA InsertTokenFamilyStep ==
  ASSUME NEW c \in OidcCalls, OidcInv, InsertTokenFamily(c)
  PROVE  OidcStep(c)
<1>1. /\ oidcCall[c].op = "exchange" /\ oidcCall[c].pc = "insertFamily"
      /\ oidcCall[c].access \in DOMAIN accessTokens /\ oidcCall[c].grant = 1
      /\ OidcCallsTyped /\ CallOK(c)
      /\ UNCHANGED <<oidcUserActive, qrRows, consent, accessTokens>>
  BY DEF OidcInv, OidcTyped, CallsOK, CallOK, StepOK, HoldsRows, HoldsConsent,
         InsertTokenFamily
<1>2. PICK pc \in {"failed", "ok"} : To(c, pc)
  BY DEF InsertTokenFamily
<1>3. Moves(c) /\ SameCall(c) /\ oidcCall'[c].pc = pc
  BY <1>1, <1>2, CallGoes DEF OidcSteps, Moves
<1>4. CallOK(c)' /\ (Spends(c)' => Spends(c))
  BY <1>1, <1>2, <1>3 DEF CallOK, StepOK, HoldsRows, QrOps, FamilyOps, AccessOps,
     HoldsConsent, SpendsOnce, Spends, StaysStale, SameCall, qrRows
<1>5. CASE UNCHANGED <<tokenFamilies, refreshCount>>
  <2>1. held' = held \/ held' = [held EXCEPT !.access = @ \cup {oidcCall[c].access}]
    <3>1. refreshCount \in Nat
      BY DEF OidcInv, OidcTyped, OidcRowsTyped
    <3> QED BY <1>5, <3>1 DEF InsertTokenFamily
  <2>2. held.access \subseteq Nat /\ oidcCall[c].access \in Nat
    BY <1>1, RowOfTable DEF OidcInv, OidcTyped, OidcRowsTyped
  <2>3. /\ held' \in [access : SUBSET Nat, refresh : SUBSET Nat]
        /\ held'.access \subseteq DOMAIN accessTokens /\ held'.refresh = held.refresh
    BY <1>1, <2>1, <2>2 DEF OidcInv, OidcTyped, OidcRowsTyped
  <2>4. OidcRowsTyped' /\ Epochs' /\ SingleUse'
    BY <1>1, <1>5, <2>3 DEF OidcInv, OidcTyped, OidcRowsTyped, Epochs, SingleUse, consent,
       qrRows
  <2>5. Progress
    BY <1>1, <1>5 DEF OidcInv, OidcTyped, OidcRowsTyped, Progress, qrRows
  <2> QED BY <1>3, <1>4, <2>4, <2>5 DEF OidcStep, OidcTyped, Moves
<1>6. CASE ~UNCHANGED <<tokenFamilies, refreshCount>>
  <2>1. PICK n \in Nat : n = refreshCount + 1 /\ refreshCount \in Nat /\ refreshCount <= n
                          /\ refreshCount < n
    BY DEF OidcInv, OidcTyped, OidcRowsTyped
  <2>2. /\ grantRow = 1 /\ refreshCount' = n
        /\ tokenFamilies' = Append(tokenFamilies, [status |-> "active", current |-> n,
             previous |-> 0, overdue |-> FALSE, grant |-> grantRow])
        /\ held' = [access |-> held.access \cup {oidcCall[c].access},
                    refresh |-> held.refresh \cup {n}]
    BY <1>1, <1>6, <2>1 DEF InsertTokenFamily
  <2>3. oidcUserActive
    BY <2>2 DEF OidcInv, Epochs
  <2>4. PICK row \in TokenFamilyTypes(n) :
          /\ row = [status |-> "active", current |-> n, previous |-> 0, overdue |-> FALSE,
                    grant |-> grantRow]
          /\ row.current = n /\ row.grant = 1
    <3> DEFINE row == [status |-> "active", current |-> n, previous |-> 0,
                       overdue |-> FALSE, grant |-> 1]
    <3>1. row \in TokenFamilyTypes(n) /\ row.current = n /\ row.grant = 1
      BY <2>1 DEF TokenFamilyTypes
    <3> QED BY <2>2, <3>1
  <2>5. PICK old, next, f, T : old = tokenFamilies /\ next = tokenFamilies'
                                /\ f = Len(tokenFamilies) + 1 /\ T = TokenFamilyTypes(n)
    OBVIOUS
  <2>6. old \in Seq(T) /\ next = Append(old, row) /\ row \in T
    BY <2>1, <2>2, <2>4, <2>5, FamiliesTyped DEF OidcInv, OidcTyped, OidcRowsTyped
  <2>7. /\ tokenFamilies' \in Seq(TokenFamilyTypes(n))
        /\ DOMAIN tokenFamilies' = DOMAIN tokenFamilies \cup {f}
        /\ f \notin DOMAIN tokenFamilies /\ tokenFamilies'[f] = row
        /\ \A m \in DOMAIN tokenFamilies : tokenFamilies'[m] = tokenFamilies[m]
    BY <2>5, <2>6, RowInserted
  <2>8. held.access \subseteq Nat /\ oidcCall[c].access \in Nat /\ held.refresh \subseteq 1..refreshCount
    BY <1>1, RowOfTable DEF OidcInv, OidcTyped, OidcRowsTyped
  <2>9. OidcRowsTyped'
    <3>1. /\ held' \in [access : SUBSET Nat, refresh : SUBSET Nat]
          /\ held'.access \subseteq DOMAIN accessTokens /\ held'.refresh \subseteq 1..n
      BY <1>1, <2>1, <2>2, <2>8 DEF OidcInv, OidcTyped, OidcRowsTyped
    <3> QED BY <1>1, <2>2, <2>7, <3>1 DEF OidcInv, OidcTyped, OidcRowsTyped, consent, qrRows
  <2>10. Epochs'
    BY <1>1, <2>3, <2>4, <2>7 DEF OidcInv, Epochs, consent, qrRows
  <2>11. \A m \in DOMAIN tokenFamilies : tokenFamilies[m].current <= refreshCount
                                         /\ tokenFamilies[m].current \in Nat
    <3>1. \A m \in DOMAIN tokenFamilies : tokenFamilies[m] \in TokenFamilyTypes(refreshCount)
      BY RowOfTable DEF OidcInv, OidcTyped, OidcRowsTyped
    <3> QED BY <2>1, <3>1 DEF TokenFamilyTypes
  <2>12. SingleUse'
    <3>1. \A m \in DOMAIN tokenFamilies : tokenFamilies[m].current # n
      BY <2>1, <2>11
    <3> QED BY <1>1, <2>4, <2>7, <3>1 DEF OidcInv, SingleUse, qrRows
  <2>13. Progress
    BY <1>1, <2>1, <2>2, <2>4, <2>7 DEF Progress, qrRows
  <2> QED BY <1>3, <1>4, <2>9, <2>10, <2>12, <2>13 DEF OidcStep, OidcTyped, Moves
<1> QED BY <1>5, <1>6

\* A refresh token is rotated: the family has a new one.
LEMMA RotateStep ==
  ASSUME NEW c \in OidcCalls, OidcInv, RotateTokenFamily(c)
  PROVE  OidcStep(c) \/ Spending(c)
<1>1. /\ oidcCall[c].op = "refresh" /\ oidcCall[c].pc = "rotating"
      /\ oidcCall[c].row \in DOMAIN tokenFamilies /\ oidcCall[c].grant = 1
      /\ oidcCall[c].arg \in 1..refreshCount
      /\ OidcCallsTyped /\ CallOK(c) /\ refreshCount \in Nat
      /\ UNCHANGED <<oidcUserActive, qrRows, consent, accessTokens, held>>
  BY DEF OidcInv, OidcTyped, OidcRowsTyped, CallsOK, CallOK, StepOK, HoldsRows, HoldsConsent,
         FamilyOps, RotateTokenFamily
<1>2. PICK f \in DOMAIN tokenFamilies, r \in Nat :
        f = oidcCall[c].row /\ r = oidcCall[c].arg /\ r \in 1..refreshCount
  BY <1>1
<1>3. CASE ~Rotatable(f, r)
  <2>1. To(c, "failed") /\ UNCHANGED <<tokenFamilies, refreshCount>>
    BY <1>2, <1>3 DEF RotateTokenFamily
  <2>2. Moves(c) /\ SameCall(c) /\ oidcCall'[c].pc = "failed"
    BY <1>1, <2>1, CallGoes DEF OidcSteps, Moves
  <2>3. CallOK(c)' /\ ~Spends(c)'
    BY <1>1, <2>1, <2>2 DEF CallOK, StepOK, HoldsRows, QrOps, FamilyOps, AccessOps,
       HoldsConsent, SpendsOnce, Spends, StaysStale, SameCall, qrRows
  <2>4. Progress
    BY <1>1, <2>1, ProgressStays DEF OidcInv, siteRows
  <2>5. OidcRowsTyped' /\ Epochs' /\ SingleUse'
    BY <1>1, <2>1 DEF OidcInv, OidcTyped, OidcRowsTyped, Epochs, SingleUse, consent, qrRows
  <2> QED BY <2>2, <2>3, <2>4, <2>5 DEF OidcStep, OidcTyped, Moves
<1>4. CASE Rotatable(f, r)
  <2>1. PICK n \in Nat : n = refreshCount + 1 /\ refreshCount <= n /\ refreshCount < n
    BY <1>1
  <2>2. /\ refreshCount' = n /\ RemembersToken(c, "insertAccess", n)
        /\ tokenFamilies' = [tokenFamilies EXCEPT ![f].previous = r, ![f].current = n]
        /\ tokenFamilies[f].current = r /\ tokenFamilies[f].status = "active"
    BY <1>2, <1>4, <2>1 DEF RotateTokenFamily, RemembersToken, Rotatable
  <2>3. \A m \in DOMAIN tokenFamilies : tokenFamilies[m] \in TokenFamilyTypes(refreshCount)
    BY RowOfTable DEF OidcInv, OidcTyped, OidcRowsTyped
  <2>4. tokenFamilies \in Seq(TokenFamilyTypes(n))
    BY <1>1, <2>1, FamiliesTyped DEF OidcInv, OidcTyped, OidcRowsTyped
  <2>5. PICK row \in TokenFamilyTypes(n) :
          /\ row = [tokenFamilies[f] EXCEPT !.previous = r, !.current = n]
          /\ row.current = n /\ row.grant = tokenFamilies[f].grant
    <3> DEFINE row == [tokenFamilies[f] EXCEPT !.previous = r, !.current = n]
    <3>2. tokenFamilies[f] \in TokenFamilyTypes(n)
      BY <2>4, RowOfTable
    <3>3. r \in 0..n /\ n \in 1..n
      BY <1>1, <1>2, <2>1
    <3>4. row \in TokenFamilyTypes(n) /\ row.current = n /\ row.grant = tokenFamilies[f].grant
      BY <3>2, <3>3 DEF TokenFamilyTypes
    <3> QED BY <3>4
  <2>6. tokenFamilies' = [tokenFamilies EXCEPT ![f] = row]
    BY <2>2, <2>5
  <2>7. /\ tokenFamilies' \in Seq(TokenFamilyTypes(n)) /\ DOMAIN tokenFamilies' = DOMAIN tokenFamilies
        /\ tokenFamilies'[f] = row
        /\ \A m \in DOMAIN tokenFamilies : m # f => tokenFamilies'[m] = tokenFamilies[m]
    <3>1. PICK old, next, T : old = tokenFamilies /\ next = tokenFamilies' /\ T = TokenFamilyTypes(n)
      OBVIOUS
    <3>2. old \in Seq(T) /\ next = [old EXCEPT ![f] = row] /\ f \in DOMAIN old /\ row \in T
      BY <2>4, <2>6, <3>1
    <3> QED BY <3>1, <3>2, RowUpdated
  <2>8. \A m \in DOMAIN tokenFamilies :
           /\ tokenFamilies'[m].grant = tokenFamilies[m].grant
           /\ tokenFamilies'[m].current = IF m = f THEN n ELSE tokenFamilies[m].current
    BY <2>5, <2>7
  <2>9. /\ Moves(c) /\ SameCall(c) /\ oidcCall'[c].pc = "insertAccess"
        /\ oidcCall'[c].access = n /\ oidcCall'[c].grant = oidcCall[c].grant
    BY <1>1, <2>2, CallRemembersToken DEF OidcSteps, Moves
  <2>10. \A m \in DOMAIN tokenFamilies : tokenFamilies[m].current <= refreshCount
                                        /\ tokenFamilies[m].current \in Nat
    BY <1>1, <2>3 DEF TokenFamilyTypes
  <2>11. \A m \in DOMAIN tokenFamilies' : tokenFamilies'[m].current # r
    <3>1. \A m \in DOMAIN tokenFamilies : m # f => tokenFamilies[m].current # r
      BY <2>2 DEF OidcInv, SingleUse
    <3>2. n # r
      BY <1>1, <1>2, <2>1
    <3> QED BY <2>5, <2>7, <3>1, <3>2
  <2>12. CallOK(c)'
    <3>1. ~oidcCall[c].stale
      BY <1>1 DEF CallOK, StaysStale
    <3>2. StepOK(c)' /\ HoldsConsent(c)' /\ StaysStale(c)'
      BY <1>1, <2>9, <3>1 DEF StepOK, HoldsConsent, StaysStale, SameCall
    <3>3. HoldsRows(c)'
      BY <1>1, <2>1, <2>2, <2>9 DEF HoldsRows, SameCall, QrOps, FamilyOps, AccessOps
    <3>4. SpendsOnce(c)'
      BY <1>1, <1>2, <2>9, <2>11 DEF SpendsOnce, SameCall
    <3> QED BY <3>2, <3>3, <3>4 DEF CallOK
  <2>13. OidcRowsTyped'
    <3>1. held.refresh \subseteq 1..n
      BY <1>1, <2>1 DEF OidcInv, OidcTyped, OidcRowsTyped
    <3> QED BY <1>1, <2>2, <2>7, <3>1 DEF OidcInv, OidcTyped, OidcRowsTyped, consent, qrRows
  <2>14. Epochs'
    <3>1. oidcUserActive
      BY <2>2 DEF OidcInv, Epochs
    <3> QED BY <1>1, <2>7, <2>8, <3>1 DEF OidcInv, Epochs, consent, qrRows
  <2>15. SingleUse'
    <3>1. \A m \in DOMAIN tokenFamilies : tokenFamilies[m].current # n
      BY <1>1, <2>1, <2>10
    <3> QED BY <1>1, <2>7, <2>8, <3>1 DEF OidcInv, SingleUse, qrRows
  <2>16. Progress
    BY <1>1, <2>1, <2>2, <2>5, <2>7 DEF Progress, qrRows
  <2>17. Current(oidcCall[c].arg)
    BY <1>2, <2>2 DEF Current
  <2> QED
    BY <1>1, <2>9, <2>12, <2>13, <2>14, <2>15, <2>16, <2>17 DEF Spending, OidcTyped, Moves
<1> QED BY <1>3, <1>4

-----------------------------------------------------------------------------
(* OidcProvider: the steps of no call. *)

\* Such a step keeps the rows in order and every call where it is.
Elsewhere ==
    OidcRowsTyped' /\ Epochs' /\ SingleUse' /\ Progress /\ UNCHANGED oidcCall

\* A transaction is opened or passes its deadline.
LEMMA QrElsewhere ==
  ASSUME OidcInv, NEW t \in QrTransactions, OpenQr(t) \/ LapseQr(t)
  PROVE  Elsewhere
<1>1. qr[t] \in QrTypes
  BY DEF OidcInv, OidcTyped, OidcRowsTyped
<1>2. PICK row \in QrTypes :
        /\ qr' = [qr EXCEPT ![t] = row]
        /\ row.status # "none"
        /\ row.status = "approved" => qr[t].status = "approved"
        /\ qr[t].status \in {"approved", "expired", "deleted"} => row.status = qr[t].status
  <2>1. CASE OpenQr(t)
    <3> DEFINE row == [qr[t] EXCEPT !.status = "pending"]
    <3>1. qr' = [qr EXCEPT ![t] = row] /\ row \in QrTypes /\ row.status = "pending"
          /\ qr[t].status = "none"
      BY <1>1, <2>1 DEF OpenQr, QrTypes
    <3> HIDE DEF row
    <3> QED BY <3>1
  <2>2. CASE LapseQr(t)
    <3> DEFINE row == [qr[t] EXCEPT !.overdue = TRUE]
    <3>1. qr' = [qr EXCEPT ![t] = row] /\ row \in QrTypes /\ row.status = qr[t].status
          /\ qr[t].status # "none"
      BY <1>1, <2>2 DEF LapseQr, QrTypes
    <3> HIDE DEF row
    <3> QED BY <3>1
  <2> QED BY <2>1, <2>2
<1>3. UNCHANGED <<oidcUserActive, codes, consent, siteRows, oidcCall>>
  BY DEF OpenQr, LapseQr
<1>4. row.status = "approved" => pairwiseRow # 0
  BY <1>2 DEF OidcInv, Epochs
<1> QED BY <1>2, <1>3, <1>4, QrChanged DEF Elsewhere

\* A code passes its deadline.
LEMMA CodeElsewhere ==
  ASSUME OidcInv, NEW k \in DOMAIN codes, LapseCode(k)
  PROVE  Elsewhere
<1>1. codes[k] \in CodeTypes
  BY RowOfTable DEF OidcInv, OidcTyped, OidcRowsTyped
<1> DEFINE row == [codes[k] EXCEPT !.overdue = TRUE]
<1>2. /\ codes' = [codes EXCEPT ![k] = row] /\ row \in CodeTypes /\ row.qr = codes[k].qr
      /\ row.pairwise = codes[k].pairwise /\ row.status = codes[k].status
  BY <1>1 DEF LapseCode, CodeTypes
<1>3. UNCHANGED <<oidcUserActive, qr, consent, siteRows, oidcCall>>
  BY DEF LapseCode
<1> HIDE DEF row
<1>4. PICK next \in CodeTypes : next = row
  BY <1>2
<1> QED BY <1>2, <1>3, <1>4, CodeChanged DEF Elsewhere

\* An access token passes its deadline.
LEMMA AccessElsewhere ==
  ASSUME OidcInv, NEW a \in DOMAIN accessTokens, LapseAccessToken(a)
  PROVE  Elsewhere
<1>1. accessTokens[a] \in AccessTypes
  BY RowOfTable DEF OidcInv, OidcTyped, OidcRowsTyped
<1> DEFINE row == [accessTokens[a] EXCEPT !.overdue = TRUE]
<1>2. /\ accessTokens' = [accessTokens EXCEPT ![a] = row] /\ row \in AccessTypes
      /\ row.status = accessTokens[a].status
  BY <1>1 DEF LapseAccessToken, AccessTypes
<1>3. UNCHANGED <<oidcUserActive, qrRows, consent, tokenFamilies, refreshCount, held, oidcCall>>
  BY DEF LapseAccessToken
<1> HIDE DEF row
<1>4. PICK next \in AccessTypes : next = row
  BY <1>2
<1> QED BY <1>2, <1>3, <1>4, AccessTokenChanged DEF Elsewhere

\* A family of refresh tokens passes its deadline.
LEMMA FamilyElsewhere ==
  ASSUME OidcInv, NEW f \in DOMAIN tokenFamilies, LapseTokenFamily(f)
  PROVE  Elsewhere
<1>1. tokenFamilies[f] \in TokenFamilyTypes(refreshCount)
  BY RowOfTable DEF OidcInv, OidcTyped, OidcRowsTyped
<1> DEFINE row == [tokenFamilies[f] EXCEPT !.overdue = TRUE]
<1>2. /\ tokenFamilies' = [tokenFamilies EXCEPT ![f] = row] /\ row \in TokenFamilyTypes(refreshCount)
      /\ row.current = tokenFamilies[f].current /\ row.grant = tokenFamilies[f].grant
      /\ row.status = tokenFamilies[f].status
  BY <1>1 DEF LapseTokenFamily, TokenFamilyTypes
<1>3. UNCHANGED <<oidcUserActive, qrRows, consent, accessTokens, refreshCount, held, oidcCall>>
  BY DEF LapseTokenFamily
<1> HIDE DEF row
<1>4. PICK next \in TokenFamilyTypes(refreshCount) : next = row
  BY <1>2
<1> QED BY <1>2, <1>3, <1>4, FamilyChanged DEF Elsewhere

\* The account is deleted: no row of it stays.
LEMMA DeleteElsewhere ==
  ASSUME OidcInv, DeleteOidcAccount
  PROVE  Elsewhere
<1>1. /\ codes \in Seq(CodeTypes) /\ accessTokens \in Seq(AccessTypes)
      /\ tokenFamilies \in Seq(TokenFamilyTypes(refreshCount)) /\ refreshCount \in Nat
      /\ qr \in [QrTransactions -> QrTypes]
  BY DEF OidcInv, OidcTyped, OidcRowsTyped
<1>2. /\ codes' \in Seq(CodeTypes) /\ DOMAIN codes' = DOMAIN codes
      /\ \A k \in DOMAIN codes : codes'[k].qr = codes[k].qr /\ codes'[k].status = "deleted"
  <2>1. \A k \in DOMAIN codes : /\ [codes[k] EXCEPT !.status = "deleted"] \in CodeTypes
                                /\ [codes[k] EXCEPT !.status = "deleted"].qr = codes[k].qr
                                /\ [codes[k] EXCEPT !.status = "deleted"].status = "deleted"
    <3> TAKE k \in DOMAIN codes
    <3>1. codes[k] \in CodeTypes
      BY <1>1, RowOfTable
    <3> QED BY <3>1 DEF CodeTypes
  <2>2. PICK old, next : old = codes /\ next = codes'
    OBVIOUS
  <2>3. next = [k \in DOMAIN old |-> [old[k] EXCEPT !.status = "deleted"]] /\ old \in Seq(CodeTypes)
    BY <1>1, <2>2 DEF DeleteOidcAccount, AllDeleted
  <2>4. next \in [DOMAIN old -> CodeTypes]
    BY <2>1, <2>2, <2>3
  <2>5. next \in Seq(CodeTypes)
    BY <2>3, <2>4, TableUpdated
  <2> QED BY <2>1, <2>2, <2>3, <2>4, <2>5
<1>3. /\ accessTokens' \in Seq(AccessTypes) /\ DOMAIN accessTokens' = DOMAIN accessTokens
      /\ \A a \in DOMAIN accessTokens : accessTokens'[a].status = "deleted"
  <2>1. \A a \in DOMAIN accessTokens :
          /\ [accessTokens[a] EXCEPT !.status = "deleted"] \in AccessTypes
          /\ [accessTokens[a] EXCEPT !.status = "deleted"].status = "deleted"
    <3> TAKE a \in DOMAIN accessTokens
    <3>1. accessTokens[a] \in AccessTypes
      BY <1>1, RowOfTable
    <3> QED BY <3>1 DEF AccessTypes
  <2>2. PICK old, next : old = accessTokens /\ next = accessTokens'
    OBVIOUS
  <2>3. /\ next = [a \in DOMAIN old |-> [old[a] EXCEPT !.status = "deleted"]]
        /\ old \in Seq(AccessTypes)
    BY <1>1, <2>2 DEF DeleteOidcAccount, AllDeleted
  <2>4. next \in [DOMAIN old -> AccessTypes]
    BY <2>1, <2>2, <2>3
  <2>5. next \in Seq(AccessTypes)
    BY <2>3, <2>4, TableUpdated
  <2>6. DOMAIN next = DOMAIN old
        /\ \A a \in DOMAIN old : next[a] = [old[a] EXCEPT !.status = "deleted"]
    BY <2>3
  <2> QED BY <2>1, <2>2, <2>5, <2>6
<1>4. /\ tokenFamilies' \in Seq(TokenFamilyTypes(refreshCount))
      /\ DOMAIN tokenFamilies' = DOMAIN tokenFamilies
      /\ \A f \in DOMAIN tokenFamilies : /\ tokenFamilies'[f].status = "deleted"
                                         /\ tokenFamilies'[f].current = tokenFamilies[f].current
                                         /\ tokenFamilies'[f].grant = tokenFamilies[f].grant
  <2>1. \A f \in DOMAIN tokenFamilies :
          /\ [tokenFamilies[f] EXCEPT !.status = "deleted"] \in TokenFamilyTypes(refreshCount)
          /\ [tokenFamilies[f] EXCEPT !.status = "deleted"].status = "deleted"
          /\ [tokenFamilies[f] EXCEPT !.status = "deleted"].current = tokenFamilies[f].current
          /\ [tokenFamilies[f] EXCEPT !.status = "deleted"].grant = tokenFamilies[f].grant
    <3> TAKE f \in DOMAIN tokenFamilies
    <3>1. tokenFamilies[f] \in TokenFamilyTypes(refreshCount)
      BY <1>1, RowOfTable
    <3> QED BY <3>1 DEF TokenFamilyTypes
  <2>2. PICK old, next, T : old = tokenFamilies /\ next = tokenFamilies'
                            /\ T = TokenFamilyTypes(refreshCount)
    OBVIOUS
  <2>3. /\ next = [f \in DOMAIN old |-> [old[f] EXCEPT !.status = "deleted"]]
        /\ old \in Seq(T)
    BY <1>1, <2>2 DEF DeleteOidcAccount, AllDeleted
  <2>4. next \in [DOMAIN old -> T]
    BY <2>1, <2>2, <2>3
  <2>5. next \in Seq(T)
    BY <2>3, <2>4, TableUpdated
  <2>6. DOMAIN next = DOMAIN old
        /\ \A f \in DOMAIN old : next[f] = [old[f] EXCEPT !.status = "deleted"]
    BY <2>3
  <2>7. tokenFamilies' \in Seq(TokenFamilyTypes(refreshCount))
    BY <2>2, <2>5
  <2> QED BY <2>1, <2>2, <2>6, <2>7
<1>5. /\ qr' \in [QrTransactions -> QrTypes]
      /\ \A t \in QrTransactions :
           /\ qr'[t].status = qr[t].status \/ qr'[t].status = "deleted"
           /\ qr'[t].status # "approved"
  <2>1. \A t \in QrTransactions : /\ [qr[t] EXCEPT !.status = "deleted"] \in QrTypes
                                  /\ [qr[t] EXCEPT !.status = "deleted"].status = "deleted"
    BY <1>1 DEF QrTypes
  <2> QED BY <1>1, <2>1 DEF DeleteOidcAccount
<1>6. /\ oidcUserActive /\ oidcUserActive' = FALSE
      /\ pairwiseRow' = 0 /\ grantRow' = 0
      /\ UNCHANGED <<refreshCount, held, oidcCall>>
  BY DEF DeleteOidcAccount, OidcInv, OidcTyped, OidcRowsTyped
<1>7. OidcRowsTyped'
  <2>1. tokenFamilies' \in Seq(TokenFamilyTypes(refreshCount'))
    BY <1>4, <1>6
  <2>2. /\ held' \in [access : SUBSET Nat, refresh : SUBSET Nat]
        /\ held'.access \subseteq DOMAIN accessTokens' /\ held'.refresh \subseteq 1..refreshCount'
    BY <1>3, <1>6 DEF OidcInv, OidcTyped, OidcRowsTyped
  <2>3. refreshCount' \in Nat /\ pairwiseRow' \in 0..2 /\ grantRow' \in 0..2
    BY <1>1, <1>6
  <2> QED BY <1>2, <1>3, <1>5, <1>6, <2>1, <2>2, <2>3 DEF OidcRowsTyped
<1>8. Epochs'
  BY <1>3, <1>4, <1>5, <1>6 DEF OidcInv, Epochs
<1>9. SingleUse'
  <2>1. \A k \in DOMAIN codes : codes[k].qr \in QrTransactions
    <3>1. \A k \in DOMAIN codes : codes[k] \in CodeTypes
      BY <1>1, RowOfTable
    <3> QED BY <3>1 DEF CodeTypes
  <2> QED BY <1>2, <1>4, <1>5, <2>1 DEF OidcInv, SingleUse
<1>10. Progress
  <2>1. \A t \in QrTransactions : qr[t].status # "none" => qr'[t].status # "none"
    BY <1>5
  <2>2. \A k \in DOMAIN codes : k \in DOMAIN codes' /\ codes'[k].status # "active"
    BY <1>2
  <2>3. \A a \in DOMAIN accessTokens : /\ a \in DOMAIN accessTokens'
                                       /\ accessTokens'[a].status # "active"
    BY <1>3
  <2>4. DOMAIN tokenFamilies \subseteq DOMAIN tokenFamilies'
        /\ \A f \in DOMAIN tokenFamilies' : /\ f \in DOMAIN tokenFamilies
                                            /\ tokenFamilies'[f].current = tokenFamilies[f].current
                                            /\ tokenFamilies'[f].status # "active"
    BY <1>4
  <2> QED BY <1>1, <1>6, <2>1, <2>2, <2>3, <2>4 DEF Progress
<1> QED BY <1>6, <1>7, <1>8, <1>9, <1>10 DEF Elsewhere

-----------------------------------------------------------------------------
(* OidcProvider: the invariant, and the properties that follow. *)

LEMMA StepKeepsInv ==
  ASSUME NEW c \in OidcCalls, OidcInv, OidcStep(c)
  PROVE  OidcInv'
<1>1. refreshCount' \in Nat
  BY DEF OidcStep, OidcTyped, OidcRowsTyped
<1>2. \A d \in OidcCalls : d # c => CallOK(d)' /\ (Spends(d)' <=> Spends(d))
                                    /\ oidcCall'[d] = oidcCall[d]
  BY <1>1, OidcCallStays DEF OidcInv, CallsOK, OidcStep, Others
<1>3. CallsOK'
  BY <1>2 DEF CallsOK, OidcStep
<1>4. \A d \in OidcCalls : Spends(d)' => Spends(d) /\ SameCall(d)
  BY <1>2 DEF OidcStep, SameCall
<1>5. SpentByOne'
  BY <1>4 DEF OidcInv, SpentByOne, SameCall
<1> QED BY <1>3, <1>5 DEF OidcInv, OidcStep

\* Who spends something finds that nobody else has.
LEMMA SpendingKeepsInv ==
  ASSUME NEW c \in OidcCalls, OidcInv, Spending(c)
  PROVE  OidcInv'
<1>1. refreshCount' \in Nat
  BY DEF Spending, OidcTyped, OidcRowsTyped
<1>2. \A d \in OidcCalls : d # c => CallOK(d)' /\ (Spends(d)' <=> Spends(d))
                                    /\ oidcCall'[d] = oidcCall[d]
  BY <1>1, OidcCallStays DEF OidcInv, CallsOK, Spending, Others
<1>3. CallsOK'
  BY <1>2 DEF CallsOK, Spending
<1>4. \A d \in OidcCalls : d # c /\ Spends(d) =>
        oidcCall[d].op # oidcCall[c].op \/ oidcCall[d].arg # oidcCall[c].arg
  BY DEF OidcInv, CallsOK, CallOK, SpendsOnce, Spending, Current
<1>5. \A d \in OidcCalls : oidcCall'[d].op = oidcCall[d].op /\ oidcCall'[d].arg = oidcCall[d].arg
  BY <1>2 DEF Spending, SameCall
<1>6. SpentByOne'
  BY <1>2, <1>4, <1>5 DEF OidcInv, SpentByOne
<1> QED BY <1>3, <1>6 DEF OidcInv, Spending

LEMMA ElsewhereKeepsInv ==
  ASSUME OidcInv, Elsewhere
  PROVE  OidcInv'
<1>1. refreshCount' \in Nat
  BY DEF Elsewhere, OidcRowsTyped
<1>2. \A d \in OidcCalls : CallOK(d)' /\ (Spends(d)' <=> Spends(d))
  BY <1>1, OidcCallStays DEF OidcInv, CallsOK, Elsewhere
<1>3. CallsOK'
  BY <1>2 DEF CallsOK
<1>4. SpentByOne'
  BY <1>2 DEF OidcInv, SpentByOne, Elsewhere
<1>5. OidcTyped'
  BY DEF OidcInv, OidcTyped, OidcCallsTyped, Elsewhere
<1> QED BY <1>3, <1>4, <1>5 DEF OidcInv, Elsewhere

LEMMA OidcInitInv ==
  ASSUME OidcInit
  PROVE  OidcInv
<1>1. PICK mix \in OidcMixes : oidcCall = [c \in OidcCalls |-> Starting(mix[c])]
  BY DEF OidcInit
<1>2. mix \in [OidcCalls -> OidcOps]
  BY <1>1, OidcMixesAssumption
<1>3. \A c \in OidcCalls :
        /\ oidcCall[c] \in OidcCallTypes /\ oidcCall[c].pc = "idle" /\ ~oidcCall[c].stale
  <2> TAKE c \in OidcCalls
  <2>1. PICK op \in OidcOps : op = mix[c]
    BY <1>2
  <2>2. oidcCall[c] = Starting(op)
    BY <1>1, <2>1
  <2> QED BY <2>2 DEF Starting, OidcCallTypes, OidcSteps
<1>4. OidcCallsTyped
  BY <1>1, <1>3 DEF OidcCallsTyped
<1>5. CallsOK /\ SpentByOne
  BY <1>3 DEF CallsOK, CallOK, StepOK, HoldsRows, HoldsConsent, SpendsOnce, Spends,
     StaysStale, SpentByOne
<1>6. OidcRowsTyped
  <2>1. \A T : <<>> \in Seq(T) /\ DOMAIN <<>> = {}
    BY EmptySeq
  <2>2. qr \in [QrTransactions -> QrTypes]
    BY DEF OidcInit, QrTypes
  <2>3. 0 \in Nat /\ 0 \in 0..2 /\ TRUE \in BOOLEAN
    OBVIOUS
  <2>4. held \in [access : SUBSET Nat, refresh : SUBSET Nat] /\ held.access = {} /\ held.refresh = {}
    BY DEF OidcInit
  <2> QED BY <2>1, <2>2, <2>3, <2>4 DEF OidcInit, OidcRowsTyped
<1>7. Epochs /\ SingleUse
  <2>1. DOMAIN codes = {} /\ DOMAIN tokenFamilies = {} /\ DOMAIN accessTokens = {}
    BY DEF OidcInit
  <2> QED BY <2>1 DEF OidcInit, Epochs, SingleUse
<1> QED BY <1>4, <1>5, <1>6, <1>7 DEF OidcInv, OidcTyped

\* Every step is a step of a call or of none.
LEMMA OidcNextInv ==
  ASSUME OidcInv, [OidcNext]_oidcVars
  PROVE  OidcInv'
<1>1. CASE UNCHANGED oidcVars
  <2>1. Elsewhere
    BY <1>1, ProgressStays DEF OidcInv, OidcTyped, Elsewhere, OidcRowsTyped, Epochs, SingleUse, oidcVars,
       qrRows, consent, siteRows
  <2> QED BY <2>1, ElsewhereKeepsInv
<1>2. ASSUME NEW c \in OidcCalls, OidcBegins(c) \/ Reading(c)
      PROVE  OidcInv'
  BY <1>2, QuietOidcStep, StepKeepsInv
<1>3. ASSUME NEW c \in OidcCalls, ExpireQr(c) \/ ApproveQr(c) \/ DenyQr(c)
      PROVE  OidcInv'
  BY <1>3, QrStep, StepKeepsInv
<1>4. ASSUME NEW c \in OidcCalls, InsertPairwise(c) \/ UpsertGrant(c)
      PROVE  OidcInv'
  BY <1>4, ConsentStep, StepKeepsInv
<1>5. ASSUME NEW c \in OidcCalls, DeliverCode(c)
      PROVE  OidcInv'
  BY <1>5, DeliverStep, StepKeepsInv
<1>6. ASSUME NEW c \in OidcCalls, ExpireCode(c) \/ ConsumeCode(c)
      PROVE  OidcInv'
  BY <1>6, CodeStep, StepKeepsInv, SpendingKeepsInv
<1>7. ASSUME NEW c \in OidcCalls, InsertAccessToken(c) \/ EndAccessToken(c)
      PROVE  OidcInv'
  BY <1>7, InsertAccessStep, EndAccessStep, StepKeepsInv
<1>8. ASSUME NEW c \in OidcCalls,
             InsertTokenFamily(c) \/ EndTokenFamily(c) \/ RevokeTokenFamily(c)
      PROVE  OidcInv'
  BY <1>8, InsertTokenFamilyStep, EndFamilyStep, StepKeepsInv
<1>9. ASSUME NEW c \in OidcCalls, RotateTokenFamily(c)
      PROVE  OidcInv'
  BY <1>9, RotateStep, StepKeepsInv, SpendingKeepsInv
<1>10. ASSUME NEW t \in QrTransactions, OpenQr(t) \/ LapseQr(t)
       PROVE  OidcInv'
  BY <1>10, QrElsewhere, ElsewhereKeepsInv
<1>11. ASSUME DeleteOidcAccount \/ (\E k \in DOMAIN codes : LapseCode(k))
                \/ (\E a \in DOMAIN accessTokens : LapseAccessToken(a))
                \/ (\E f \in DOMAIN tokenFamilies : LapseTokenFamily(f))
       PROVE  OidcInv'
  BY <1>11, DeleteElsewhere, CodeElsewhere, AccessElsewhere, FamilyElsewhere, ElsewhereKeepsInv
<1> QED
  BY <1>1, <1>2, <1>3, <1>4, <1>5, <1>6, <1>7, <1>8, <1>9, <1>10, <1>11
  DEF OidcNext, OidcBegins, Reading

LEMMA OidcAlways == OidcSpec => []OidcInv
BY OidcInitInv, OidcNextInv, PTL DEF OidcSpec

\* Whatever the calls, the rows keep their types, and the site holds only
\* tokens that were made.
THEOREM OidcStateIsTyped == OidcSpec => []OidcTypeOK
<1>1. OidcInv => OidcTypeOK
  BY DEF OidcInv, OidcTyped, OidcRowsTyped, OidcTypeOK, QrTypes, CodeTypes, AccessTypes,
     TokenFamilyTypes
<1> QED BY <1>1, OidcAlways, PTL

\* Of all the calls that present a code or a refresh token, one succeeds
\* at most (deliver_oidc_authorize_qr_code, consumeAuthorizationCode,
\* rotateRefreshTokenFamily).
THEOREM OneCallSpendsAToken == OidcSpec => []TokensAreSpentOnce
<1>1. OidcInv => TokensAreSpentOnce
  BY DEF OidcInv, SpentByOne, Spends, TokensAreSpentOnce
<1> QED BY <1>1, OidcAlways, PTL

\* What was spent, revoked, rotated away or deleted before a call began
\* does not serve it, whatever the call overlaps.
THEOREM StaleTokensAlwaysFail == OidcSpec => []StaleTokensFail
<1>1. OidcInv => StaleTokensFail
  BY DEF OidcInv, CallsOK, CallOK, StaysStale, StaleTokensFail
<1> QED BY <1>1, OidcAlways, PTL

\* An exchange or a refresh that is under way when the account is deleted
\* finds its consent gone, also where an approval under way has made a new
\* one: its rows are of another epoch.
THEOREM DeletionEndsAllTokens == OidcSpec => []NoTokenOutlivesAccount
<1>1. OidcInv => NoTokenOutlivesAccount
  BY DEF OidcInv, Epochs, NoTokenOutlivesAccount
<1> QED BY <1>1, OidcAlways, PTL

-----------------------------------------------------------------------------
(* OidcProvider: a QR transaction is a one-time grant. *)

\* The state of a transaction, when it has one code at most.
GrantOfQr(t) ==
    IF qr[t].status = "none" THEN "absent"
    ELSE IF CodesOf(t) # {} THEN "spent"
    ELSE IF qr[t].status = "pending" THEN "open"
    ELSE IF qr[t].status = "approved" THEN "approved" ELSE "void"

HolderOfQr(t) == IF qr[t].status = "none" THEN NoBrowser ELSE t

QrStates == [t \in QrTransactions |-> GrantOfQr(t)]
QrHolders == [t \in QrTransactions |-> HolderOfQr(t)]

LEMMA QrStatesAreGrants ==
  OidcInv => [t \in QrTransactions |-> QrGrantState(t)] = QrStates
<1> SUFFICES ASSUME OidcInv
             PROVE  [t \in QrTransactions |-> QrGrantState(t)] = QrStates
  OBVIOUS
<1>1. ASSUME NEW t \in QrTransactions
      PROVE  QrGrantState(t) = GrantOfQr(t)
  <2>1. CASE CodesOf(t) = {}
    <3>1. Cardinality(CodesOf(t)) = 0
      BY <2>1, FS_EmptySet
    <3> QED BY <2>1, <3>1 DEF QrGrantState, GrantOfQr
  <2>2. CASE CodesOf(t) # {}
    <3>1. PICK k : CodesOf(t) = {k}
      BY <2>2 DEF CodesOf, OidcInv, SingleUse
    <3>2. Cardinality(CodesOf(t)) = 1
      BY <3>1, FS_Singleton
    <3>3. qr[t].status # "none"
      BY <2>2 DEF CodesOf, OidcInv, SingleUse
    <3>4. QrGrantState(t) = "spent"
      BY <2>2, <3>2, <3>3 DEF QrGrantState
    <3> QED BY <2>2, <3>3, <3>4 DEF GrantOfQr
  <2> QED BY <2>1, <2>2
<1> QED BY <1>1 DEF QrStates

LEMMA QrStatesAreGrantsNext ==
  OidcInv' => [t \in QrTransactions |-> QrGrantState(t)]' = QrStates'
<1> DEFINE Eq == [t \in QrTransactions |-> QrGrantState(t)] = QrStates
<1>1. OidcInv => Eq
  BY QrStatesAreGrants
<1> HIDE DEF Eq
<1>2. OidcInv' => Eq'
  BY <1>1, PTL
<1> QED BY <1>2 DEF Eq

\* The steps of the grants, of the states alone.
QrMoves(t, from, to) ==
    /\ QrStates[t] = from /\ QrStates' = [QrStates EXCEPT ![t] = to] /\ UNCHANGED QrHolders
QrVoids(G) ==
    /\ \A t \in G : QrStates[t] \in {"open", "approved"}
    /\ QrStates' = [t \in QrTransactions |-> IF t \in G THEN "void" ELSE QrStates[t]]
    /\ UNCHANGED QrHolders
QrAsks(t) ==
    /\ QrStates[t] = "absent"
    /\ QrStates' = [QrStates EXCEPT ![t] = "open"] /\ QrHolders' = [QrHolders EXCEPT ![t] = t]
QrGrantStep ==
    \/ UNCHANGED <<QrStates, QrHolders>>
    \/ \E t \in QrTransactions :
         QrAsks(t) \/ QrMoves(t, "open", "approved") \/ QrMoves(t, "approved", "spent")
    \/ \E G \in SUBSET QrTransactions : QrVoids(G)

\* What leaves the transactions and their codes' owners alone is no step.
LEMMA QrStutters ==
  ASSUME \A t \in QrTransactions : qr'[t].status = qr[t].status /\ CodesOf(t)' = CodesOf(t)
  PROVE  QrGrantStep
<1>1. QrStates' = QrStates /\ QrHolders' = QrHolders
  BY DEF QrStates, GrantOfQr, QrHolders, HolderOfQr
<1> QED BY <1>1 DEF QrGrantStep

\* One transaction changes its status.
LEMMA QrStatusMoves ==
  ASSUME OidcInv, NEW t \in QrTransactions, NEW status, UNCHANGED codes,
         \A u \in QrTransactions : u # t => qr'[u].status = qr[u].status,
         qr'[t].status = status
  PROVE  /\ QrStates' = [QrStates EXCEPT ![t] = GrantOfQr(t)']
         /\ QrHolders' = [QrHolders EXCEPT ![t] = HolderOfQr(t)']
         /\ QrStates[t] = GrantOfQr(t) /\ QrHolders[t] = HolderOfQr(t)
         /\ CodesOf(t)' = CodesOf(t)
<1>1. \A u \in QrTransactions : CodesOf(u)' = CodesOf(u)
  BY DEF CodesOf
<1>2. \A u \in QrTransactions : u # t => GrantOfQr(u)' = GrantOfQr(u)
                                         /\ HolderOfQr(u)' = HolderOfQr(u)
  BY <1>1 DEF GrantOfQr, HolderOfQr
<1> QED BY <1>1, <1>2 DEF QrStates, QrHolders

\* A call approves, denies or expires a transaction.
LEMMA QrDecisionIsGrantStep ==
  ASSUME NEW c \in OidcCalls, OidcInv, ExpireQr(c) \/ ApproveQr(c) \/ DenyQr(c)
  PROVE  QrGrantStep
<1>1. /\ oidcCall[c].arg \in QrTransactions /\ qr[oidcCall[c].arg].status # "none"
      /\ UNCHANGED codes /\ qr \in [QrTransactions -> QrTypes]
  BY DEF OidcInv, OidcTyped, OidcRowsTyped, CallsOK, CallOK, StepOK, HoldsRows, QrOps,
         ExpireQr, ApproveQr, DenyQr
<1>2. PICK t \in QrTransactions : t = oidcCall[c].arg
  BY <1>1
<1>3. CASE UNCHANGED qr
  BY <1>1, <1>3, QrStutters DEF CodesOf
<1>4. CASE ~UNCHANGED qr
  <2>1. PICK status \in {"approved", "denied", "expired"} :
          /\ \A u \in QrTransactions : u # t => qr'[u] = qr[u]
          /\ qr'[t].status = status
          /\ qr[t].status = "pending" \/ (qr[t].status = "approved" /\ status = "expired")
    <3>1. CASE ExpireQr(c)
      BY <1>1, <1>2, <1>4, <3>1 DEF ExpireQr, QrTypes
    <3>2. CASE ApproveQr(c)
      <4>1. qr' = [qr EXCEPT ![t] = [status |-> "approved", overdue |-> FALSE]]
            /\ qr[t].status = "pending"
        BY <1>2, <1>4, <3>2 DEF ApproveQr
      <4> QED BY <1>1, <4>1
    <3>3. CASE DenyQr(c)
      <4>1. qr' = [qr EXCEPT ![t] = [status |-> "denied", overdue |-> FALSE]]
            /\ qr[t].status = "pending"
        BY <1>2, <1>4, <3>3 DEF DenyQr
      <4> QED BY <1>1, <4>1
    <3> QED BY <3>1, <3>2, <3>3
  <2>2. /\ QrStates' = [QrStates EXCEPT ![t] = GrantOfQr(t)']
        /\ QrHolders' = [QrHolders EXCEPT ![t] = HolderOfQr(t)']
        /\ QrStates[t] = GrantOfQr(t) /\ QrHolders[t] = HolderOfQr(t)
        /\ CodesOf(t)' = CodesOf(t)
    BY <1>1, <2>1, QrStatusMoves
  <2>3. UNCHANGED QrHolders
    BY <2>1, <2>2 DEF HolderOfQr, QrHolders
  <2>4. CASE CodesOf(t) # {}
    <3>1. GrantOfQr(t)' = GrantOfQr(t)
      BY <2>1, <2>2, <2>4 DEF GrantOfQr
    <3>2. UNCHANGED QrStates
      BY <2>2, <3>1 DEF QrStates
    <3> QED BY <2>3, <3>2 DEF QrGrantStep
  <2>5. CASE CodesOf(t) = {} /\ status = "approved"
    <3>1. GrantOfQr(t) = "open" /\ GrantOfQr(t)' = "approved"
      BY <2>1, <2>2, <2>5 DEF GrantOfQr
    <3> QED BY <2>2, <2>3, <3>1 DEF QrGrantStep, QrMoves
  <2>6. CASE CodesOf(t) = {} /\ status # "approved"
    <3>1. GrantOfQr(t) \in {"open", "approved"} /\ GrantOfQr(t)' = "void"
      BY <2>1, <2>2, <2>6 DEF GrantOfQr
    <3>2. QrStates' = [u \in QrTransactions |-> IF u \in {t} THEN "void" ELSE QrStates[u]]
      BY <2>2, <3>1 DEF QrStates
    <3>3. QrVoids({t})
      BY <2>2, <2>3, <3>1, <3>2 DEF QrVoids
    <3> QED BY <3>3 DEF QrGrantStep
  <2> QED BY <2>4, <2>5, <2>6
<1> QED BY <1>3, <1>4

\* A transaction is opened or passes its deadline.
LEMMA QrOpenIsGrantStep ==
  ASSUME OidcInv, NEW t \in QrTransactions, OpenQr(t) \/ LapseQr(t)
  PROVE  QrGrantStep
<1>1. UNCHANGED codes /\ qr \in [QrTransactions -> QrTypes]
  BY DEF OidcInv, OidcTyped, OidcRowsTyped, OpenQr, LapseQr
<1>2. CASE LapseQr(t)
  <2>1. \A u \in QrTransactions : qr'[u].status = qr[u].status
    BY <1>1, <1>2 DEF LapseQr, QrTypes
  <2> QED BY <1>1, <2>1, QrStutters DEF CodesOf
<1>3. CASE OpenQr(t)
  <2>1. /\ \A u \in QrTransactions : u # t => qr'[u] = qr[u]
        /\ qr'[t].status = "pending" /\ qr[t].status = "none"
    BY <1>1, <1>3 DEF OpenQr, QrTypes
  <2>2. /\ QrStates' = [QrStates EXCEPT ![t] = GrantOfQr(t)']
        /\ QrHolders' = [QrHolders EXCEPT ![t] = HolderOfQr(t)']
        /\ QrStates[t] = GrantOfQr(t)
        /\ CodesOf(t)' = CodesOf(t)
    BY <1>1, <2>1, QrStatusMoves
  <2>3. CodesOf(t) = {}
    BY <2>1 DEF CodesOf, OidcInv, SingleUse
  <2>4. GrantOfQr(t) = "absent" /\ GrantOfQr(t)' = "open" /\ HolderOfQr(t)' = t
    BY <2>1, <2>2, <2>3 DEF GrantOfQr, HolderOfQr
  <2> QED BY <2>2, <2>4 DEF QrGrantStep, QrAsks
<1> QED BY <1>2, <1>3

\* A code is delivered.
LEMMA QrDeliveryIsGrantStep ==
  ASSUME NEW c \in OidcCalls, OidcInv, DeliverCode(c)
  PROVE  QrGrantStep
<1>1. oidcCall[c].arg \in QrTransactions /\ UNCHANGED qr
  BY DEF OidcInv, CallsOK, CallOK, StepOK, HoldsRows, QrOps, DeliverCode
<1>2. PICK t \in QrTransactions : t = oidcCall[c].arg
  BY <1>1
<1>3. CASE UNCHANGED codes
  BY <1>1, <1>3, QrStutters DEF CodesOf
<1>4. CASE ~UNCHANGED codes
  <2>1. PICK row : /\ codes' = Append(codes, row) /\ row.qr = t
                   /\ qr[t].status = "approved" /\ CodesOf(t) = {}
    BY <1>2, <1>4 DEF DeliverCode, Deliverable
  <2>2. PICK n : n = Len(codes) + 1
    OBVIOUS
  <2>3. /\ DOMAIN codes' = DOMAIN codes \cup {n} /\ n \notin DOMAIN codes /\ codes'[n] = row
        /\ \A k \in DOMAIN codes : codes'[k] = codes[k]
    <3>1. codes \in Seq(CodeTypes \cup {row}) 
      <4>1. codes \in Seq(CodeTypes)
        BY DEF OidcInv, OidcTyped, OidcRowsTyped
      <4> QED BY <4>1, SeqMonotonic
    <3>2. PICK old, next, T : old = codes /\ next = codes' /\ T = CodeTypes \cup {row}
      OBVIOUS
    <3>3. old \in Seq(T) /\ row \in T /\ next = Append(old, row)
      BY <2>1, <3>1, <3>2
    <3> QED BY <2>2, <3>2, <3>3, RowInserted
  <2>4. \A u \in QrTransactions : CodesOf(u)' = IF u = t THEN CodesOf(u) \cup {n} ELSE CodesOf(u)
    BY <2>1, <2>3 DEF CodesOf
  <2>5. /\ \A u \in QrTransactions : u # t => GrantOfQr(u)' = GrantOfQr(u)
        /\ \A u \in QrTransactions : HolderOfQr(u)' = HolderOfQr(u)
        /\ GrantOfQr(t) = "approved" /\ GrantOfQr(t)' = "spent"
    BY <1>1, <2>1, <2>4 DEF GrantOfQr, HolderOfQr
  <2>6. QrMoves(t, "approved", "spent")
    BY <2>5 DEF QrMoves, QrStates, QrHolders
  <2> QED BY <2>6 DEF QrGrantStep
<1> QED BY <1>3, <1>4

\* The deletion of the account voids what was approved and not delivered.
LEMMA DeletionIsGrantStep ==
  ASSUME OidcInv, DeleteOidcAccount
  PROVE  QrGrantStep
<1> DEFINE G == {t \in QrTransactions : GrantOfQr(t) = "approved"}
<1>1. \A t \in QrTransactions : CodesOf(t)' = CodesOf(t)
  <2>1. \A k \in DOMAIN codes : codes[k] \in CodeTypes
    BY RowOfTable DEF OidcInv, OidcTyped, OidcRowsTyped
  <2>2. DOMAIN codes' = DOMAIN codes /\ \A k \in DOMAIN codes : codes'[k].qr = codes[k].qr
    BY <2>1 DEF DeleteOidcAccount, AllDeleted, CodeTypes
  <2> QED BY <2>2 DEF CodesOf
<1>2. \A t \in QrTransactions :
        qr'[t].status = IF qr[t].status = "approved" \/ CodesOf(t) # {}
                          THEN "deleted" ELSE qr[t].status
  <2>1. qr \in [QrTransactions -> QrTypes]
    BY DEF OidcInv, OidcTyped, OidcRowsTyped
  <2> QED BY <2>1 DEF DeleteOidcAccount, QrTypes
<1>3. \A t \in QrTransactions : CodesOf(t) # {} => qr[t].status # "none"
  BY DEF CodesOf, OidcInv, SingleUse
<1>4. \A t \in QrTransactions : GrantOfQr(t)' = IF t \in G THEN "void" ELSE GrantOfQr(t)
  BY <1>1, <1>2, <1>3 DEF GrantOfQr
<1>5. \A t \in QrTransactions : HolderOfQr(t)' = HolderOfQr(t)
  BY <1>2, <1>3 DEF HolderOfQr
<1>6. QrVoids(G)
  BY <1>4, <1>5 DEF QrVoids, QrStates, QrHolders
<1> QED BY <1>6 DEF QrGrantStep

\* The status of a code says nothing of its transaction.
LEMMA CodeMoveStutters ==
  ASSUME OidcInv, NEW k \in DOMAIN codes, UNCHANGED qr,
         UNCHANGED codes \/ (\E status : codes' = [codes EXCEPT ![k].status = status])
                         \/ codes' = [codes EXCEPT ![k].overdue = TRUE]
  PROVE  QrGrantStep
<1>1. codes[k] \in CodeTypes
  BY RowOfTable DEF OidcInv, OidcTyped, OidcRowsTyped
<1>2. DOMAIN codes' = DOMAIN codes /\ \A m \in DOMAIN codes : codes'[m].qr = codes[m].qr
  BY <1>1 DEF CodeTypes
<1> QED BY <1>2, QrStutters DEF CodesOf

\* Each step of the calls is a step of the grants or none.
LEMMA QrNextIsGrantStep ==
  ASSUME OidcInv, [OidcNext]_oidcVars
  PROVE  QrGrantStep
<1>1. CASE UNCHANGED oidcVars
  BY <1>1, QrStutters DEF oidcVars, qrRows, CodesOf
<1>2. ASSUME NEW c \in OidcCalls, OidcBegins(c) \/ Reading(c)
      PROVE  QrGrantStep
  <2>1. UNCHANGED qrRows
    BY <1>2, BeginsOK, ReadingOK
  <2> QED BY <2>1, QrStutters DEF qrRows, CodesOf
<1>3. ASSUME NEW c \in OidcCalls, ExpireQr(c) \/ ApproveQr(c) \/ DenyQr(c)
      PROVE  QrGrantStep
  BY <1>3, QrDecisionIsGrantStep
<1>4. ASSUME NEW c \in OidcCalls,
             \/ InsertPairwise(c) \/ UpsertGrant(c) \/ InsertAccessToken(c)
             \/ EndAccessToken(c) \/ InsertTokenFamily(c) \/ EndTokenFamily(c)
             \/ RevokeTokenFamily(c) \/ RotateTokenFamily(c)
      PROVE  QrGrantStep
  <2>1. UNCHANGED qrRows
    BY <1>4 DEF InsertPairwise, UpsertGrant, InsertAccessToken, EndAccessToken,
       InsertTokenFamily, EndTokenFamily, RevokeTokenFamily, RotateTokenFamily
  <2> QED BY <2>1, QrStutters DEF qrRows, CodesOf
<1>5. ASSUME NEW c \in OidcCalls, DeliverCode(c)
      PROVE  QrGrantStep
  BY <1>5, QrDeliveryIsGrantStep
<1>6. ASSUME NEW c \in OidcCalls, ExpireCode(c) \/ ConsumeCode(c)
      PROVE  QrGrantStep
  <2>1. oidcCall[c].arg \in DOMAIN codes
    BY <1>6 DEF OidcInv, CallsOK, CallOK, StepOK, HoldsRows, ExpireCode, ConsumeCode
  <2>2. PICK k \in DOMAIN codes : k = oidcCall[c].arg
    BY <2>1
  <2>3. /\ UNCHANGED qr
        /\ UNCHANGED codes \/ (\E status : codes' = [codes EXCEPT ![k].status = status])
    BY <1>6, <2>2 DEF ExpireCode, ConsumeCode, MoveCode
  <2> QED BY <2>3, CodeMoveStutters
<1>7. ASSUME NEW t \in QrTransactions, OpenQr(t) \/ LapseQr(t)
      PROVE  QrGrantStep
  BY <1>7, QrOpenIsGrantStep
<1>8. ASSUME NEW k \in DOMAIN codes, LapseCode(k)
      PROVE  QrGrantStep
  BY <1>8, CodeMoveStutters DEF LapseCode
<1>9. ASSUME \/ \E a \in DOMAIN accessTokens : LapseAccessToken(a)
             \/ \E f \in DOMAIN tokenFamilies : LapseTokenFamily(f)
      PROVE  QrGrantStep
  <2>1. UNCHANGED qrRows
    BY <1>9 DEF LapseAccessToken, LapseTokenFamily
  <2> QED BY <2>1, QrStutters DEF qrRows, CodesOf
<1>10. CASE DeleteOidcAccount
  BY <1>10, DeletionIsGrantStep
<1> QED
  BY <1>1, <1>2, <1>3, <1>4, <1>5, <1>6, <1>7, <1>8, <1>9, <1>10
  DEF OidcNext, OidcBegins, Reading

\* A step of the grants, as QrGrant has it.
LEMMA QrGrantStepIsNext ==
  ASSUME OidcInv, OidcInv', QrGrantStep
  PROVE  QrGrant!GrantNext \/ UNCHANGED <<[t \in QrTransactions |-> QrGrantState(t)],
                                          [t \in QrTransactions |->
                                             IF qr[t].status = "none" THEN NoBrowser ELSE t]>>
<1>1. [t \in QrTransactions |-> QrGrantState(t)] = QrStates
  BY QrStatesAreGrants
<1>2. [t \in QrTransactions |-> QrGrantState(t)]' = QrStates'
  BY QrStatesAreGrantsNext
<1>3. [t \in QrTransactions |-> IF qr[t].status = "none" THEN NoBrowser ELSE t] = QrHolders
      /\ [t \in QrTransactions |-> IF qr[t].status = "none" THEN NoBrowser ELSE t]' = QrHolders'
  BY DEF QrHolders, HolderOfQr
<1>4. CASE UNCHANGED <<QrStates, QrHolders>>
  BY <1>1, <1>2, <1>3, <1>4
<1>5. ASSUME NEW t \in QrTransactions, QrAsks(t)
      PROVE  QrGrant!AskFor(t, t)
  <2>1. \A u \in QrTransactions : QrStates[u] \in {"open", "approved"} => QrHolders[u] = u
    BY DEF QrStates, QrHolders, GrantOfQr, HolderOfQr
  <2> QED BY <1>1, <1>2, <1>3, <1>5, <2>1 DEF QrAsks, QrGrant!AskFor, QrGrant!Live
<1>6. ASSUME NEW t \in QrTransactions, NEW from, NEW to, QrMoves(t, from, to)
      PROVE  QrGrant!Move(t, from, to)
  BY <1>1, <1>2, <1>3, <1>6 DEF QrMoves, QrGrant!Move
<1>7. ASSUME NEW G \in SUBSET QrTransactions, QrVoids(G)
      PROVE  QrGrant!Void(G)
  BY <1>1, <1>2, <1>3, <1>7 DEF QrVoids, QrGrant!Void, QrGrant!Live
<1> QED BY <1>4, <1>5, <1>6, <1>7 DEF QrGrantStep, QrGrant!GrantNext

\* However polls, approvals, denials, deadlines and the deletion overlap, a
\* transaction yields one code at most, only after an approval, and never
\* once it was denied or has expired
\* (approve_oidc_authorize_qr_transaction, deliver_oidc_authorize_qr_code).
THEOREM QrTransactionsAreGrants == OidcSpec => QrImplementsGrant
<1>1. OidcInit => QrGrant!GrantInit
  <2> SUFFICES ASSUME OidcInit
               PROVE  QrGrant!GrantInit
    OBVIOUS
  <2>1. [t \in QrTransactions |-> QrGrantState(t)] = QrStates
    BY OidcInitInv, QrStatesAreGrants
  <2>2. QrStates = [t \in QrTransactions |-> "absent"]
    BY DEF OidcInit, QrStates, GrantOfQr
  <2> QED BY <2>1, <2>2 DEF OidcInit, QrGrant!GrantInit
<1>2. OidcInv /\ OidcInv' /\ [OidcNext]_oidcVars
        => [QrGrant!GrantNext]_<<[t \in QrTransactions |-> QrGrantState(t)],
                                 [t \in QrTransactions |->
                                    IF qr[t].status = "none" THEN NoBrowser ELSE t]>>
  BY QrNextIsGrantStep, QrGrantStepIsNext
<1> QED BY <1>1, <1>2, OidcAlways, PTL DEF OidcSpec, QrImplementsGrant, QrGrant!GrantSpec

-----------------------------------------------------------------------------
(* AuthSessions: the inductive invariant. *)

AuthSteps ==
    {"idle", "login", "refresh", "access", "revoke", "list", "verifying", "consuming",
     "listing", "inserting", "recording", "insertingFamily", "byPrevious", "loadSession",
     "loadUser", "rotatingAccess", "rotatingFamily", "viewer", "revoking", "ok", "failed"}

LoginSteps == {"login", "verifying", "consuming", "listing", "inserting", "recording",
               "insertingFamily"}

\* Steps of a request that holds a token nobody has yet, or a session that
\* has no family yet, or a row it has read
Holding  == {"recording", "insertingFamily", "rotatingFamily"}
Opening  == {"recording", "insertingFamily"}
RowSteps == Holding \cup {"loadSession", "loadUser", "rotatingAccess", "viewer"}

CallTypes ==
    [pc : AuthSteps, kind : RequestKinds, device : Devices, arg : Nat, row : Nat,
     fresh : Nat, todo : Seq(Writes), then : {"failed", "ok", "inserting"},
     stale : BOOLEAN]

\* The fields of a request fit the step it is at.
CallFits(c) ==
    /\ c \in CallTypes
    /\ c.pc \in LoginSteps => c.kind = "login" /\ c.arg \in LoginChallenges
    /\ c.pc = "revoking" /\ c.then = "inserting" =>
         c.kind = "login" /\ c.arg \in LoginChallenges
    /\ c.pc \in {"refresh", "access", "revoke", "list"} => c.kind = c.pc
    /\ c.pc \in {"refresh", "access"} => c.arg \in handedOut
    /\ c.pc = "revoke" => c.arg \in Sessions
    /\ c.pc \in RowSteps => c.row \in Sessions
    /\ c.pc = "revoking" <=> c.todo # <<>>

CallsFit == \A r \in AuthRequests : CallFits(call[r])

\* A token that is not handed out yet is held by one request.
TokensAreApart ==
    \A r \in AuthRequests : call[r].pc \in Holding =>
      /\ call[r].fresh \in 1..tokenCount \ handedOut
      /\ \A q \in AuthRequests \ {r} :
           call[q].pc \in Holding => call[q].fresh # call[r].fresh

\* A session whose login goes on has no family, and one login.
RowsAreApart ==
    \A r \in AuthRequests : call[r].pc \in Opening =>
      /\ families[call[r].row].status = "none" \/ sessions[call[r].row].status = "deleted"
      /\ \A q \in AuthRequests \ {r} : call[q].pc \in Opening => call[q].row # call[r].row

\* How far a stale request can get
StaleHolds(c) == c.stale =>
    /\ c.pc \in RequestKinds \cup
                {"verifying", "loadSession", "byPrevious", "revoking", "failed"}
    /\ c.pc \in RequestKinds => Stale(c.pc, c.arg)
    /\ c.pc = "verifying" => ~userActive
    /\ c.pc = "loadSession" => ~IsActive(c.row)
    /\ c.pc = "revoking" => c.then = "failed"

StaleHold == \A r \in AuthRequests : StaleHolds(call[r])

IsFamilyWrite(w, s) == w.table = "family" /\ w.row = s

\* A session is written to before its family is, or after it, or when its
\* family has ended; a family is ended by being written to.
Paired(todo) ==
    \A k \in DOMAIN todo :
      /\ todo[k].table = "family" => todo[k].status \notin {"none", "active", "deleted"}
      /\ todo[k].table = "session" =>
           /\ todo[k].status = "revoked"
           /\ \/ \E j \in DOMAIN todo : j > k /\ IsFamilyWrite(todo[j], todo[k].row)
              \/ families[todo[k].row].status \notin {"none", "active"}
              \/ /\ families[todo[k].row].status = "active"
                 /\ \E j \in DOMAIN todo : j < k /\ IsFamilyWrite(todo[j], todo[k].row)

WritesPair(c) == Paired(c.todo)

WritesArePaired == \A r \in AuthRequests : WritesPair(call[r])

AuthInv ==
    /\ AuthTypeOK /\ call \in [AuthRequests -> CallTypes] /\ CallsFit
    /\ TokensAreApart /\ RowsAreApart /\ StaleHold /\ NothingOutlivesDeletion
    /\ WritesArePaired /\ LineagesEndTogether

LEMMA WaitingFields ==
  ASSUME NEW ask \in RequestKinds \X Devices
  PROVE  /\ Waiting(ask) \in CallTypes
         /\ Waiting(ask).pc = "idle" /\ Waiting(ask).todo = <<>> /\ ~Waiting(ask).stale
BY EmptySeq DEF Waiting, CallTypes, AuthSteps

LEMMA IdleFits ==
  ASSUME NEW c \in CallTypes, c.pc \in {"idle", "ok", "failed"}, c.todo = <<>>,
         c.stale => c.pc = "failed"
  PROVE  CallFits(c) /\ StaleHolds(c) /\ WritesPair(c)
<1>1. DOMAIN c.todo = {}
  BY EmptySeq
<1> QED BY <1>1 DEF CallFits, StaleHolds, WritesPair, Paired, LoginSteps, RowSteps, Holding,
                    RequestKinds

LEMMA AuthInvInit == AuthInit => AuthInv
<1> SUFFICES ASSUME AuthInit PROVE AuthInv
  OBVIOUS
<1> DEFINE S == [device : Devices, status : SessionStatuses, access : Nat, expired : BOOLEAN]
           F == [status : FamilyStatuses, current : Nat, previous : Nat,
                 expired : BOOLEAN, orphan : BOOLEAN]
           first == [device |-> FirstDevice, status |-> "active", access |-> 1,
                     expired |-> FALSE]
           family == [NoFamily EXCEPT !.status = "active", !.current = 1]
<1>1. first \in S /\ family \in F /\ family.status = "active"
  BY FirstDeviceAssumption DEF NoFamily, SessionStatuses, FamilyStatuses
<1>2. sessions = <<first>> /\ families = <<family>> /\ Sessions = {1}
  BY DEF AuthInit, Sessions
<1>3. PICK mix \in RequestMixes : call = [r \in AuthRequests |-> Waiting(mix[r])]
  BY DEF AuthInit
<1>4. \A r \in AuthRequests : mix[r] \in RequestKinds \X Devices
  BY RequestMixesAssumption
<1>5. /\ call \in [AuthRequests -> CallTypes]
      /\ \A r \in AuthRequests : call[r].pc = "idle" /\ call[r].todo = <<>> /\ ~call[r].stale
  BY <1>3, <1>4, WaitingFields
<1>6. CallsFit /\ StaleHold /\ WritesArePaired
  BY <1>5, IdleFits DEF CallsFit, StaleHold, WritesArePaired
<1>7. TokensAreApart /\ RowsAreApart
  BY <1>5 DEF TokensAreApart, RowsAreApart, Holding, Opening
<1>8. AuthTypeOK
  <2>1. sessions \in Seq(S) /\ families \in Seq(F) /\ Len(sessions) = 1 /\ Len(families) = 1
    BY <1>1, <1>2, SeqDef
  <2> HIDE DEF first, family
  <2> QED BY <1>5, <2>1 DEF AuthInit, AuthTypeOK, CallTypes
<1>9. NothingOutlivesDeletion /\ LineagesEndTogether
  BY <1>2 DEF AuthInit, NothingOutlivesDeletion, LineagesEndTogether
<1> QED BY <1>5, <1>6, <1>7, <1>8, <1>9 DEF AuthInv

-----------------------------------------------------------------------------
(* AuthSessions: what every step leaves alone *)

\* What is spent, ended or deleted stays so, and a token that somebody holds
\* is not given to another row.
SpentStaysSpent ==
    /\ userActive' => userActive
    /\ usedChallenges \subseteq usedChallenges'
    /\ handedOut \subseteq handedOut'
    /\ Sessions \subseteq Sessions'
    /\ \A s \in Sessions :
         /\ sessions'[s].status = "active" => sessions[s].status = "active"
         /\ sessions[s].status = "deleted" => sessions'[s].status = "deleted"
         /\ families[s].status # "none" => families'[s].status # "none"
         /\ families[s].status \notin {"none", "active"} =>
              families'[s].status \notin {"none", "active"}
    /\ \A s \in Sessions' : \A n \in handedOut :
         /\ sessions'[s].status = "active" /\ sessions'[s].access = n =>
              s \in Sessions /\ sessions[s].access = n
         /\ families'[s].status = "active" /\ families'[s].current = n =>
              s \in Sessions /\ families[s].current = n /\ families[s].status = "active"

LEMMA StaleStays ==
  ASSUME SpentStaysSpent, NEW kind, NEW n, Stale(kind, n),
         kind \in {"refresh", "access"} => n \in handedOut
  PROVE  Stale(kind, n)'
<1>1. CASE ~userActive \/ (kind = "login" /\ n \in usedChallenges)
  BY <1>1 DEF Stale, SpentStaysSpent
<1>2. CASE kind = "refresh" /\ ~\E s \in ByCurrentToken(n) :
                                   IsActive(s) /\ families[s].status = "active"
  <2> SUFFICES ASSUME NEW s \in ByCurrentToken(n)', IsActive(s)',
                      families'[s].status = "active"
               PROVE  FALSE
    BY <1>2 DEF Stale
  <2>1. s \in Sessions' /\ families'[s].current = n
    BY DEF ByCurrentToken
  <2>2. s \in Sessions /\ families[s].current = n /\ families[s].status = "active"
    BY <1>2, <2>1 DEF SpentStaysSpent
  <2>3. IsActive(s)
    BY <2>2 DEF SpentStaysSpent, IsActive
  <2> QED BY <1>2, <2>2, <2>3 DEF ByCurrentToken
<1>3. CASE kind = "access" /\ ~\E s \in ByAccessToken(n) : IsActive(s)
  <2> SUFFICES ASSUME NEW s \in ByAccessToken(n)', IsActive(s)' PROVE FALSE
    BY <1>3 DEF Stale
  <2>1. s \in Sessions' /\ sessions'[s].access = n /\ sessions'[s].status = "active"
    BY DEF ByAccessToken, IsActive
  <2>2. s \in Sessions /\ sessions[s].access = n
    BY <1>3, <2>1 DEF SpentStaysSpent
  <2>3. IsActive(s)
    BY <2>1, <2>2 DEF SpentStaysSpent, IsActive
  <2> QED BY <1>3, <2>2, <2>3 DEF ByAccessToken, IsActive
<1> QED BY <1>1, <1>2, <1>3 DEF Stale

LEMMA WritesStay ==
  ASSUME SpentStaysSpent, NEW todo \in Seq(Writes)
  PROVE  todo \in Seq(Writes')
<1>1. Writes \subseteq Writes'
  BY DEF Writes, SpentStaysSpent
<1> QED BY <1>1, SeqDef

LEMMA CallFitsOn ==
  ASSUME SpentStaysSpent, NEW c, CallFits(c), StaleHolds(c)
  PROVE  CallFits(c)' /\ StaleHolds(c)'
<1>1. c \in CallTypes /\ c.todo \in Seq(Writes)
  BY DEF CallFits, CallTypes
<1>2. c \in CallTypes'
  <2>1. c.todo \in Seq(Writes')
    BY <1>1, WritesStay
  <2> QED BY <1>1, <2>1 DEF CallTypes
<1>3. CallFits(c)'
  BY <1>2 DEF CallFits, SpentStaysSpent
<1>4. StaleHolds(c)'
  <2> SUFFICES ASSUME c.stale PROVE StaleHolds(c)'
    BY DEF StaleHolds
  <2>1. ASSUME c.pc \in RequestKinds PROVE Stale(c.pc, c.arg)'
    <3>1. c.pc \in {"refresh", "access"} => c.arg \in handedOut
      BY DEF CallFits
    <3>2. Stale(c.pc, c.arg)
      BY <2>1 DEF StaleHolds
    <3> QED BY <3>1, <3>2, StaleStays
  <2>2. ASSUME c.pc = "loadSession" PROVE ~IsActive(c.row)'
    <3>1. c.row \in Sessions
      BY <2>2 DEF CallFits, RowSteps
    <3> QED BY <2>2, <3>1 DEF StaleHolds, SpentStaysSpent, IsActive
  <2>3. c.pc = "verifying" => ~userActive'
    BY DEF StaleHolds, SpentStaysSpent
  <2> QED BY <2>1, <2>2, <2>3 DEF StaleHolds
<1> QED BY <1>3, <1>4

LEMMA CallStays ==
  ASSUME SpentStaysSpent, NEW c, CallFits(c), StaleHolds(c), WritesPair(c)
  PROVE  CallFits(c)' /\ StaleHolds(c)' /\ WritesPair(c)'
<1>1. CallFits(c)' /\ StaleHolds(c)'
  BY CallFitsOn
<1>2. c.todo \in Seq(Writes)
  BY DEF CallFits, CallTypes
<1>3. WritesPair(c)'
  <2> SUFFICES ASSUME NEW k \in DOMAIN c.todo
               PROVE  /\ c.todo[k].table = "family" =>
                           c.todo[k].status \notin {"none", "active", "deleted"}
                      /\ c.todo[k].table = "session" =>
                           /\ c.todo[k].status = "revoked"
                           /\ \/ \E j \in DOMAIN c.todo : j > k /\ IsFamilyWrite(c.todo[j], c.todo[k].row)
                              \/ families'[c.todo[k].row].status \notin {"none", "active"}
                              \/ /\ families'[c.todo[k].row].status = "active"
                                 /\ \E j \in DOMAIN c.todo : j < k /\ IsFamilyWrite(c.todo[j], c.todo[k].row)
    BY DEF WritesPair, Paired, IsFamilyWrite
  <2>1. c.todo[k] \in Writes
    BY <1>2, LenProperties
  <2>2. c.todo[k].row \in Sessions
    BY <2>1 DEF Writes
  <2> QED BY <2>2 DEF WritesPair, Paired, SpentStaysSpent
<1> QED BY <1>1, <1>3

\* A step of one request: the others stay.
LEMMA OthersStay ==
  ASSUME AuthInv, SpentStaysSpent, NEW r \in AuthRequests, NEW next,
         call' = [call EXCEPT ![r] = next],
         CallFits(next)', StaleHolds(next)', WritesPair(next)'
  PROVE  call' \in [AuthRequests -> CallTypes'] /\ CallsFit' /\ StaleHold' /\ WritesArePaired'
<1>1. \A q \in AuthRequests :
        CallFits(call[q])' /\ StaleHolds(call[q])' /\ WritesPair(call[q])'
  <2> SUFFICES ASSUME NEW q \in AuthRequests
               PROVE  CallFits(call[q])' /\ StaleHolds(call[q])' /\ WritesPair(call[q])'
    OBVIOUS
  <2>1. CASE q = r
    <3>1. call'[q] = next
      BY <2>1 DEF AuthInv
    <3> QED BY <3>1 DEF CallFits, StaleHolds, WritesPair
  <2>2. CASE q # r
    <3> DEFINE c == call[q]
    <3>1. call'[q] = c
      BY <2>2 DEF AuthInv
    <3>2. CallFits(c) /\ StaleHolds(c) /\ WritesPair(c)
      BY DEF AuthInv, CallsFit, StaleHold, WritesArePaired
    <3>3. PICK d : d = c
      OBVIOUS
    <3>4. CallFits(d)' /\ StaleHolds(d)' /\ WritesPair(d)'
      BY <3>2, <3>3, CallStays
    <3>5. call'[q] = d
      BY <3>1, <3>3
    <3> QED BY <3>4, <3>5 DEF CallFits, StaleHolds, WritesPair
  <2> QED BY <2>1, <2>2
<1>2. call' \in [AuthRequests -> CallTypes']
  BY <1>1 DEF CallFits, AuthInv
<1> QED BY <1>1, <1>2 DEF CallsFit, StaleHold, WritesArePaired

-----------------------------------------------------------------------------
(* AuthSessions: steps that only read *)

LEMMA ReadStep ==
  ASSUME AuthInv, NEW r \in AuthRequests, call[r].todo = <<>>, UNCHANGED authRows,
         NEW next, call' = [call EXCEPT ![r] = next], next.pc \notin Holding,
         CallFits(next), StaleHolds(next), WritesPair(next)
  PROVE  AuthInv'
<1>1. SpentStaysSpent /\ Sessions' = Sessions
  BY DEF SpentStaysSpent, authRows, Sessions
<1>2. CallFits(next)' /\ StaleHolds(next)' /\ WritesPair(next)'
  BY <1>1, CallStays
<1>3. call' \in [AuthRequests -> CallTypes'] /\ CallsFit' /\ StaleHold' /\ WritesArePaired'
  BY <1>1, <1>2, OthersStay
<1>4. \A q \in AuthRequests \ {r} : call'[q] = call[q]
  BY DEF AuthInv
<1>5. call'[r] = next
  BY DEF AuthInv
<1>6. TokensAreApart' /\ RowsAreApart'
  BY <1>4, <1>5 DEF AuthInv, TokensAreApart, RowsAreApart, authRows, Holding, Opening
<1>7. AuthTypeOK'
  <2>1. \A q \in AuthRequests : call'[q].todo \in Seq(Writes')
    BY <1>3 DEF CallTypes
  <2> QED BY <2>1 DEF AuthInv, AuthTypeOK, authRows
<1>8. NothingOutlivesDeletion'
  BY DEF AuthInv, NothingOutlivesDeletion, authRows, Sessions
<1>9. LineagesEndTogether'
  <2> SUFFICES ASSUME NEW s \in Sessions, sessions[s].status = "revoked",
                      families[s].status = "active", ~families[s].orphan
               PROVE  \E q \in AuthRequests : \E k \in DOMAIN call'[q].todo :
                        call'[q].todo[k].table = "family" /\ call'[q].todo[k].row = s
    BY <1>1 DEF LineagesEndTogether, authRows
  <2>1. PICK q \in AuthRequests : \E k \in DOMAIN call[q].todo :
          call[q].todo[k].table = "family" /\ call[q].todo[k].row = s
    BY DEF AuthInv, LineagesEndTogether
  <2>2. q # r
    BY <2>1, EmptySeq
  <2> QED BY <1>4, <2>1, <2>2
<1> QED BY <1>3, <1>6, <1>7, <1>8, <1>9 DEF AuthInv

\* The end of a request
LEMMA EndFits ==
  ASSUME AuthInv, NEW r \in AuthRequests, NEW pc \in {"ok", "failed"},
         call[r].stale => pc = "failed"
  PROVE  LET next == Finished(call[r], pc)
         IN  /\ CallFits(next) /\ StaleHolds(next) /\ WritesPair(next)
             /\ next.pc = pc /\ next.todo = <<>>
<1> DEFINE c == call[r]
           ask == <<c.kind, c.device>>
           next == Finished(c, pc)
<1>1. c \in CallTypes
  BY DEF AuthInv
<1>2. Waiting(ask) \in CallTypes /\ Waiting(ask).todo = <<>>
  BY <1>1, WaitingFields DEF CallTypes
<1>3. c.stale \in BOOLEAN /\ pc \in AuthSteps
  BY <1>1 DEF CallTypes, AuthSteps
<1>4. next = [Waiting(ask) EXCEPT !.pc = pc, !.stale = c.stale]
  BY DEF Finished
<1> HIDE DEF c, ask, next
<1>5. next \in CallTypes /\ next.pc = pc /\ next.todo = <<>> /\ next.stale = c.stale
  BY <1>2, <1>3, <1>4 DEF CallTypes
<1>6. next.stale => next.pc = "failed"
  BY <1>5 DEF c
<1> QED BY <1>5, <1>6, IdleFits DEF next, c

\* The next step of a request
LEMMA MoveFits ==
  ASSUME AuthInv, NEW r \in AuthRequests, NEW pc \in AuthSteps
  PROVE  LET next == [call[r] EXCEPT !.pc = pc]
         IN  /\ next \in CallTypes /\ next.pc = pc /\ next.kind = call[r].kind
             /\ next.arg = call[r].arg /\ next.row = call[r].row
             /\ next.fresh = call[r].fresh /\ next.todo = call[r].todo
             /\ next.then = call[r].then /\ next.stale = call[r].stale
             /\ next.device = call[r].device
<1> DEFINE c == call[r]
<1>1. c \in CallTypes
  BY DEF AuthInv
<1> HIDE DEF c
<1>2. LET next == [c EXCEPT !.pc = pc]
      IN  /\ next \in CallTypes /\ next.pc = pc /\ next.kind = c.kind
          /\ next.arg = c.arg /\ next.row = c.row
          /\ next.fresh = c.fresh /\ next.todo = c.todo
          /\ next.then = c.then /\ next.stale = c.stale
          /\ next.device = c.device
  BY <1>1 DEF CallTypes
<1> QED BY <1>2 DEF c

\* A step of a request that goes on, or ends, and has nothing to write
LEMMA GotoStep ==
  ASSUME AuthInv, NEW r \in AuthRequests, NEW pc \in AuthSteps \ Holding, Goto(r, pc),
         UNCHANGED authRows, call[r].todo = <<>>, pc \notin {"idle", "revoking"},
         call[r].stale => pc \in {"failed", "byPrevious"} \/ (pc = "verifying" /\ ~userActive),
         pc \in LoginSteps => call[r].kind = "login" /\ call[r].arg \in LoginChallenges,
         pc \notin RequestKinds, pc \in RowSteps => call[r].row \in Sessions
  PROVE  AuthInv'
<1>1. CASE pc \in {"ok", "failed"}
  <2> DEFINE next == Finished(call[r], pc)
  <2>1. call' = [call EXCEPT ![r] = next]
    BY <1>1 DEF Goto
  <2>2. /\ CallFits(next) /\ StaleHolds(next) /\ WritesPair(next)
        /\ next.pc = pc
    BY <1>1, EndFits
  <2> HIDE DEF next
  <2> QED BY <1>1, <2>1, <2>2, ReadStep DEF Holding
<1>2. CASE pc \notin {"ok", "failed"}
  <2> DEFINE next == [call[r] EXCEPT !.pc = pc]
  <2>1. call' = [call EXCEPT ![r] = next]
    BY <1>2 DEF Goto
  <2>2. /\ next \in CallTypes /\ next.pc = pc /\ next.kind = call[r].kind
        /\ next.arg = call[r].arg /\ next.row = call[r].row
        /\ next.todo = call[r].todo /\ next.stale = call[r].stale
    BY MoveFits
  <2> HIDE DEF next
  <2>3. CallFits(next)
    BY <2>2 DEF CallFits, RequestKinds
  <2>4. StaleHolds(next)
    BY <1>2, <2>2 DEF StaleHolds
  <2>5. WritesPair(next)
    BY <2>2, EmptySeq DEF WritesPair, Paired
  <2> QED BY <2>1, <2>2, <2>3, <2>4, <2>5, ReadStep
<1> QED BY <1>1, <1>2

\* A request that read the rows of others begins to write to them.
LEMMA RevokeThenStep ==
  ASSUME AuthInv, NEW r \in AuthRequests, call[r].todo = <<>>, UNCHANGED authRows,
         NEW todo \in Seq(Writes), Paired(todo), NEW then \in {"ok", "failed", "inserting"},
         RevokeThen(r, todo, then), call[r].stale => then = "failed",
         then = "inserting" => call[r].kind = "login" /\ call[r].arg \in LoginChallenges
  PROVE  AuthInv'
<1>1. CASE todo = <<>>
  <2>1. Goto(r, then)
    BY <1>1 DEF RevokeThen
  <2> QED BY <2>1, GotoStep DEF AuthSteps, Holding, LoginSteps, RequestKinds, RowSteps
<1>2. CASE todo # <<>>
  <2> DEFINE c == call[r]
             next == [c EXCEPT !.pc = "revoking", !.todo = todo, !.then = then]
  <2>1. c \in CallTypes /\ call \in [AuthRequests -> CallTypes]
    BY DEF AuthInv
  <2>2. call' = [call EXCEPT ![r] = next]
    BY <1>2, <2>1 DEF RevokeThen
  <2> HIDE DEF c
  <2>3. /\ next \in CallTypes /\ next.pc = "revoking" /\ next.kind = c.kind
        /\ next.arg = c.arg /\ next.todo = todo /\ next.stale = c.stale /\ next.then = then
    BY <2>1 DEF CallTypes, AuthSteps
  <2> HIDE DEF next
  <2>4. CallFits(next)
    BY <1>2, <2>3 DEF CallFits, c, LoginSteps, RowSteps, Holding
  <2>5. StaleHolds(next) /\ WritesPair(next)
    BY <2>3 DEF StaleHolds, WritesPair, c, RequestKinds
  <2> QED BY <2>2, <2>3, <2>4, <2>5, ReadStep DEF Holding
<1> QED BY <1>1, <1>2

\* Requests write to rows in pairs.
LEMMA FamilyWritePairs ==
  ASSUME NEW s \in Sessions
  PROVE  <<Write("family", s, "revoked")>> \in Seq(Writes) /\
         Paired(<<Write("family", s, "revoked")>>)
<1>1. Write("family", s, "revoked") \in Writes
  BY DEF Write, Writes, SessionStatuses
<1> QED BY <1>1 DEF Paired, Write

LEMMA LineagePairs ==
  ASSUME NEW s \in Sessions, NEW status \in {"revoked", "expired"}
  PROVE  Lineage(s, status) \in Seq(Writes) /\ Paired(Lineage(s, status))
<1>1. Write("session", s, "revoked") \in Writes /\ Write("family", s, status) \in Writes
  BY DEF Write, Writes, SessionStatuses, FamilyStatuses
<1> QED BY <1>1 DEF Paired, Write, Lineage, IsFamilyWrite

LEMMA FamilyThenSessionPairs ==
  ASSUME NEW s \in Sessions, NEW status \in {"expired", "reused"}, families[s].status # "none"
  PROVE  FamilyThenSession(s, status) \in Seq(Writes) /\ Paired(FamilyThenSession(s, status))
<1>1. Write("session", s, "revoked") \in Writes /\ Write("family", s, status) \in Writes
  BY DEF Write, Writes, SessionStatuses, FamilyStatuses
<1> QED BY <1>1 DEF Paired, Write, FamilyThenSession, IsFamilyWrite

LEMMA LineagesPair ==
  ASSUME AuthTypeOK, NEW rows \in SUBSET Sessions, NEW order \in Orders(rows)
  PROVE  Lineages(order) \in Seq(Writes) /\ Paired(Lineages(order))
<1> DEFINE n == Cardinality(rows)
           todo == Lineages(order)
           first(k) == Write("session", order[(k + 1) \div 2], "revoked")
           second(k) == Write("family", order[(k + 1) \div 2], "revoked")
<1>1. n \in Nat
  <2>1. IsFiniteSet(Sessions)
    BY LenProperties, FS_Interval DEF AuthTypeOK, Sessions
  <2> QED BY <2>1, FS_Subset, FS_CardinalityType
<1>2. order \in [1..n -> rows] /\ Len(order) = n
  BY <1>1, SeqDef, LenProperties DEF Orders
<1>3. DOMAIN todo = 1..2 * n /\ \A k \in 1..2 * n :
        todo[k] = IF k % 2 = 1 THEN first(k) ELSE second(k)
  <2>1. \A x : Head(Lineage(x, "revoked")) = Write("session", x, "revoked")
    BY DEF Lineage
  <2>2. \A x : Last(Lineage(x, "revoked")) = Write("family", x, "revoked")
    BY DEF Lineage, Last
  <2> QED BY <1>2, <2>1, <2>2 DEF Lineages
<1>4. \A k \in 1..2 * n : (k + 1) \div 2 \in 1..n
  BY <1>1
<1>5. \A k \in 1..2 * n : order[(k + 1) \div 2] \in Sessions
  BY <1>2, <1>4
<1> HIDE DEF n, todo
<1>6. \A k \in 1..2 * n : todo[k] \in Writes
  BY <1>3, <1>5 DEF Write, Writes, SessionStatuses
<1>7. todo \in Seq(Writes)
  <2>1. todo = [k \in 1..2 * n |-> todo[k]]
    BY <1>3 DEF todo, Lineages
  <2>2. 2 * n \in Nat
    BY <1>1
  <2> QED BY <1>6, <2>1, <2>2, SeqDef
<1>8. Paired(todo)
  <2> SUFFICES ASSUME NEW k \in 1..2 * n
               PROVE  /\ todo[k].table = "family" => todo[k].status = "revoked"
                      /\ todo[k].table = "session" =>
                           /\ todo[k].status = "revoked"
                           /\ \E j \in 1..2 * n : j > k /\ IsFamilyWrite(todo[j], todo[k].row)
    BY <1>3 DEF Paired
  <2>1. CASE k % 2 = 1
    <3>1. k + 1 \in 1..2 * n /\ (k + 1) % 2 # 1 /\ (k + 2) \div 2 = (k + 1) \div 2
      BY <1>1, <2>1
    <3>2. todo[k] = first(k) /\ todo[k + 1] = second(k)
      BY <1>3, <2>1, <3>1
    <3> QED BY <3>1, <3>2 DEF Write, IsFamilyWrite
  <2>2. CASE k % 2 # 1
    BY <1>3, <2>2 DEF Write
  <2> QED BY <2>1, <2>2
<1> QED BY <1>7, <1>8 DEF todo

-----------------------------------------------------------------------------
(* AuthSessions: the requests up to their writes *)

LEMMA BeginsStep ==
  ASSUME AuthInv, NEW r \in AuthRequests, NEW kind \in RequestKinds, Begins(r, kind)
  PROVE  AuthInv'
<1>1. PICK n \in Arguments(kind) :
        call' = [call EXCEPT ![r].pc = kind, ![r].arg = n, ![r].stale = Stale(kind, n)]
  BY DEF Begins
<1> DEFINE c == call[r]
           stale == Stale(kind, n)
           next == [c EXCEPT !.pc = kind, !.arg = n, !.stale = stale]
<1>2. c \in CallTypes /\ call \in [AuthRequests -> CallTypes] /\ c.kind = kind /\ c.todo = <<>>
  BY DEF AuthInv, CallsFit, CallFits, Begins
<1>3. /\ n \in Nat
      /\ kind = "login" => n \in LoginChallenges
      /\ kind \in {"refresh", "access"} => n \in handedOut
      /\ kind = "revoke" => n \in Sessions
  BY LenProperties, LoginChallengesAssumption
     DEF Arguments, RequestKinds, AuthInv, AuthTypeOK, Sessions
<1>4. stale \in BOOLEAN /\ kind \in AuthSteps
  BY DEF Stale, AuthSteps, RequestKinds
<1>5. call' = [call EXCEPT ![r] = next]
  BY <1>1, <1>2
<1> HIDE DEF stale, c
<1>6. /\ next \in CallTypes /\ next.pc = kind /\ next.arg = n /\ next.stale = stale
      /\ next.kind = kind /\ next.todo = <<>>
  BY <1>2, <1>3, <1>4 DEF CallTypes
<1> HIDE DEF next
<1>7. CallFits(next)
  BY <1>3, <1>6 DEF CallFits, RequestKinds, RowSteps, Holding, LoginSteps
<1>8. StaleHolds(next)
  BY <1>6 DEF StaleHolds, stale, RequestKinds
<1>9. WritesPair(next)
  BY <1>6, EmptySeq DEF WritesPair, Paired
<1>10. next.pc \notin Holding /\ call[r].todo = <<>> /\ UNCHANGED authRows
  BY <1>2, <1>6 DEF RequestKinds, Holding, Begins, c
<1> QED BY <1>5, <1>7, <1>8, <1>9, <1>10, ReadStep

\* What a request at a step is like
LEMMA CallAt ==
  ASSUME AuthInv, NEW r \in AuthRequests
  PROVE  CallFits(call[r]) /\ StaleHolds(call[r]) /\ call \in [AuthRequests -> CallTypes]
         /\ call[r] \in CallTypes
BY DEF AuthInv, CallsFit, StaleHold

LEMMA LoginReadSteps ==
  ASSUME AuthInv, NEW r \in AuthRequests,
         VerifyChallenge(r) \/ VerifyAssertion(r) \/ PruneForLogin(r)
  PROVE  AuthInv'
<1>1. CASE VerifyChallenge(r)
  <2>1. CallFits(call[r]) /\ StaleHolds(call[r]) /\ call[r].pc = "login" /\ UNCHANGED authRows
    BY <1>1, CallAt DEF VerifyChallenge
  <2>2. call[r].todo = <<>> /\ call[r].kind = "login" /\ call[r].arg \in LoginChallenges
    BY <2>1 DEF CallFits, LoginSteps
  <2>3. CASE ChallengePasses(r) /\ Goto(r, "verifying")
    <3>1. call[r].stale => ~userActive
      BY <2>1, <2>3 DEF StaleHolds, Stale, ChallengePasses, RequestKinds
    <3> QED BY <2>1, <2>2, <2>3, <3>1, GotoStep DEF AuthSteps, Holding, RequestKinds, RowSteps
  <2>4. CASE Goto(r, "failed")
    BY <2>1, <2>2, <2>4, GotoStep DEF AuthSteps, Holding, RequestKinds, RowSteps, LoginSteps
  <2> QED BY <1>1, <2>3, <2>4 DEF VerifyChallenge
<1>2. CASE VerifyAssertion(r)
  <2>1. CallFits(call[r]) /\ StaleHolds(call[r]) /\ call[r].pc = "verifying" /\ UNCHANGED authRows
    BY <1>2, CallAt DEF VerifyAssertion
  <2>2. call[r].todo = <<>> /\ call[r].kind = "login" /\ call[r].arg \in LoginChallenges
    BY <2>1 DEF CallFits, LoginSteps
  <2>3. call[r].stale => ~userActive
    BY <2>1 DEF StaleHolds
  <2>4. CASE Goto(r, "consuming") /\ userActive
    BY <2>1, <2>2, <2>3, <2>4, GotoStep DEF AuthSteps, Holding, RequestKinds, RowSteps
  <2>5. CASE Goto(r, "failed")
    BY <2>1, <2>2, <2>5, GotoStep DEF AuthSteps, Holding, RequestKinds, RowSteps, LoginSteps
  <2> QED BY <1>2, <2>4, <2>5 DEF VerifyAssertion
<1>3. CASE PruneForLogin(r)
  <2>1. CallFits(call[r]) /\ StaleHolds(call[r]) /\ call[r].pc = "listing" /\ UNCHANGED authRows
    BY <1>3, CallAt DEF PruneForLogin
  <2>2. /\ call[r].todo = <<>> /\ call[r].kind = "login" /\ call[r].arg \in LoginChallenges
        /\ ~call[r].stale
    BY <2>1 DEF CallFits, LoginSteps, StaleHolds, RequestKinds
  <2>3. PICK order \in Orders(PrunedFor(call[r].device)), then \in {"inserting", "failed"} :
          RevokeThen(r, Lineages(order), then)
    BY <1>3 DEF PruneForLogin
  <2>4. PrunedFor(call[r].device) \in SUBSET Sessions /\ AuthTypeOK
    BY DEF PrunedFor, AuthInv
  <2>5. Lineages(order) \in Seq(Writes) /\ Paired(Lineages(order))
    BY <2>4, LineagesPair
  <2> QED BY <2>1, <2>2, <2>3, <2>5, RevokeThenStep
<1> QED BY <1>1, <1>2, <1>3

\* A request goes on with a row that it has read.
LEMMA RowStep ==
  ASSUME AuthInv, NEW r \in AuthRequests, NEW pc \in {"loadSession", "viewer"},
         NEW s \in Sessions, UNCHANGED authRows, call[r].todo = <<>>,
         call' = [call EXCEPT ![r].pc = pc, ![r].row = s],
         call[r].stale => pc = "loadSession" /\ ~IsActive(s)
  PROVE  AuthInv'
<1> DEFINE c == call[r]
           next == [c EXCEPT !.pc = pc, !.row = s]
<1>1. c \in CallTypes /\ call \in [AuthRequests -> CallTypes]
  BY CallAt
<1>2. s \in Nat /\ pc \in AuthSteps
  <2>1. Sessions = 1..Len(sessions) /\ Len(sessions) \in Nat
    BY LenProperties DEF AuthInv, AuthTypeOK, Sessions
  <2> QED BY <2>1 DEF AuthSteps
<1>3. call' = [call EXCEPT ![r] = next]
  BY <1>1
<1> HIDE DEF c
<1>4. /\ next \in CallTypes /\ next.pc = pc /\ next.row = s /\ next.stale = c.stale
      /\ next.todo = c.todo
  BY <1>1, <1>2 DEF CallTypes
<1> HIDE DEF next
<1>5. CallFits(next)
  BY <1>4 DEF CallFits, c, LoginSteps
<1>6. StaleHolds(next)
  BY <1>4 DEF StaleHolds, c, RequestKinds
<1>7. WritesPair(next)
  BY <1>4, EmptySeq DEF WritesPair, Paired, c
<1> QED BY <1>3, <1>4, <1>5, <1>6, <1>7, ReadStep DEF Holding

\* What a stale request presents is found nowhere, or with what has ended.
LEMMA StaleFindsNothing ==
  ASSUME AuthInv, NEW n
  PROVE  /\ Stale("access", n) => \A s \in ByAccessToken(n) : ~IsActive(s)
         /\ Stale("refresh", n) =>
              \A s \in ByCurrentToken(n) : families[s].status # "active" \/ ~IsActive(s)
         /\ Stale("list", n) => ~userActive
         /\ Stale("revoke", n) => \A s \in Sessions : sessions[s].status = "deleted"
BY DEF Stale, AuthInv, NothingOutlivesDeletion, ByAccessToken, ByCurrentToken, IsActive

\* Any step that may be the next one of a request that is not stale
LEMMA PlainGoto ==
  ASSUME AuthInv, NEW r \in AuthRequests, call[r].todo = <<>>, UNCHANGED authRows,
         NEW pc, Goto(r, pc),
         \/ pc = "failed" \/ pc = "byPrevious"
         \/ pc = "ok" /\ ~call[r].stale
         \/ pc \in {"loadUser", "rotatingAccess"} /\ ~call[r].stale /\ call[r].row \in Sessions
  PROVE  AuthInv'
BY GotoStep DEF AuthSteps, Holding, RequestKinds, RowSteps, LoginSteps

LEMMA RefreshReadSteps ==
  ASSUME AuthInv, NEW r \in AuthRequests,
         FindFamily(r) \/ FindReused(r) \/ LoadSession(r) \/ LoadUser(r)
  PROVE  AuthInv'
<1> DEFINE c == call[r]
<1>1. CallFits(c) /\ StaleHolds(c)
  BY CallAt
<1>2. UNCHANGED authRows
  BY DEF FindFamily, FindReused, LoadSession, LoadUser
<1>3. c.todo = <<>>
  BY <1>1 DEF CallFits, FindFamily, FindReused, LoadSession, LoadUser
<1>4. CASE FindFamily(r)
  <2> DEFINE found == ByCurrentToken(c.arg)
  <2>1. c.stale => \A s \in found : families[s].status # "active" \/ ~IsActive(s)
    BY <1>1, <1>4, StaleFindsNothing DEF FindFamily, StaleHolds, RequestKinds
  <2>2. CASE Goto(r, "byPrevious")
    BY <1>2, <1>3, <2>2, PlainGoto
  <2>3. ASSUME NEW s \in found, families[s].status # "active", Goto(r, "failed")
        PROVE  AuthInv'
    BY <1>2, <1>3, <2>3, PlainGoto
  <2>4. ASSUME NEW s \in found, RevokeThen(r, FamilyThenSession(s, "expired"), "failed")
        PROVE  AuthInv'
    <3>1. s \in Sessions /\ families[s].status # "none"
      BY DEF ByCurrentToken
    <3>2. /\ FamilyThenSession(s, "expired") \in Seq(Writes)
          /\ Paired(FamilyThenSession(s, "expired"))
      BY <3>1, FamilyThenSessionPairs
    <3> QED BY <1>2, <1>3, <2>4, <3>2, RevokeThenStep
  <2>5. ASSUME NEW s \in found, families[s].status = "active",
               call' = [call EXCEPT ![r].pc = "loadSession", ![r].row = s]
        PROVE  AuthInv'
    <3>1. s \in Sessions /\ (c.stale => ~IsActive(s))
      BY <2>1, <2>5 DEF ByCurrentToken
    <3> QED BY <1>2, <1>3, <2>5, <3>1, RowStep
  <2> QED BY <1>4, <2>2, <2>3, <2>4, <2>5 DEF FindFamily, FamilyOf
<1>5. CASE FindReused(r)
  <2>1. CASE Goto(r, "failed")
    BY <1>2, <1>3, <2>1, PlainGoto
  <2>2. ASSUME NEW s \in ByPreviousToken(c.arg),
               RevokeThen(r, FamilyThenSession(s, "reused"), "failed")
        PROVE  AuthInv'
    <3>1. s \in Sessions /\ families[s].status # "none"
      BY DEF ByPreviousToken
    <3>2. /\ FamilyThenSession(s, "reused") \in Seq(Writes)
          /\ Paired(FamilyThenSession(s, "reused"))
      BY <3>1, FamilyThenSessionPairs
    <3> QED BY <1>2, <1>3, <2>2, <3>2, RevokeThenStep
  <2> QED BY <1>5, <2>1, <2>2 DEF FindReused
<1>6. CASE LoadSession(r)
  <2> DEFINE s == c.row
  <2>1. s \in Sessions /\ (c.stale => ~IsActive(s))
    BY <1>1, <1>6 DEF LoadSession, CallFits, RowSteps, StaleHolds
  <2>2. CASE Goto(r, "failed")
    BY <1>2, <1>3, <2>2, PlainGoto
  <2>3. CASE RevokeThen(r, <<Write("family", s, "revoked")>>, "failed")
    <3>1. /\ <<Write("family", s, "revoked")>> \in Seq(Writes)
          /\ Paired(<<Write("family", s, "revoked")>>)
      BY <2>1, FamilyWritePairs
    <3> QED BY <1>2, <1>3, <2>3, <3>1, RevokeThenStep
  <2>4. CASE IsActive(s) /\ Goto(r, "loadUser")
    BY <1>2, <1>3, <2>1, <2>4, PlainGoto
  <2> QED BY <1>6, <2>2, <2>3, <2>4 DEF LoadSession
<1>7. CASE LoadUser(r)
  <2> DEFINE s == c.row
  <2>1. s \in Sessions /\ ~c.stale
    BY <1>1, <1>7 DEF LoadUser, CallFits, RowSteps, StaleHolds, RequestKinds
  <2>2. CASE Goto(r, "rotatingAccess")
    BY <1>2, <1>3, <2>1, <2>2, PlainGoto
  <2>3. CASE RevokeThen(r, Lineage(s, "revoked"), "failed")
    <3>1. Lineage(s, "revoked") \in Seq(Writes) /\ Paired(Lineage(s, "revoked"))
      BY <2>1, LineagePairs
    <3> QED BY <1>2, <1>3, <2>3, <3>1, RevokeThenStep
  <2> QED BY <1>7, <2>2, <2>3 DEF LoadUser
<1> QED BY <1>4, <1>5, <1>6, <1>7

LEMMA ViewerReadSteps ==
  ASSUME AuthInv, NEW r \in AuthRequests,
         FindSession(r) \/ ResolveViewer(r) \/ LogOut(r) \/ ListSessions(r)
  PROVE  AuthInv'
<1> DEFINE c == call[r]
<1>1. CallFits(c) /\ StaleHolds(c)
  BY CallAt
<1>2. UNCHANGED authRows
  BY DEF FindSession, ResolveViewer, LogOut, ListSessions
<1>3. c.todo = <<>>
  BY <1>1 DEF CallFits, FindSession, ResolveViewer, LogOut, ListSessions
<1>4. CASE FindSession(r)
  <2> DEFINE found == {s \in ByAccessToken(c.arg) : IsActive(s)}
  <2>1. c.stale => found = {}
    BY <1>1, <1>4, StaleFindsNothing DEF FindSession, StaleHolds, RequestKinds
  <2>2. CASE Goto(r, "failed")
    BY <1>2, <1>3, <2>2, PlainGoto
  <2>3. ASSUME NEW s \in found, RevokeThen(r, Lineage(s, "expired"), "failed") PROVE AuthInv'
    <3>1. s \in Sessions
      BY DEF ByAccessToken
    <3>2. Lineage(s, "expired") \in Seq(Writes) /\ Paired(Lineage(s, "expired"))
      BY <3>1, LineagePairs
    <3> QED BY <1>2, <1>3, <2>3, <3>2, RevokeThenStep
  <2>4. ASSUME NEW s \in found, call' = [call EXCEPT ![r].pc = "viewer", ![r].row = s]
        PROVE  AuthInv'
    <3>1. s \in Sessions /\ ~c.stale
      BY <2>1, <2>4 DEF ByAccessToken
    <3> QED BY <1>2, <1>3, <2>4, <3>1, RowStep
  <2> QED BY <1>4, <2>2, <2>3, <2>4 DEF FindSession
<1>5. CASE ResolveViewer(r)
  <2> DEFINE s == c.row
  <2>1. s \in Sessions /\ ~c.stale
    BY <1>1, <1>5 DEF ResolveViewer, CallFits, RowSteps, StaleHolds, RequestKinds
  <2>2. CASE Goto(r, "ok")
    BY <1>2, <1>3, <2>1, <2>2, PlainGoto
  <2>3. CASE RevokeThen(r, Lineage(s, "revoked"), "failed")
    <3>1. Lineage(s, "revoked") \in Seq(Writes) /\ Paired(Lineage(s, "revoked"))
      BY <2>1, LineagePairs
    <3> QED BY <1>2, <1>3, <2>3, <3>1, RevokeThenStep
  <2> QED BY <1>5, <2>2, <2>3 DEF ResolveViewer
<1>6. CASE LogOut(r)
  <2> DEFINE s == c.arg
  <2>1. s \in Sessions /\ (c.stale => sessions[s].status = "deleted")
    BY <1>1, <1>6, StaleFindsNothing DEF LogOut, CallFits, StaleHolds, RequestKinds
  <2>2. CASE Goto(r, "failed")
    BY <1>2, <1>3, <2>2, PlainGoto
  <2>3. CASE /\ sessions[s].status # "deleted"
             /\ \/ RevokeThen(r, Lineage(s, "revoked"), "ok")
                \/ RevokeThen(r, <<Write("family", s, "revoked")>>, "ok")
    <3>1. Lineage(s, "revoked") \in Seq(Writes) /\ Paired(Lineage(s, "revoked"))
      BY <2>1, LineagePairs
    <3>2. /\ <<Write("family", s, "revoked")>> \in Seq(Writes)
          /\ Paired(<<Write("family", s, "revoked")>>)
      BY <2>1, FamilyWritePairs
    <3>3. CASE RevokeThen(r, Lineage(s, "revoked"), "ok")
      BY <1>2, <1>3, <2>1, <2>3, <3>1, <3>3, RevokeThenStep
    <3>4. CASE RevokeThen(r, <<Write("family", s, "revoked")>>, "ok")
      BY <1>2, <1>3, <2>1, <2>3, <3>2, <3>4, RevokeThenStep
    <3> QED BY <2>3, <3>3, <3>4
  <2> QED BY <1>6, <2>2, <2>3 DEF LogOut
<1>7. CASE ListSessions(r)
  <2>1. c.stale => ~userActive
    BY <1>1, <1>7, StaleFindsNothing DEF ListSessions, StaleHolds, RequestKinds
  <2>2. CASE Goto(r, "failed")
    BY <1>2, <1>3, <2>2, PlainGoto
  <2>3. CASE userActive
    <3> DEFINE rows == {s \in Sessions : IsActive(s) /\ sessions[s].expired}
    <3>1. PICK order \in Orders(rows) : RevokeThen(r, Lineages(order), "ok")
      BY <1>7, <2>3 DEF ListSessions
    <3>2. rows \in SUBSET Sessions /\ AuthTypeOK
      BY DEF AuthInv
    <3> HIDE DEF rows
    <3>3. Lineages(order) \in Seq(Writes) /\ Paired(Lineages(order))
      BY <3>2, LineagesPair
    <3> QED BY <1>2, <1>3, <2>1, <2>3, <3>1, <3>3, RevokeThenStep
  <2> QED BY <1>7, <2>2, <2>3 DEF ListSessions
<1> QED BY <1>4, <1>5, <1>6, <1>7

-----------------------------------------------------------------------------
(* AuthSessions: steps that write *)

SessionTypes == [device : Devices, status : SessionStatuses, access : Nat, expired : BOOLEAN]

FamilyTypes == [status : FamilyStatuses, current : Nat, previous : Nat, expired : BOOLEAN,
                orphan : BOOLEAN]

LEMMA AuthRowTypes ==
  ASSUME AuthTypeOK
  PROVE  /\ sessions \in Seq(SessionTypes) /\ families \in Seq(FamilyTypes)
         /\ Sessions = 1..Len(sessions) /\ Len(sessions) \in Nat
         /\ Len(families) = Len(sessions) /\ DOMAIN families = Sessions
         /\ sessions \in [Sessions -> SessionTypes] /\ families \in [Sessions -> FamilyTypes]
<1>1. sessions \in Seq(SessionTypes) /\ families \in Seq(FamilyTypes)
      /\ Len(families) = Len(sessions)
  BY DEF AuthTypeOK, SessionTypes, FamilyTypes
<1>2. /\ Sessions = 1..Len(sessions) /\ Len(sessions) \in Nat
      /\ DOMAIN families = 1..Len(families)
  BY <1>1, LenProperties DEF Sessions
<1>3. sessions \in [1..Len(sessions) -> SessionTypes]
      /\ families \in [1..Len(families) -> FamilyTypes]
  BY <1>1, LenProperties
<1> QED BY <1>1, <1>2, <1>3

\* Rows that change stay rows, and their number is the same.
LEMMA RowsKeepTypes ==
  ASSUME AuthInv, sessions' \in [Sessions -> SessionTypes],
         families' \in [Sessions -> FamilyTypes]
  PROVE  /\ sessions' \in Seq(SessionTypes) /\ families' \in Seq(FamilyTypes)
         /\ Len(families') = Len(sessions') /\ Sessions' = Sessions
<1>1. Sessions = 1..Len(sessions) /\ Len(sessions) \in Nat
  BY AuthRowTypes DEF AuthInv
<1>2. sessions' \in Seq(SessionTypes) /\ families' \in Seq(FamilyTypes)
  BY <1>1, SeqDef
<1>3. Len(sessions') = Len(sessions) /\ Len(families') = Len(sessions)
  BY <1>1, <1>2, LenProperties
<1>4. Sessions' = Sessions
  BY DEF Sessions
<1> QED BY <1>2, <1>3, <1>4

\* What is left to show of a step that changes rows in place.
LEMMA WriteStep ==
  ASSUME AuthInv, SpentStaysSpent,
         sessions' \in [Sessions -> SessionTypes], families' \in [Sessions -> FamilyTypes],
         userActive' \in BOOLEAN, usedChallenges' \subseteq LoginChallenges,
         signCounts' \in [Devices -> LoginChallenges \cup {0}],
         tokenCount' \in Nat, handedOut' \subseteq 1..tokenCount',
         call' \in [AuthRequests -> CallTypes'], CallsFit', StaleHold', WritesArePaired',
         TokensAreApart', RowsAreApart',
         ~userActive' => \A s \in Sessions :
           sessions'[s].status = "deleted" /\ families'[s].status \in {"none", "deleted"},
         \A s \in Sessions : sessions'[s].status = "revoked" /\ families'[s].status = "active" =>
            \/ families'[s].orphan
            \/ \E q \in AuthRequests : \E k \in DOMAIN call'[q].todo :
                 call'[q].todo[k].table = "family" /\ call'[q].todo[k].row = s
  PROVE  AuthInv'
<1>1. /\ sessions' \in Seq(SessionTypes) /\ families' \in Seq(FamilyTypes)
      /\ Len(families') = Len(sessions') /\ Sessions' = Sessions
  BY RowsKeepTypes
<1>2. AuthTypeOK'
  <2>1. \A q \in AuthRequests : call'[q].todo \in Seq(Writes')
    BY DEF CallTypes
  <2> QED BY <1>1, <2>1 DEF AuthTypeOK, SessionTypes, FamilyTypes
<1>3. NothingOutlivesDeletion'
  BY <1>1 DEF NothingOutlivesDeletion
<1>4. LineagesEndTogether'
  BY <1>1 DEF LineagesEndTogether
<1> QED BY <1>2, <1>3, <1>4 DEF AuthInv

LEMMA AllCallsStay ==
  ASSUME AuthInv, SpentStaysSpent, call' = call
  PROVE  call' \in [AuthRequests -> CallTypes'] /\ CallsFit' /\ StaleHold' /\ WritesArePaired'
<1>1. CASE AuthRequests = {}
  BY <1>1 DEF AuthInv, CallsFit, StaleHold, WritesArePaired
<1>2. ASSUME NEW r \in AuthRequests
      PROVE  call' \in [AuthRequests -> CallTypes'] /\ CallsFit' /\ StaleHold' /\ WritesArePaired'
  <2>1. CallFits(call[r]) /\ StaleHolds(call[r]) /\ WritesPair(call[r])
    BY DEF AuthInv, CallsFit, StaleHold, WritesArePaired
  <2>2. PICK d : d = call[r]
    OBVIOUS
  <2>3. CallFits(d)' /\ StaleHolds(d)' /\ WritesPair(d)'
    BY <2>1, <2>2, CallStays
  <2>4. call' = [call EXCEPT ![r] = d]
    BY <2>2 DEF AuthInv
  <2> QED BY <2>3, <2>4, OthersStay
<1> QED BY <1>1, <1>2

LEMMA DeleteAccountStep ==
  ASSUME AuthInv, DeleteAccount
  PROVE  AuthInv'
<1>1. sessions \in [Sessions -> SessionTypes] /\ families \in [Sessions -> FamilyTypes]
  BY AuthRowTypes DEF AuthInv
<1>2. /\ \A s \in Sessions : /\ Deleted(sessions[s]) \in SessionTypes
                             /\ Deleted(sessions[s]).status = "deleted"
                             /\ Deleted(families[s]) \in FamilyTypes
                             /\ Deleted(families[s]).status = "deleted"
  BY <1>1 DEF Deleted, SessionTypes, FamilyTypes, SessionStatuses, FamilyStatuses
<1>3. /\ sessions' \in [Sessions -> SessionTypes] /\ families' \in [Sessions -> FamilyTypes]
      /\ \A s \in Sessions : sessions'[s].status = "deleted" /\ families'[s].status = "deleted"
      /\ UNCHANGED <<usedChallenges, signCounts, tokenCount, handedOut, call>>
      /\ userActive' = FALSE
  BY <1>2 DEF DeleteAccount
<1>4. Sessions' = Sessions
  BY <1>3, RowsKeepTypes
<1>5. SpentStaysSpent
  BY <1>3, <1>4 DEF SpentStaysSpent
<1>6. call' \in [AuthRequests -> CallTypes'] /\ CallsFit' /\ StaleHold' /\ WritesArePaired'
  BY <1>3, <1>5, AllCallsStay
<1>7. TokensAreApart'
  BY <1>3 DEF AuthInv, TokensAreApart
<1>8. RowsAreApart'
  <2>1. \A r \in AuthRequests : call[r].pc \in Opening => call[r].row \in Sessions
    BY DEF AuthInv, CallsFit, CallFits, RowSteps, Holding, Opening
  <2> QED BY <1>3, <2>1 DEF AuthInv, RowsAreApart
<1> QED BY <1>3, <1>5, <1>6, <1>7, <1>8, WriteStep DEF AuthInv, AuthTypeOK

\* One row of a session or of a family becomes another one of the same status.
LEMMA ExpireSteps ==
  ASSUME AuthInv, NEW s \in Sessions, ExpireAccess(s) \/ ExpireFamily(s)
  PROVE  AuthInv'
<1>1. sessions \in [Sessions -> SessionTypes] /\ families \in [Sessions -> FamilyTypes]
  BY AuthRowTypes DEF AuthInv
<1>2. UNCHANGED <<userActive, usedChallenges, signCounts, tokenCount, handedOut, call>>
  BY DEF ExpireAccess, ExpireFamily
<1>3. /\ sessions' \in [Sessions -> SessionTypes]
      /\ \A x \in Sessions : /\ sessions'[x].status = sessions[x].status
                             /\ sessions'[x].access = sessions[x].access
  <2>1. CASE sessions' = sessions
    BY <1>1, <2>1
  <2>2. CASE sessions' = [sessions EXCEPT ![s].expired = TRUE]
    <3>1. [sessions[s] EXCEPT !.expired = TRUE] \in SessionTypes
      BY <1>1 DEF SessionTypes
    <3> QED BY <1>1, <2>2, <3>1 DEF SessionTypes
  <2> QED BY <2>1, <2>2 DEF ExpireAccess, ExpireFamily
<1>4. /\ families' \in [Sessions -> FamilyTypes]
      /\ \A x \in Sessions : /\ families'[x].status = families[x].status
                             /\ families'[x].current = families[x].current
                             /\ families'[x].orphan = families[x].orphan
  <2>1. CASE families' = families
    BY <1>1, <2>1
  <2>2. CASE families' = [families EXCEPT ![s].expired = TRUE]
    <3>1. [families[s] EXCEPT !.expired = TRUE] \in FamilyTypes
      BY <1>1 DEF FamilyTypes
    <3> QED BY <1>1, <2>2, <3>1 DEF FamilyTypes
  <2> QED BY <2>1, <2>2 DEF ExpireAccess, ExpireFamily
<1>5. Sessions' = Sessions
  BY <1>3, <1>4, RowsKeepTypes
<1>6. SpentStaysSpent
  BY <1>2, <1>3, <1>4, <1>5 DEF SpentStaysSpent
<1>7. call' \in [AuthRequests -> CallTypes'] /\ CallsFit' /\ StaleHold' /\ WritesArePaired'
  BY <1>2, <1>6, AllCallsStay
<1>8. TokensAreApart' /\ RowsAreApart'
  <2>1. \A r \in AuthRequests : call[r].pc \in Opening => call[r].row \in Sessions
    BY DEF AuthInv, CallsFit, CallFits, RowSteps, Holding, Opening
  <2> QED BY <1>2, <1>3, <1>4, <2>1 DEF AuthInv, TokensAreApart, RowsAreApart
<1>9. \A x \in Sessions : sessions'[x].status = "revoked" /\ families'[x].status = "active" =>
            \/ families'[x].orphan
            \/ \E q \in AuthRequests : \E k \in DOMAIN call'[q].todo :
                 call'[q].todo[k].table = "family" /\ call'[q].todo[k].row = x
  BY <1>2, <1>3, <1>4 DEF AuthInv, LineagesEndTogether
<1>10. ~userActive' => \A x \in Sessions :
           sessions'[x].status = "deleted" /\ families'[x].status \in {"none", "deleted"}
  BY <1>2, <1>3, <1>4 DEF AuthInv, NothingOutlivesDeletion
<1> QED BY <1>2, <1>3, <1>4, <1>6, <1>7, <1>8, <1>9, <1>10, WriteStep DEF AuthInv, AuthTypeOK

\* A request that has nothing to write witnesses no pending write of a family.
LEMMA LineagesOfOthers ==
  ASSUME AuthInv, NEW r \in AuthRequests, call[r].todo = <<>>,
         \A q \in AuthRequests \ {r} : call'[q] = call[q],
         NEW s \in Sessions, sessions[s].status = "revoked", families[s].status = "active",
         ~families[s].orphan
  PROVE  \E q \in AuthRequests : \E k \in DOMAIN call'[q].todo :
           call'[q].todo[k].table = "family" /\ call'[q].todo[k].row = s
<1>1. PICK q \in AuthRequests : \E k \in DOMAIN call[q].todo :
        call[q].todo[k].table = "family" /\ call[q].todo[k].row = s
  BY DEF AuthInv, LineagesEndTogether
<1>2. q # r
  BY <1>1, EmptySeq
<1> QED BY <1>1, <1>2

LEMMA LoginRecordSteps ==
  ASSUME AuthInv, NEW r \in AuthRequests, ConsumeChallenge(r) \/ RecordAssertion(r)
  PROVE  AuthInv'
<1> DEFINE c == call[r]
           pc == IF ConsumeChallenge(r) THEN "listing" ELSE "insertingFamily"
           next == [c EXCEPT !.pc = pc]
<1>1. /\ UNCHANGED <<userActive, sessions, families, tokenCount, handedOut>>
      /\ usedChallenges \subseteq usedChallenges'
      /\ pc \in AuthSteps /\ call' = [call EXCEPT ![r] = next]
      /\ pc = "listing" => c.pc = "consuming"
      /\ pc = "insertingFamily" => c.pc = "recording"
  BY DEF ConsumeChallenge, RecordAssertion, Goto, AuthSteps
<1>2. CallFits(c) /\ StaleHolds(c) /\ c \in CallTypes /\ call \in [AuthRequests -> CallTypes]
  BY CallAt
<1>3. /\ next \in CallTypes /\ next.pc = pc /\ next.kind = c.kind
      /\ next.arg = c.arg /\ next.row = c.row /\ next.fresh = c.fresh
      /\ next.todo = c.todo /\ next.stale = c.stale
  BY <1>1, MoveFits
<1>4. pc \in {"listing", "insertingFamily"}
  OBVIOUS
<1> HIDE DEF next, pc
<1>5. c.todo = <<>> /\ c.arg \in LoginChallenges /\ ~c.stale
  BY <1>1, <1>2, <1>4 DEF CallFits, StaleHolds, LoginSteps, RequestKinds
<1>6. CallFits(next) /\ StaleHolds(next)
  BY <1>1, <1>2, <1>3, <1>4, <1>5
     DEF CallFits, StaleHolds, LoginSteps, RowSteps, Holding, RequestKinds
<1>7. WritesPair(next)
  BY <1>3, <1>5, EmptySeq DEF WritesPair, Paired
<1>8. SpentStaysSpent /\ Sessions' = Sessions
  BY <1>1 DEF SpentStaysSpent, Sessions
<1>9. PICK d : d = next
  OBVIOUS
<1>10. call' \in [AuthRequests -> CallTypes'] /\ CallsFit' /\ StaleHold' /\ WritesArePaired'
  <2>1. CallFits(d)' /\ StaleHolds(d)' /\ WritesPair(d)'
    BY <1>6, <1>7, <1>8, <1>9, CallStays
  <2>2. call' = [call EXCEPT ![r] = d]
    BY <1>1, <1>9
  <2> QED BY <1>8, <2>1, <2>2, OthersStay
<1>11. call'[r] = next /\ \A q \in AuthRequests \ {r} : call'[q] = call[q]
  BY <1>1, <1>2
<1>12. TokensAreApart' /\ RowsAreApart'
  <2>1. next.pc \in Holding => c.pc \in Opening /\ c.pc \in Holding
    BY <1>1, <1>3, <1>4 DEF Holding, Opening
  <2>2. next.pc \in Opening => c.pc \in Opening
    BY <1>1, <1>3, <1>4 DEF Opening
  <2>3. TokensAreApart'
    BY <1>1, <1>3, <1>11, <2>1 DEF AuthInv, TokensAreApart
  <2>4. RowsAreApart'
    BY <1>1, <1>3, <1>11, <2>2 DEF AuthInv, RowsAreApart
  <2> QED BY <2>3, <2>4
<1>13. \A s \in Sessions : sessions'[s].status = "revoked" /\ families'[s].status = "active" =>
            \/ families'[s].orphan
            \/ \E q \in AuthRequests : \E k \in DOMAIN call'[q].todo :
                 call'[q].todo[k].table = "family" /\ call'[q].todo[k].row = s
  BY <1>1, <1>5, <1>11, LineagesOfOthers
<1>14. signCounts' \in [Devices -> LoginChallenges \cup {0}] /\ usedChallenges' \subseteq LoginChallenges
  BY <1>5 DEF ConsumeChallenge, RecordAssertion, AuthInv, AuthTypeOK
<1>15. sessions' \in [Sessions -> SessionTypes] /\ families' \in [Sessions -> FamilyTypes]
  BY <1>1, AuthRowTypes DEF AuthInv
<1>16. ~userActive' => \A s \in Sessions :
           sessions'[s].status = "deleted" /\ families'[s].status \in {"none", "deleted"}
  BY <1>1 DEF AuthInv, NothingOutlivesDeletion
<1>17. userActive' \in BOOLEAN /\ tokenCount' \in Nat /\ handedOut' \subseteq 1..tokenCount'
  BY <1>1 DEF AuthInv, AuthTypeOK
<1> QED BY <1>8, <1>10, <1>12, <1>13, <1>14, <1>15, <1>16, <1>17, WriteStep

LEMMA RotateAccessStep ==
  ASSUME AuthInv, NEW r \in AuthRequests, RotateAccess(r)
  PROVE  AuthInv'
<1> DEFINE c == call[r]
           s == c.row
           fresh == tokenCount + 1
           next == [c EXCEPT !.pc = "rotatingFamily", !.fresh = fresh]
           row == IF sessions[s].status = "deleted" THEN sessions[s]
                  ELSE [sessions[s] EXCEPT !.access = fresh, !.expired = FALSE]
<1>1. CallFits(c) /\ StaleHolds(c) /\ c \in CallTypes /\ call \in [AuthRequests -> CallTypes]
  BY CallAt
<1>2. c.pc = "rotatingAccess" /\ c.todo = <<>> /\ ~c.stale /\ s \in Sessions
  BY <1>1 DEF RotateAccess, CallFits, StaleHolds, RowSteps, Holding, RequestKinds
<1>3. tokenCount \in Nat /\ fresh \in Nat /\ handedOut \subseteq 1..tokenCount
  BY DEF AuthInv, AuthTypeOK
<1>4. sessions \in [Sessions -> SessionTypes] /\ families \in [Sessions -> FamilyTypes]
  BY AuthRowTypes DEF AuthInv
<1>5. /\ UNCHANGED <<userActive, usedChallenges, signCounts, families, handedOut>>
      /\ tokenCount' = fresh
      /\ call' = [call EXCEPT ![r] = next]
      /\ sessions' = [sessions EXCEPT ![s] = row]
  BY <1>1, <1>4 DEF RotateAccess
<1> HIDE DEF fresh
<1>6. row \in SessionTypes /\ row.status = sessions[s].status
      /\ (row.status # "deleted" => row.access = fresh)
  <2>1. sessions[s] \in SessionTypes
    BY <1>2, <1>4
  <2> QED BY <1>3, <2>1 DEF SessionTypes
<1> HIDE DEF row
<1>7. /\ sessions' \in [Sessions -> SessionTypes] /\ families' \in [Sessions -> FamilyTypes]
      /\ \A x \in Sessions : sessions'[x].status = sessions[x].status
      /\ \A x \in Sessions \ {s} : sessions'[x] = sessions[x]
      /\ sessions'[s] = row
  BY <1>2, <1>4, <1>5, <1>6
<1>8. Sessions' = Sessions
  BY <1>7, RowsKeepTypes
<1>9. SpentStaysSpent
  <2>1. fresh \notin handedOut
    BY <1>3 DEF fresh
  <2>2. ASSUME NEW x \in Sessions, NEW n \in handedOut, sessions'[x].status = "active",
               sessions'[x].access = n
        PROVE  sessions[x].access = n
    BY <1>6, <1>7, <2>1, <2>2
  <2> QED BY <1>5, <1>7, <1>8, <2>2 DEF SpentStaysSpent
<1> HIDE DEF c
<1>10. /\ next \in CallTypes /\ next.pc = "rotatingFamily" /\ next.kind = c.kind
       /\ next.row = s /\ next.fresh = fresh /\ next.todo = c.todo /\ next.stale = c.stale
  BY <1>1, <1>3 DEF CallTypes, AuthSteps
<1> HIDE DEF next
<1>11. CallFits(next) /\ StaleHolds(next)
  BY <1>2, <1>10 DEF CallFits, StaleHolds, LoginSteps
<1>12. WritesPair(next)
  BY <1>2, <1>10, EmptySeq DEF WritesPair, Paired
<1>13. PICK d : d = next
  OBVIOUS
<1>14. call' \in [AuthRequests -> CallTypes'] /\ CallsFit' /\ StaleHold' /\ WritesArePaired'
  <2>1. CallFits(d)' /\ StaleHolds(d)' /\ WritesPair(d)'
    BY <1>9, <1>11, <1>12, <1>13, CallStays
  <2>2. call' = [call EXCEPT ![r] = d]
    BY <1>5, <1>13
  <2> QED BY <1>9, <2>1, <2>2, OthersStay
<1>15. call'[r] = next /\ \A q \in AuthRequests \ {r} : call'[q] = call[q]
  BY <1>1, <1>5
<1>16. TokensAreApart'
  <2>1. \A q \in AuthRequests \ {r} : call[q].pc \in Holding =>
          call[q].fresh \in 1..tokenCount \ handedOut /\ call[q].fresh # fresh
    BY <1>3 DEF AuthInv, TokensAreApart, fresh
  <2>2. fresh \in 1..fresh \ handedOut /\ 1..tokenCount \subseteq 1..fresh
    BY <1>3 DEF fresh
  <2> QED BY <1>5, <1>10, <1>15, <2>1, <2>2 DEF AuthInv, TokensAreApart
<1>17. RowsAreApart'
  <2>1. \A q \in AuthRequests : call[q].pc \in Opening => call[q].row \in Sessions
    BY DEF AuthInv, CallsFit, CallFits, RowSteps, Holding, Opening
  <2> QED BY <1>5, <1>7, <1>10, <1>15, <2>1 DEF AuthInv, RowsAreApart, Opening
<1>18. \A x \in Sessions : sessions'[x].status = "revoked" /\ families'[x].status = "active" =>
            \/ families'[x].orphan
            \/ \E q \in AuthRequests : \E k \in DOMAIN call'[q].todo :
                 call'[q].todo[k].table = "family" /\ call'[q].todo[k].row = x
  BY <1>2, <1>5, <1>7, <1>15, LineagesOfOthers DEF c
<1>19. ~userActive' => \A x \in Sessions :
           sessions'[x].status = "deleted" /\ families'[x].status \in {"none", "deleted"}
  BY <1>5, <1>7 DEF AuthInv, NothingOutlivesDeletion
<1>20. /\ userActive' \in BOOLEAN /\ usedChallenges' \subseteq LoginChallenges
       /\ signCounts' \in [Devices -> LoginChallenges \cup {0}]
       /\ tokenCount' \in Nat /\ handedOut' \subseteq 1..tokenCount'
  BY <1>3, <1>5 DEF AuthInv, AuthTypeOK, fresh
<1> QED BY <1>7, <1>9, <1>14, <1>16, <1>17, <1>18, <1>19, <1>20, WriteStep

\* A request that ends, and hands out its token
LEMMA RotateFamilyStep ==
  ASSUME AuthInv, NEW r \in AuthRequests, RotateFamily(r)
  PROVE  AuthInv'
<1> DEFINE c == call[r]
           s == c.row
           next == Finished(c, "ok")
           row == IF families[s].status = "deleted" THEN families[s]
                  ELSE [families[s] EXCEPT !.previous = c.arg, !.current = c.fresh,
                                           !.expired = FALSE]
<1>1. CallFits(c) /\ StaleHolds(c) /\ c \in CallTypes /\ call \in [AuthRequests -> CallTypes]
  BY CallAt
<1>2. c.pc = "rotatingFamily" /\ c.todo = <<>> /\ ~c.stale /\ s \in Sessions
  BY <1>1 DEF RotateFamily, CallFits, StaleHolds, RowSteps, Holding, RequestKinds
<1>3. /\ c.fresh \in 1..tokenCount \ handedOut /\ c.fresh \in Nat /\ c.arg \in Nat
      /\ \A q \in AuthRequests \ {r} : call[q].pc \in Holding => call[q].fresh # c.fresh
  BY <1>1, <1>2 DEF AuthInv, TokensAreApart, Holding, CallTypes
<1>4. sessions \in [Sessions -> SessionTypes] /\ families \in [Sessions -> FamilyTypes]
  BY AuthRowTypes DEF AuthInv
<1>5. /\ UNCHANGED <<userActive, usedChallenges, signCounts, sessions, tokenCount>>
      /\ handedOut' = handedOut \cup {c.fresh}
      /\ call' = [call EXCEPT ![r] = next]
      /\ families' = [families EXCEPT ![s] = row]
  BY <1>1, <1>4 DEF RotateFamily, Goto
<1>6. /\ CallFits(next) /\ StaleHolds(next) /\ WritesPair(next) /\ next.pc = "ok"
  BY <1>2, EndFits
<1> HIDE DEF next
<1>7. /\ row \in FamilyTypes /\ row.status = families[s].status
      /\ row.orphan = families[s].orphan
      /\ row.status # "deleted" => row.current = c.fresh
  <2>1. families[s] \in FamilyTypes
    BY <1>2, <1>4
  <2> HIDE DEF c
  <2> QED BY <1>3, <2>1 DEF FamilyTypes
<1> HIDE DEF row, c
<1>8. /\ sessions' \in [Sessions -> SessionTypes] /\ families' \in [Sessions -> FamilyTypes]
      /\ \A x \in Sessions : /\ families'[x].status = families[x].status
                             /\ families'[x].orphan = families[x].orphan
      /\ \A x \in Sessions \ {s} : families'[x] = families[x]
      /\ families'[s] = row
  BY <1>2, <1>4, <1>5, <1>7
<1>9. Sessions' = Sessions
  BY <1>8, RowsKeepTypes
<1>10. SpentStaysSpent
  <2>1. ASSUME NEW x \in Sessions, NEW n \in handedOut, families'[x].status = "active",
               families'[x].current = n
        PROVE  families[x].current = n
    BY <1>3, <1>7, <1>8, <2>1
  <2> QED BY <1>5, <1>8, <1>9, <2>1 DEF SpentStaysSpent
<1>11. PICK d : d = next
  OBVIOUS
<1>12. call' \in [AuthRequests -> CallTypes'] /\ CallsFit' /\ StaleHold' /\ WritesArePaired'
  <2>1. CallFits(d)' /\ StaleHolds(d)' /\ WritesPair(d)'
    BY <1>6, <1>10, <1>11, CallStays
  <2>2. call' = [call EXCEPT ![r] = d]
    BY <1>5, <1>11
  <2> QED BY <1>10, <2>1, <2>2, OthersStay
<1>13. call'[r] = next /\ \A q \in AuthRequests \ {r} : call'[q] = call[q]
  BY <1>1, <1>5
<1>14. TokensAreApart'
  <2>1. \A q \in AuthRequests : call'[q].pc \in Holding => q # r /\ call'[q] = call[q]
    BY <1>6, <1>13 DEF Holding
  <2> QED BY <1>3, <1>5, <2>1 DEF AuthInv, TokensAreApart
<1>15. RowsAreApart'
  <2>1. \A q \in AuthRequests : call[q].pc \in Opening => call[q].row \in Sessions
    BY DEF AuthInv, CallsFit, CallFits, RowSteps, Holding, Opening
  <2> QED BY <1>5, <1>6, <1>8, <1>13, <2>1 DEF AuthInv, RowsAreApart, Opening
<1>16. \A x \in Sessions : sessions'[x].status = "revoked" /\ families'[x].status = "active" =>
            \/ families'[x].orphan
            \/ \E q \in AuthRequests : \E k \in DOMAIN call'[q].todo :
                 call'[q].todo[k].table = "family" /\ call'[q].todo[k].row = x
  BY <1>2, <1>5, <1>8, <1>13, LineagesOfOthers DEF c
<1>17. ~userActive' => \A x \in Sessions :
           sessions'[x].status = "deleted" /\ families'[x].status \in {"none", "deleted"}
  BY <1>5, <1>8 DEF AuthInv, NothingOutlivesDeletion
<1>18. /\ userActive' \in BOOLEAN /\ usedChallenges' \subseteq LoginChallenges
       /\ signCounts' \in [Devices -> LoginChallenges \cup {0}]
       /\ tokenCount' \in Nat /\ handedOut' \subseteq 1..tokenCount'
  BY <1>3, <1>5 DEF AuthInv, AuthTypeOK
<1> QED BY <1>8, <1>10, <1>12, <1>14, <1>15, <1>16, <1>17, <1>18, WriteStep

\* The family of a session that exists starts, and its token is handed out.
LEMMA InsertFamilyStep ==
  ASSUME AuthInv, NEW r \in AuthRequests, InsertFamily(r)
  PROVE  AuthInv'
<1> DEFINE c == call[r]
           s == c.row
           next == Finished(c, "ok")
           row == [status |-> "active", current |-> c.fresh, previous |-> 0,
                   expired |-> FALSE, orphan |-> ~IsActive(s)]
<1>1. CallFits(c) /\ StaleHolds(c) /\ c \in CallTypes /\ call \in [AuthRequests -> CallTypes]
  BY CallAt
<1>2. c.pc = "insertingFamily" /\ c.todo = <<>> /\ ~c.stale /\ s \in Sessions
  BY <1>1 DEF InsertFamily, CallFits, StaleHolds, RowSteps, Holding, RequestKinds
<1>3. /\ c.fresh \in 1..tokenCount \ handedOut /\ c.fresh \in Nat
      /\ \A q \in AuthRequests \ {r} : call[q].pc \in Holding => call[q].fresh # c.fresh
  BY <1>1, <1>2 DEF AuthInv, TokensAreApart, Holding, CallTypes
<1>4. sessions \in [Sessions -> SessionTypes] /\ families \in [Sessions -> FamilyTypes]
  BY AuthRowTypes DEF AuthInv
<1>5. CASE sessions[s].status = "deleted"
  <2>1. Goto(r, "failed") /\ UNCHANGED authRows
    BY <1>5 DEF InsertFamily, authRows
  <2> QED BY <1>2, <2>1, GotoStep DEF AuthSteps, Holding, LoginSteps, RequestKinds, RowSteps
<1>6. CASE sessions[s].status # "deleted"
  <2>1. families[s].status = "none" /\ userActive
    BY <1>2, <1>6 DEF AuthInv, RowsAreApart, Opening, NothingOutlivesDeletion
  <2>2. /\ UNCHANGED <<userActive, usedChallenges, signCounts, sessions, tokenCount>>
        /\ handedOut' = handedOut \cup {c.fresh}
        /\ call' = [call EXCEPT ![r] = next]
        /\ families' = [families EXCEPT ![s] = row]
    BY <1>6 DEF InsertFamily, Goto
  <2>3. /\ CallFits(next) /\ StaleHolds(next) /\ WritesPair(next) /\ next.pc = "ok"
    BY <1>2, EndFits
  <2> HIDE DEF next
  <2>4. /\ row \in FamilyTypes /\ row.status = "active" /\ row.current = c.fresh
        /\ row.orphan = ~IsActive(s)
    <3> HIDE DEF c
    <3>1. (~IsActive(s)) \in BOOLEAN
      OBVIOUS
    <3> QED BY <1>3, <3>1 DEF FamilyTypes, FamilyStatuses
  <2> HIDE DEF row, c
  <2>5. /\ sessions' \in [Sessions -> SessionTypes] /\ families' \in [Sessions -> FamilyTypes]
        /\ \A x \in Sessions \ {s} : families'[x] = families[x]
        /\ families'[s] = row
    BY <1>2, <1>4, <2>2, <2>4
  <2>6. Sessions' = Sessions
    BY <2>5, RowsKeepTypes
  <2>7. SpentStaysSpent
    <3>1. ASSUME NEW x \in Sessions, NEW n \in handedOut, families'[x].status = "active",
                 families'[x].current = n
          PROVE  families[x].current = n /\ families[x].status = "active"
      BY <1>3, <2>4, <2>5, <3>1
    <3>2. \A x \in Sessions :
            /\ families[x].status # "none" => families'[x].status # "none"
            /\ families[x].status \notin {"none", "active"} =>
                 families'[x].status \notin {"none", "active"}
      BY <2>1, <2>4, <2>5
    <3> QED BY <2>2, <2>6, <3>1, <3>2 DEF SpentStaysSpent
  <2>8. PICK d : d = next
    OBVIOUS
  <2>9. call' \in [AuthRequests -> CallTypes'] /\ CallsFit' /\ StaleHold' /\ WritesArePaired'
    <3>1. CallFits(d)' /\ StaleHolds(d)' /\ WritesPair(d)'
      BY <2>3, <2>7, <2>8, CallStays
    <3>2. call' = [call EXCEPT ![r] = d]
      BY <2>2, <2>8
    <3> QED BY <2>7, <3>1, <3>2, OthersStay
  <2>10. call'[r] = next /\ \A q \in AuthRequests \ {r} : call'[q] = call[q]
    BY <1>1, <2>2
  <2>11. TokensAreApart'
    <3>1. \A q \in AuthRequests : call'[q].pc \in Holding => q # r /\ call'[q] = call[q]
      BY <2>3, <2>10 DEF Holding
    <3> QED BY <1>3, <2>2, <3>1 DEF AuthInv, TokensAreApart
  <2>12. RowsAreApart'
    <3>1. \A q \in AuthRequests : call[q].pc \in Opening => call[q].row \in Sessions
      BY DEF AuthInv, CallsFit, CallFits, RowSteps, Holding, Opening
    <3>2. \A q \in AuthRequests : call'[q].pc \in Opening => q # r /\ call'[q] = call[q]
      BY <2>3, <2>10 DEF Opening
    <3>3. \A q \in AuthRequests \ {r} : call[q].pc \in Opening => call[q].row # s
      BY <1>2 DEF AuthInv, RowsAreApart, c, Opening
    <3> QED BY <2>2, <2>5, <3>1, <3>2, <3>3 DEF AuthInv, RowsAreApart
  <2>13. \A x \in Sessions : sessions'[x].status = "revoked" /\ families'[x].status = "active" =>
              \/ families'[x].orphan
              \/ \E q \in AuthRequests : \E k \in DOMAIN call'[q].todo :
                   call'[q].todo[k].table = "family" /\ call'[q].todo[k].row = x
    <3> SUFFICES ASSUME NEW x \in Sessions, sessions'[x].status = "revoked",
                        families'[x].status = "active", ~families'[x].orphan
                 PROVE  \E q \in AuthRequests : \E k \in DOMAIN call'[q].todo :
                          call'[q].todo[k].table = "family" /\ call'[q].todo[k].row = x
      OBVIOUS
    <3>1. x # s
      BY <2>2, <2>4, <2>5 DEF IsActive
    <3> QED BY <1>2, <2>2, <2>5, <2>10, <3>1, LineagesOfOthers DEF c
  <2>14. /\ userActive' \in BOOLEAN /\ usedChallenges' \subseteq LoginChallenges
         /\ signCounts' \in [Devices -> LoginChallenges \cup {0}]
         /\ tokenCount' \in Nat /\ handedOut' \subseteq 1..tokenCount'
    BY <1>3, <2>2 DEF AuthInv, AuthTypeOK
  <2>15. userActive'
    BY <2>1, <2>2
  <2> QED BY <2>5, <2>7, <2>9, <2>11, <2>12, <2>13, <2>14, <2>15, WriteStep
<1> QED BY <1>5, <1>6

\* A new session, without a family yet
LEMMA InsertSessionStep ==
  ASSUME AuthInv, NEW r \in AuthRequests, InsertSession(r)
  PROVE  AuthInv'
<1> DEFINE c == call[r]
           s == Len(sessions) + 1
           fresh == tokenCount + 1
           next == [c EXCEPT !.pc = "recording", !.row = s, !.fresh = fresh]
           row == [device |-> c.device, status |-> "active", access |-> fresh,
                   expired |-> FALSE]
<1>1. CallFits(c) /\ StaleHolds(c) /\ c \in CallTypes /\ call \in [AuthRequests -> CallTypes]
  BY CallAt
<1>2. c.pc = "inserting" /\ c.todo = <<>> /\ ~c.stale /\ c.kind = "login"
      /\ c.arg \in LoginChallenges /\ c.device \in Devices
  BY <1>1 DEF InsertSession, CallFits, StaleHolds, LoginSteps, RequestKinds, CallTypes
<1>3. /\ sessions \in Seq(SessionTypes) /\ families \in Seq(FamilyTypes)
      /\ Sessions = 1..Len(sessions) /\ Len(sessions) \in Nat /\ Len(families) = Len(sessions)
      /\ sessions \in [Sessions -> SessionTypes] /\ families \in [Sessions -> FamilyTypes]
  BY AuthRowTypes DEF AuthInv
<1>4. CASE ~CredentialExists(r)
  <2>1. Goto(r, "failed") /\ UNCHANGED authRows
    BY <1>4 DEF InsertSession, authRows
  <2> QED BY <1>2, <2>1, GotoStep DEF AuthSteps, Holding, LoginSteps, RequestKinds, RowSteps
<1>5. CASE CredentialExists(r)
  <2>1. userActive
    BY <1>5 DEF CredentialExists
  <2>2. /\ UNCHANGED <<userActive, usedChallenges, signCounts, handedOut>>
        /\ sessions' = Append(sessions, row) /\ families' = Append(families, NoFamily)
        /\ tokenCount' = fresh
        /\ call' = [call EXCEPT ![r] = next]
    BY <1>1, <1>5 DEF InsertSession
  <2>3. tokenCount \in Nat /\ fresh \in Nat /\ handedOut \subseteq 1..tokenCount /\ s \in Nat
    BY <1>3 DEF AuthInv, AuthTypeOK
  <2> HIDE DEF fresh
  <2>4. /\ row \in SessionTypes /\ row.status = "active" /\ row.access = fresh
        /\ NoFamily \in FamilyTypes /\ NoFamily.status = "none"
    <3> HIDE DEF c
    <3> QED BY <1>2, <2>3 DEF c, SessionTypes, SessionStatuses, NoFamily, FamilyTypes,
                              FamilyStatuses
  <2> HIDE DEF row
  <2>5. /\ sessions' \in Seq(SessionTypes) /\ families' \in Seq(FamilyTypes)
        /\ Len(sessions') = s /\ Len(families') = s
        /\ \A x \in Sessions : sessions'[x] = sessions[x] /\ families'[x] = families[x]
        /\ sessions'[s] = row /\ families'[s] = NoFamily
    BY <1>3, <2>2, <2>4, AppendProperties
  <2>6. /\ Sessions' = Sessions \cup {s} /\ s \notin Sessions
    <3>1. Sessions' = 1..s
      BY <2>5, LenProperties DEF Sessions
    <3> QED BY <1>3, <3>1
  <2> HIDE DEF s
  <2>7. SpentStaysSpent
    <3>1. fresh \notin handedOut
      BY <2>3 DEF fresh
    <3>2. ASSUME NEW x \in Sessions', NEW n \in handedOut
          PROVE  /\ sessions'[x].status = "active" /\ sessions'[x].access = n =>
                      x \in Sessions /\ sessions[x].access = n
                 /\ families'[x].status = "active" /\ families'[x].current = n =>
                      x \in Sessions /\ families[x].current = n /\ families[x].status = "active"
      BY <2>4, <2>5, <2>6, <3>1
    <3> QED BY <2>2, <2>5, <2>6, <3>2 DEF SpentStaysSpent
  <2> HIDE DEF c
  <2>8. /\ next \in CallTypes /\ next.pc = "recording" /\ next.kind = c.kind
        /\ next.row = s /\ next.fresh = fresh /\ next.todo = c.todo /\ next.stale = c.stale
        /\ next.arg = c.arg
    BY <1>1, <2>3 DEF CallTypes, AuthSteps
  <2> HIDE DEF next
  <2>9. PICK d : d = next
    OBVIOUS
  <2>10. CallFits(d)' /\ StaleHolds(d)' /\ WritesPair(d)'
    <3>1. d.todo = <<>> /\ d.pc = "recording" /\ d.row = s /\ d.kind = "login" /\ ~d.stale
          /\ d.arg \in LoginChallenges /\ d \in CallTypes
      BY <1>2, <2>8, <2>9 DEF c
    <3>2. d \in CallTypes'
      <4>1. d.todo \in Seq(Writes')
        BY <3>1, EmptySeq
      <4> QED BY <3>1, <4>1 DEF CallTypes
    <3> QED BY <2>6, <3>1, <3>2, EmptySeq
            DEF CallFits, StaleHolds, WritesPair, Paired
  <2>11. call' = [call EXCEPT ![r] = d]
    BY <2>2, <2>9
  <2>12. call' \in [AuthRequests -> CallTypes'] /\ CallsFit' /\ StaleHold' /\ WritesArePaired'
    BY <2>7, <2>10, <2>11, OthersStay
  <2>13. call'[r] = next /\ \A q \in AuthRequests \ {r} : call'[q] = call[q]
    BY <1>1, <2>2
  <2>14. TokensAreApart'
    <3>1. \A q \in AuthRequests \ {r} : call[q].pc \in Holding =>
            call[q].fresh \in 1..tokenCount \ handedOut /\ call[q].fresh # fresh
      BY <2>3 DEF AuthInv, TokensAreApart, fresh
    <3>2. fresh \in 1..fresh \ handedOut /\ 1..tokenCount \subseteq 1..fresh
      BY <2>3 DEF fresh
    <3> QED BY <2>2, <2>8, <2>13, <3>1, <3>2 DEF AuthInv, TokensAreApart
  <2>15. RowsAreApart'
    <3>1. \A q \in AuthRequests : call[q].pc \in Opening => call[q].row \in Sessions
      BY DEF AuthInv, CallsFit, CallFits, RowSteps, Holding, Opening
    <3> QED BY <2>4, <2>5, <2>6, <2>8, <2>13, <3>1 DEF AuthInv, RowsAreApart
  <2>16. AuthTypeOK'
    <3>1. \A q \in AuthRequests : call'[q].todo \in Seq(Writes')
      BY <2>12 DEF CallTypes
    <3>2. handedOut' \subseteq 1..tokenCount' /\ tokenCount' \in Nat
      BY <2>2, <2>3 DEF fresh
    <3> QED BY <2>2, <2>5, <3>1, <3>2 DEF AuthInv, AuthTypeOK, SessionTypes, FamilyTypes
  <2>17. NothingOutlivesDeletion'
    BY <2>1, <2>2 DEF NothingOutlivesDeletion
  <2>18. LineagesEndTogether'
    <3> SUFFICES ASSUME NEW x \in Sessions', sessions'[x].status = "revoked",
                        families'[x].status = "active", ~families'[x].orphan
                 PROVE  \E q \in AuthRequests : \E k \in DOMAIN call'[q].todo :
                          call'[q].todo[k].table = "family" /\ call'[q].todo[k].row = x
      BY DEF LineagesEndTogether
    <3>1. x \in Sessions
      BY <2>4, <2>5, <2>6
    <3> QED BY <1>2, <2>5, <2>13, <3>1, LineagesOfOthers DEF c
  <2> QED BY <2>12, <2>14, <2>15, <2>16, <2>17, <2>18 DEF AuthInv
<1> QED BY <1>4, <1>5

\* The first write of a request
LEMMA RevokeWrites ==
  ASSUME AuthInv, NEW r \in AuthRequests, RevokeNext(r)
  PROVE  LET todo == call[r].todo
             w    == Head(todo)
         IN  /\ todo \in Seq(Writes) /\ todo # <<>> /\ w = todo[1] /\ w \in Writes
             /\ Len(todo) \in Nat \ {0}
             /\ w.table = "family" => w.status \in FamilyStatuses \ {"none", "active", "deleted"}
             /\ w.table = "session" => w.status = "revoked"
             /\ sessions' \in [Sessions -> SessionTypes]
             /\ families' \in [Sessions -> FamilyTypes]
             /\ \A x \in Sessions :
                  /\ sessions'[x].access = sessions[x].access
                  /\ sessions'[x].status =
                       IF w.table = "session" /\ w.row = x /\ sessions[x].status # "deleted"
                         THEN "revoked" ELSE sessions[x].status
                  /\ families'[x].current = families[x].current
                  /\ families'[x].orphan = families[x].orphan
                  /\ families'[x].status =
                       IF IsFamilyWrite(w, x) /\ families[x].status \notin {"none", "deleted"}
                         THEN w.status ELSE families[x].status
<1> DEFINE todo == call[r].todo
           w == Head(todo)
<1>1. CallFits(call[r]) /\ call[r] \in CallTypes /\ call[r].pc = "revoking"
  BY CallAt DEF RevokeNext
<1>2. todo \in Seq(Writes) /\ todo # <<>>
  BY <1>1 DEF CallFits, CallTypes
<1>3. w = todo[1] /\ w \in Writes /\ Len(todo) \in Nat \ {0} /\ 1 \in DOMAIN todo
  BY <1>2, LenProperties, EmptySeq, HeadTailProperties
<1>4. /\ w.table = "family" => w.status \notin {"none", "active", "deleted"}
      /\ w.table = "session" => w.status = "revoked"
  BY <1>3 DEF AuthInv, WritesArePaired, WritesPair, Paired
<1>5. w.row \in Sessions /\ w.status \in FamilyStatuses /\ w.table \in {"session", "family"}
  BY <1>3 DEF Writes, SessionStatuses, FamilyStatuses
<1>6. sessions \in [Sessions -> SessionTypes] /\ families \in [Sessions -> FamilyTypes]
  BY AuthRowTypes DEF AuthInv
<1>7. /\ w.table = "session" =>
           /\ sessions' = [sessions EXCEPT ![w.row] = Settled(sessions[w.row], w.status)]
           /\ families' = families
      /\ w.table = "family" =>
           /\ families' = [families EXCEPT ![w.row] = Settled(families[w.row], w.status)]
           /\ sessions' = sessions
  BY <1>5, <1>6 DEF RevokeNext
<1> HIDE DEF w, todo
<1>8. \A row \in SessionTypes :
        /\ Settled(row, "revoked") \in SessionTypes
        /\ Settled(row, "revoked").access = row.access
        /\ Settled(row, "revoked").status =
             IF row.status # "deleted" THEN "revoked" ELSE row.status
  BY DEF Settled, SessionTypes, SessionStatuses
<1>9. \A row \in FamilyTypes :
        /\ Settled(row, w.status) \in FamilyTypes
        /\ Settled(row, w.status).current = row.current
        /\ Settled(row, w.status).orphan = row.orphan
        /\ Settled(row, w.status).status =
             IF row.status \notin {"none", "deleted"} THEN w.status ELSE row.status
  BY <1>5 DEF Settled, FamilyTypes
<1>10. CASE w.table = "session"
  BY <1>2, <1>3, <1>4, <1>5, <1>6, <1>7, <1>8, <1>10 DEF w, todo, IsFamilyWrite
<1>11. CASE w.table = "family"
  BY <1>2, <1>3, <1>4, <1>5, <1>6, <1>7, <1>9, <1>11 DEF w, todo, IsFamilyWrite
<1> QED BY <1>5, <1>10, <1>11

\* What is left to write stays paired, and stays a witness.
LEMMA TailPairs ==
  ASSUME AuthInv, SpentStaysSpent, NEW r \in AuthRequests, RevokeNext(r),
         NEW rest, rest = Tail(call[r].todo)
  PROVE  /\ Paired(rest)'
         /\ \A x \in Sessions :
              sessions'[x].status = "revoked" /\ families'[x].status = "active" =>
                \/ families'[x].orphan
                \/ \E q \in AuthRequests \ {r} : \E k \in DOMAIN call[q].todo :
                     IsFamilyWrite(call[q].todo[k], x)
                \/ \E k \in DOMAIN rest : IsFamilyWrite(rest[k], x)
<1> DEFINE todo == call[r].todo
           w == Head(todo)
<1>1. /\ todo \in Seq(Writes) /\ todo # <<>> /\ w = todo[1] /\ Len(todo) \in Nat \ {0}
      /\ w.table = "family" => w.status \notin {"none", "active", "deleted"}
      /\ \A x \in Sessions :
           /\ sessions'[x].status =
                IF w.table = "session" /\ w.row = x /\ sessions[x].status # "deleted"
                  THEN "revoked" ELSE sessions[x].status
           /\ families'[x].orphan = families[x].orphan
           /\ families'[x].status =
                IF IsFamilyWrite(w, x) /\ families[x].status \notin {"none", "deleted"}
                  THEN w.status ELSE families[x].status
  BY RevokeWrites
<1>2. DOMAIN todo = 1..Len(todo) /\ DOMAIN rest = 1..Len(todo) - 1
      /\ \A k \in 1..Len(todo) - 1 : rest[k] = todo[k + 1]
  BY <1>1, HeadTailProperties, LenProperties
<1>3. \A k \in DOMAIN todo : todo[k] \in Writes /\ todo[k].row \in Sessions
  <2>1. todo \in [1..Len(todo) -> Writes]
    BY <1>1, LenProperties
  <2>2. \A k \in 1..Len(todo) : todo[k] \in Writes
    BY <2>1
  <2> QED BY <1>2, <2>2 DEF Writes
<1>4. Paired(todo)
  BY DEF AuthInv, WritesArePaired, WritesPair
<1>5. \A j \in DOMAIN todo : j > 1 => j - 1 \in DOMAIN rest /\ rest[j - 1] = todo[j]
  BY <1>1, <1>2
<1>6. 1 \in DOMAIN todo
  BY <1>1, <1>2
<1> HIDE DEF todo, w
<1>7. ASSUME NEW k \in DOMAIN rest
      PROVE  /\ rest[k].table = "family" =>
                  rest[k].status \notin {"none", "active", "deleted"}
             /\ rest[k].table = "session" =>
                  /\ rest[k].status = "revoked"
                  /\ \/ \E j \in DOMAIN rest : j > k /\ IsFamilyWrite(rest[j], rest[k].row)
                     \/ families'[rest[k].row].status \notin {"none", "active"}
                     \/ /\ families'[rest[k].row].status = "active"
                        /\ \E j \in DOMAIN rest : j < k /\ IsFamilyWrite(rest[j], rest[k].row)
  <2> DEFINE s == rest[k].row
  <2>1. k + 1 \in DOMAIN todo /\ rest[k] = todo[k + 1] /\ k \in Nat \ {0} /\ s \in Sessions
    <3>1. k + 1 \in DOMAIN todo /\ rest[k] = todo[k + 1] /\ k \in Nat \ {0}
      BY <1>1, <1>2
    <3> QED BY <1>3, <3>1
  <2>2. /\ rest[k].table = "family" => rest[k].status \notin {"none", "active", "deleted"}
        /\ rest[k].table = "session" => rest[k].status = "revoked"
    BY <1>4, <2>1 DEF Paired
  <2>3. ASSUME rest[k].table = "session"
        PROVE  \/ \E j \in DOMAIN rest : j > k /\ IsFamilyWrite(rest[j], s)
               \/ families'[s].status \notin {"none", "active"}
               \/ /\ families'[s].status = "active"
                  /\ \E j \in DOMAIN rest : j < k /\ IsFamilyWrite(rest[j], s)
    <3>1. \/ \E j \in DOMAIN todo : j > k + 1 /\ IsFamilyWrite(todo[j], s)
          \/ families[s].status \notin {"none", "active"}
          \/ /\ families[s].status = "active"
             /\ \E j \in DOMAIN todo : j < k + 1 /\ IsFamilyWrite(todo[j], s)
      BY <1>4, <2>1, <2>3 DEF Paired
    <3>2. CASE \E j \in DOMAIN todo : j > k + 1 /\ IsFamilyWrite(todo[j], s)
      <4>1. PICK j \in DOMAIN todo : j > k + 1 /\ IsFamilyWrite(todo[j], s)
        BY <3>2
      <4>2. j \in Int /\ j > 1 /\ j - 1 > k
        BY <1>1, <1>2, <2>1, <4>1
      <4> QED BY <1>5, <4>1, <4>2
    <3>3. CASE families[s].status \notin {"none", "active"}
      BY <2>1, <3>3 DEF SpentStaysSpent
    <3>4. CASE families[s].status = "active" /\
               \E j \in DOMAIN todo : j < k + 1 /\ IsFamilyWrite(todo[j], s)
      <4>1. PICK j \in DOMAIN todo : j < k + 1 /\ IsFamilyWrite(todo[j], s)
        BY <3>4
      <4>2. CASE j = 1
        <5>1. IsFamilyWrite(w, s) /\ w.table = "family"
          BY <1>1, <4>1, <4>2 DEF IsFamilyWrite
        <5> QED BY <1>1, <2>1, <3>4, <5>1
      <4>3. CASE j # 1
        <5>1. j \in Int /\ j > 1 /\ j - 1 < k
          BY <1>1, <1>2, <2>1, <4>1, <4>3
        <5>2. families'[s].status # "none"
          BY <2>1, <3>4 DEF SpentStaysSpent
        <5> QED BY <1>5, <4>1, <5>1, <5>2
      <4> QED BY <4>2, <4>3
    <3> QED BY <3>1, <3>2, <3>3, <3>4
  <2> QED BY <2>2, <2>3
<1>8. ASSUME NEW x \in Sessions, sessions'[x].status = "revoked",
             families'[x].status = "active", ~families'[x].orphan
      PROVE  \/ \E q \in AuthRequests \ {r} : \E k \in DOMAIN call[q].todo :
                  IsFamilyWrite(call[q].todo[k], x)
             \/ \E k \in DOMAIN rest : IsFamilyWrite(rest[k], x)
  <2>1. families[x].status = "active" /\ ~families[x].orphan /\ ~IsFamilyWrite(w, x)
    BY <1>1, <1>8 DEF IsFamilyWrite
  <2>2. ASSUME NEW k \in DOMAIN todo, IsFamilyWrite(todo[k], x)
        PROVE  \E j \in DOMAIN rest : IsFamilyWrite(rest[j], x)
    <3>1. k # 1
      BY <1>1, <2>1, <2>2
    <3>2. k \in Int /\ k > 1
      BY <1>1, <1>2, <3>1
    <3> QED BY <1>5, <2>2, <3>2
  <2>3. CASE sessions[x].status = "revoked"
    <3>1. PICK q \in AuthRequests : \E k \in DOMAIN call[q].todo :
            IsFamilyWrite(call[q].todo[k], x)
      BY <2>1, <2>3 DEF AuthInv, LineagesEndTogether, IsFamilyWrite
    <3> QED BY <2>2, <3>1 DEF todo
  <2>4. CASE sessions[x].status # "revoked"
    <3>1. w.table = "session" /\ w.row = x
      BY <1>1, <1>8, <2>4
    <3>2. PICK j \in DOMAIN todo : IsFamilyWrite(todo[j], x)
      BY <1>1, <1>4, <1>6, <2>1, <3>1 DEF Paired
    <3> QED BY <2>2, <3>2
  <2> QED BY <2>3, <2>4
<1> QED BY <1>7, <1>8 DEF Paired, IsFamilyWrite

\* A request writes to the next row.
LEMMA RevokeNextStep ==
  ASSUME AuthInv, NEW r \in AuthRequests, RevokeNext(r)
  PROVE  AuthInv'
<1> DEFINE c == call[r]
           todo == c.todo
           w == Head(todo)
           next == IF Len(todo) > 1 THEN [c EXCEPT !.todo = Tail(todo)]
                   ELSE IF c.then = "inserting"
                     THEN [c EXCEPT !.pc = "inserting", !.todo = <<>>]
                     ELSE Finished(c, c.then)
<1>1. CallFits(c) /\ StaleHolds(c) /\ c \in CallTypes /\ call \in [AuthRequests -> CallTypes]
  BY CallAt
<1>2. c.pc = "revoking" /\ c.then \in {"ok", "failed", "inserting"}
      /\ (c.stale => c.then = "failed") /\ c.stale \in BOOLEAN
      /\ (c.then = "inserting" => c.kind = "login" /\ c.arg \in LoginChallenges)
  BY <1>1 DEF RevokeNext, CallTypes, CallFits, StaleHolds, RequestKinds
<1>3. /\ todo \in Seq(Writes) /\ todo # <<>> /\ w = todo[1] /\ Len(todo) \in Nat \ {0}
      /\ w.table = "family" => w.status \notin {"none", "active", "deleted"}
      /\ sessions' \in [Sessions -> SessionTypes] /\ families' \in [Sessions -> FamilyTypes]
      /\ \A x \in Sessions :
           /\ sessions'[x].access = sessions[x].access
           /\ sessions'[x].status =
                IF w.table = "session" /\ w.row = x /\ sessions[x].status # "deleted"
                  THEN "revoked" ELSE sessions[x].status
           /\ families'[x].current = families[x].current
           /\ families'[x].status =
                IF IsFamilyWrite(w, x) /\ families[x].status \notin {"none", "deleted"}
                  THEN w.status ELSE families[x].status
  BY RevokeWrites
<1>4. UNCHANGED <<userActive, usedChallenges, signCounts, tokenCount, handedOut>>
  BY DEF RevokeNext
<1>5. Tail(todo) \in Seq(Writes) /\ Len(Tail(todo)) = Len(todo) - 1
      /\ (Len(todo) = 1 => Tail(todo) = <<>>) /\ (Len(todo) > 1 => Tail(todo) # <<>>)
  <2>1. Tail(todo) \in Seq(Writes) /\ Len(Tail(todo)) = Len(todo) - 1
    BY <1>3, HeadTailProperties
  <2>2. Tail(todo) = <<>> <=> Len(Tail(todo)) = 0
    BY <2>1, EmptySeq
  <2>3. Len(todo) \in Nat \ {0}
    BY <1>3
  <2>4. Len(todo) = 1 => Len(Tail(todo)) = 0
    BY <2>1
  <2>5. Len(todo) > 1 => Len(Tail(todo)) # 0
    <3>1. \A m \in Nat \ {0} : m > 1 => m - 1 # 0
      OBVIOUS
    <3> QED BY <2>1, <2>3, <3>1
  <2> QED BY <2>1, <2>2, <2>4, <2>5
<1>6. call' = [call EXCEPT ![r] = next]
  <2>1. c.then \notin {"ok", "failed"} => c.then = "inserting"
    BY <1>2
  <2> QED BY <1>1, <2>1 DEF RevokeNext, Goto
<1>7. /\ next \in CallTypes /\ next.todo = Tail(todo) /\ CallFits(next) /\ StaleHolds(next)
      /\ next.pc \notin Holding
  <2>1. CASE Len(todo) > 1
    <3>1. next = [c EXCEPT !.todo = Tail(todo)]
      BY <2>1
    <3> HIDE DEF c, next
    <3>2. /\ next \in CallTypes /\ next.todo = Tail(todo) /\ next.pc = c.pc
          /\ next.kind = c.kind /\ next.arg = c.arg /\ next.stale = c.stale
          /\ next.then = c.then
      <4> HIDE DEF todo
      <4> QED BY <1>1, <1>5, <3>1 DEF CallTypes
    <3> QED BY <1>2, <1>5, <2>1, <3>2
            DEF CallFits, StaleHolds, LoginSteps, RowSteps, Holding, RequestKinds
  <2>2. CASE Len(todo) = 1 /\ c.then = "inserting"
    <3>1. next = [c EXCEPT !.pc = "inserting", !.todo = <<>>]
      BY <2>2
    <3>2. ~c.stale
      BY <1>2, <2>2
    <3> HIDE DEF c, next
    <3>3. /\ next \in CallTypes /\ next.todo = <<>> /\ next.pc = "inserting"
          /\ next.kind = c.kind /\ next.arg = c.arg /\ next.stale = c.stale
      <4>1. <<>> \in Seq(Writes) /\ "inserting" \in AuthSteps
        BY EmptySeq DEF AuthSteps
      <4> QED BY <1>1, <3>1, <4>1 DEF CallTypes
    <3> QED BY <1>2, <1>5, <2>2, <3>2, <3>3
            DEF CallFits, StaleHolds, LoginSteps, RowSteps, Holding, RequestKinds
  <2>3. CASE Len(todo) = 1 /\ c.then # "inserting"
    <3>1. next = Finished(c, c.then) /\ c.then \in {"ok", "failed"}
      BY <1>2, <2>3
    <3>2. CallFits(next) /\ StaleHolds(next) /\ next.pc = c.then /\ next.todo = <<>>
      BY <1>2, <3>1, EndFits
    <3> QED BY <1>5, <2>3, <3>1, <3>2 DEF CallFits, Holding
  <2>4. Len(todo) > 1 \/ Len(todo) = 1
    <3>1. Len(todo) \in Nat \ {0}
      BY <1>3
    <3>2. \A m \in Nat \ {0} : m > 1 \/ m = 1
      OBVIOUS
    <3> QED BY <3>1, <3>2
  <2> HIDE DEF next, c
  <2> QED BY <2>1, <2>2, <2>3, <2>4
<1> HIDE DEF next, c
<1>8. Sessions' = Sessions
  BY <1>3, RowsKeepTypes
<1>9. SpentStaysSpent
  BY <1>3, <1>4, <1>8 DEF SpentStaysSpent, IsFamilyWrite
<1>10. PICK rest : rest = Tail(todo)
  OBVIOUS
<1>11. /\ Paired(rest)'
       /\ \A x \in Sessions :
            sessions'[x].status = "revoked" /\ families'[x].status = "active" =>
              \/ families'[x].orphan
              \/ \E q \in AuthRequests \ {r} : \E k \in DOMAIN call[q].todo :
                   IsFamilyWrite(call[q].todo[k], x)
              \/ \E k \in DOMAIN rest : IsFamilyWrite(rest[k], x)
  BY <1>9, <1>10, TailPairs DEF c
<1>12. PICK d : d = next
  OBVIOUS
<1>13. call' \in [AuthRequests -> CallTypes'] /\ CallsFit' /\ StaleHold' /\ WritesArePaired'
  <2>1. CallFits(d)' /\ StaleHolds(d)'
    BY <1>7, <1>9, <1>12, CallFitsOn
  <2>2. WritesPair(d)'
    <3>1. d.todo = rest
      BY <1>7, <1>10, <1>12
    <3> QED BY <1>11, <3>1 DEF WritesPair, Paired
  <2>3. call' = [call EXCEPT ![r] = d]
    BY <1>6, <1>12
  <2> QED BY <1>9, <2>1, <2>2, <2>3, OthersStay
<1>14. call'[r] = next /\ \A q \in AuthRequests \ {r} : call'[q] = call[q]
  BY <1>1, <1>6
<1>15. TokensAreApart'
  <2>1. \A q \in AuthRequests : call'[q].pc \in Holding => q # r /\ call'[q] = call[q]
    BY <1>7, <1>14
  <2> QED BY <1>4, <2>1 DEF AuthInv, TokensAreApart
<1>16. RowsAreApart'
  <2>1. \A q \in AuthRequests : call[q].pc \in Opening => call[q].row \in Sessions
    BY DEF AuthInv, CallsFit, CallFits, RowSteps, Holding, Opening
  <2>2. \A q \in AuthRequests : call'[q].pc \in Opening => q # r /\ call'[q] = call[q]
    BY <1>7, <1>14 DEF Opening, Holding
  <2>3. \A x \in Sessions :
          /\ families[x].status = "none" => families'[x].status = "none"
          /\ sessions[x].status = "deleted" => sessions'[x].status = "deleted"
    BY <1>3
  <2> QED BY <2>1, <2>2, <2>3 DEF AuthInv, RowsAreApart
<1>17. \A x \in Sessions : sessions'[x].status = "revoked" /\ families'[x].status = "active" =>
            \/ families'[x].orphan
            \/ \E q \in AuthRequests : \E k \in DOMAIN call'[q].todo :
                 call'[q].todo[k].table = "family" /\ call'[q].todo[k].row = x
  <2> SUFFICES ASSUME NEW x \in Sessions, sessions'[x].status = "revoked",
                      families'[x].status = "active", ~families'[x].orphan
               PROVE  \E q \in AuthRequests : \E k \in DOMAIN call'[q].todo :
                        call'[q].todo[k].table = "family" /\ call'[q].todo[k].row = x
    OBVIOUS
  <2>1. call'[r].todo = rest
    BY <1>7, <1>10, <1>14
  <2>2. CASE \E k \in DOMAIN rest : IsFamilyWrite(rest[k], x)
    BY <2>1, <2>2 DEF IsFamilyWrite
  <2>3. CASE \E q \in AuthRequests \ {r} : \E k \in DOMAIN call[q].todo :
               IsFamilyWrite(call[q].todo[k], x)
    BY <1>14, <2>3 DEF IsFamilyWrite
  <2> QED BY <1>11, <2>2, <2>3
<1>18. ~userActive' => \A x \in Sessions :
           sessions'[x].status = "deleted" /\ families'[x].status \in {"none", "deleted"}
  BY <1>3, <1>4 DEF AuthInv, NothingOutlivesDeletion
<1>19. /\ userActive' \in BOOLEAN /\ usedChallenges' \subseteq LoginChallenges
       /\ signCounts' \in [Devices -> LoginChallenges \cup {0}]
       /\ tokenCount' \in Nat /\ handedOut' \subseteq 1..tokenCount'
  BY <1>4 DEF AuthInv, AuthTypeOK
<1> QED BY <1>3, <1>9, <1>13, <1>15, <1>16, <1>17, <1>18, <1>19, WriteStep

-----------------------------------------------------------------------------
(* AuthSessions: the invariant, and what follows *)

LEMMA AuthInvNext ==
  ASSUME AuthInv, [AuthNext]_authVars
  PROVE  AuthInv'
<1>1. ASSUME NEW r \in AuthRequests,
             LoginCompleteRoute(r) \/ RefreshRoute(r) \/ LogoutRoute(r)
             \/ ListSessionsRoute(r) \/ RequireViewer(r)
      PROVE  AuthInv'
  BY <1>1, BeginsStep DEF LoginCompleteRoute, RefreshRoute, LogoutRoute, ListSessionsRoute,
                          RequireViewer, RequestKinds
<1>2. ASSUME NEW r \in AuthRequests,
             VerifyChallenge(r) \/ VerifyAssertion(r) \/ ConsumeChallenge(r)
             \/ PruneForLogin(r) \/ InsertSession(r) \/ RecordAssertion(r) \/ InsertFamily(r)
      PROVE  AuthInv'
  BY <1>2, LoginReadSteps, LoginRecordSteps, InsertSessionStep, InsertFamilyStep
<1>3. ASSUME NEW r \in AuthRequests,
             FindFamily(r) \/ FindReused(r) \/ LoadSession(r) \/ LoadUser(r)
             \/ RotateAccess(r) \/ RotateFamily(r)
      PROVE  AuthInv'
  BY <1>3, RefreshReadSteps, RotateAccessStep, RotateFamilyStep
<1>4. ASSUME NEW r \in AuthRequests,
             FindSession(r) \/ ResolveViewer(r) \/ LogOut(r) \/ ListSessions(r)
             \/ RevokeNext(r)
      PROVE  AuthInv'
  BY <1>4, ViewerReadSteps, RevokeNextStep
<1>5. ASSUME DeleteAccount PROVE AuthInv'
  BY <1>5, DeleteAccountStep
<1>6. ASSUME NEW s \in Sessions, ExpireAccess(s) \/ ExpireFamily(s) PROVE AuthInv'
  BY <1>6, ExpireSteps
<1>7. CASE UNCHANGED authVars
  <2>1. UNCHANGED <<userActive, usedChallenges, signCounts, sessions, families,
                    tokenCount, handedOut, call>>
    BY <1>7 DEF authVars
  <2>2. sessions \in [Sessions -> SessionTypes] /\ families \in [Sessions -> FamilyTypes]
    BY AuthRowTypes DEF AuthInv
  <2>3. SpentStaysSpent /\ Sessions' = Sessions
    BY <2>1 DEF SpentStaysSpent, Sessions
  <2>4. call' \in [AuthRequests -> CallTypes'] /\ CallsFit' /\ StaleHold' /\ WritesArePaired'
    BY <2>1, <2>3, AllCallsStay
  <2>5. TokensAreApart' /\ RowsAreApart'
    BY <2>1 DEF AuthInv, TokensAreApart, RowsAreApart
  <2>6. NothingOutlivesDeletion' /\ LineagesEndTogether'
    BY <2>1, <2>3 DEF AuthInv, NothingOutlivesDeletion, LineagesEndTogether
  <2>7. AuthTypeOK'
    <3>1. \A q \in AuthRequests : call'[q].todo \in Seq(Writes')
      BY <2>4 DEF CallTypes
    <3> QED BY <2>1, <3>1 DEF AuthInv, AuthTypeOK
  <2> QED BY <2>4, <2>5, <2>6, <2>7 DEF AuthInv
<1> QED BY <1>1, <1>2, <1>3, <1>4, <1>5, <1>6, <1>7 DEF AuthNext

LEMMA AuthInvHolds == AuthSpec => []AuthInv
<1>1. AuthInit => AuthInv
  BY AuthInvInit
<1>2. AuthInv /\ [AuthNext]_authVars => AuthInv'
  BY AuthInvNext
<1> QED BY <1>1, <1>2, PTL DEF AuthSpec

\* The types of the variables.
THEOREM AuthStateIsTyped == AuthSpec => []AuthTypeOK
<1>1. AuthInv => AuthTypeOK
  BY DEF AuthInv
<1> QED BY <1>1, AuthInvHolds, PTL

\* A request that presents something spent never succeeds, whatever other
\* requests do in between: a consumed challenge, a refresh token that was
\* rotated away, an access token of an ended session, or anything after the
\* account's deletion.
THEOREM StaleRequestsAlwaysFail == AuthSpec => []StaleRequestsFail
<1>1. AuthInv => StaleRequestsFail
  BY DEF AuthInv, StaleHold, StaleHolds, StaleRequestsFail, RequestKinds
<1> QED BY <1>1, AuthInvHolds, PTL

\* No login or refresh under way leaves a session or a family of a deleted
\* account behind.
THEOREM DeletionEndsSessions == AuthSpec => []NothingOutlivesDeletion
<1>1. AuthInv => NothingOutlivesDeletion
  BY DEF AuthInv
<1> QED BY <1>1, AuthInvHolds, PTL

\* A revoked session has an active family only while the request that ends
\* both goes on, or when its login inserted the family after the revocation.
THEOREM LineagesAlwaysEndTogether == AuthSpec => []LineagesEndTogether
<1>1. AuthInv => LineagesEndTogether
  BY DEF AuthInv
<1> QED BY <1>1, AuthInvHolds, PTL

-----------------------------------------------------------------------------
(* CredentialRegistry: roots and answers. *)

Entries == [material : Materials, leaf : Nat, revoked : BOOLEAN]

CallStates ==
    [pc : IssueSteps, who : Identities, material : Materials,
     status : {"none", "issued", "existing"},
     listed : {NoTree} \cup SUBSET Leaves, latest : Int]

RootRecords == [tree : SUBSET Leaves, previous : Int, signed : BOOLEAN]

IssuedLeaves == {LeafOf(i) : i \in Issued}

HasLeaf(c) == issue[c].pc \in {"building", "answered"}

\* The inductive invariant: indices are unique, whatever was listed or made
\* a root is issued, and a call that goes on has a row of its own.
RegistryTypes ==
    /\ credential \in [Identities -> {NoCredential} \cup Entries]
    /\ issue \in [IssueCalls -> CallStates]
    /\ rootRows \in Seq(RootRecords)

LeavesAreUnique ==
    \A i, j \in Issued : credential[i].leaf = credential[j].leaf => i = j

ListsAreIssued ==
    \A c \in IssueCalls : issue[c].listed = NoTree \/ issue[c].listed \subseteq IssuedLeaves

RootsAreIssued == \A k \in DOMAIN rootRows : rootRows[k].tree \subseteq IssuedLeaves

CallsHaveRows ==
    \A c \in IssueCalls : HasLeaf(c) =>
        Caller(c) \in Issued /\ Row(c).material = issue[c].material

LatestIsRoot == \A c \in IssueCalls : issue[c].latest <= Len(rootRows)

AnswersAreKnown ==
    \A c \in IssueCalls : issue[c].pc = "answered" =>
        /\ issue[c].listed # NoTree
        /\ RootKnown(issue[c].listed) /\ OwnLeaf(c) \in issue[c].listed

RegistryInv ==
    /\ RegistryTypes /\ LeavesAreUnique /\ ListsAreIssued /\ RootsAreIssued
    /\ LatestIsRoot /\ CallsHaveRows /\ AnswersAreKnown /\ SignedRootsAreAnchored

-----------------------------------------------------------------------------
\* An issued leaf is a typed one.
LEMMA IssuedLeavesTypes ==
    ASSUME RegistryTypes PROVE IssuedLeaves \subseteq Leaves
BY DEF RegistryTypes, IssuedLeaves, LeafOf, Issued, Entries, Leaves

\* Whatever the registry lists has been issued.
LEMMA ListedIsIssued ==
    /\ ListActive \subseteq IssuedLeaves
    /\ ListActive # NoTree
<1>1. ListActive \subseteq IssuedLeaves
  BY DEF ListActive, IssuedLeaves
<1>2. \A l \in ListActive : DOMAIN l = {"leaf", "who", "material"}
  BY DEF ListActive, LeafOf
<1>3. \A l \in NoTree : DOMAIN l = {"leaf"}
  BY DEF NoTree
<1>4. NoTree # {} /\ {"leaf"} # {"leaf", "who", "material"}
  BY DEF NoTree
<1> QED
  BY <1>1, <1>2, <1>3, <1>4

LEMMA RegistryInvInit == RegistryInit => RegistryInv
<1> SUFFICES ASSUME RegistryInit PROVE RegistryInv
  OBVIOUS
<1>1. PICK request \in IssueRequests :
         issue = [c \in IssueCalls |->
                    [pc |-> "byKey", who |-> request[c][1],
                     material |-> request[c][2], status |-> "none",
                     listed |-> NoTree, latest |-> -1]]
  BY DEF RegistryInit
<1>2. request \in [IssueCalls -> Identities \X Materials]
  BY IssueRequestsAssumption
<1>3. \A c \in IssueCalls : request[c][1] \in Identities /\ request[c][2] \in Materials
  BY <1>2
<1>4. issue \in [IssueCalls -> CallStates]
  BY <1>1, <1>3 DEF CallStates, IssueSteps
<1>5. Issued = {} /\ rootRows = <<>>
  BY DEF RegistryInit, Issued
<1>6. RegistryTypes
  BY <1>4, <1>5 DEF RegistryInit, RegistryTypes
<1> QED
  BY <1>1, <1>5, <1>6 DEF RegistryInv, LeavesAreUnique, ListsAreIssued, RootsAreIssued,
       LatestIsRoot, CallsHaveRows, AnswersAreKnown, SignedRootsAreAnchored, HasLeaf

\* What a step of the calls and deletions may do to the rows: none changes
\* but by being revoked, so a leaf that was issued stays.
RowsStay ==
    \A i \in Issued : i \in Issued' /\ LeafOf(i)' = LeafOf(i)

RootsStay ==
    \A k \in DOMAIN rootRows :
        k \in DOMAIN rootRows' /\ rootRows'[k].tree = rootRows[k].tree

LEMMA StayingRows == ASSUME RowsStay PROVE IssuedLeaves \subseteq IssuedLeaves'
BY DEF RowsStay, IssuedLeaves

LEMMA StayingAnswers ==
    ASSUME RegistryInv, RowsStay, RootsStay, NEW c \in IssueCalls,
           issue'[c] = issue[c]
    PROVE  /\ HasLeaf(c)' => (Caller(c) \in Issued /\ Row(c).material = issue[c].material)'
           /\ issue'[c].pc = "answered" =>
                (/\ issue[c].listed # NoTree
                 /\ RootKnown(issue[c].listed) /\ OwnLeaf(c) \in issue[c].listed)'
           /\ (issue[c].listed = NoTree \/ issue[c].listed \subseteq IssuedLeaves)'
<1>1. Caller(c)' = Caller(c) /\ HasLeaf(c)' = HasLeaf(c)
  BY DEF Caller, HasLeaf
<1>2. ASSUME HasLeaf(c)
      PROVE  /\ Caller(c) \in Issued'
             /\ Row(c)'.material = Row(c).material /\ Row(c)'.leaf = Row(c).leaf
  <2>1. PICK i \in Issued : i = Caller(c)
    BY <1>2 DEF RegistryInv, CallsHaveRows
  <2>2. i \in Issued' /\ LeafOf(i)' = LeafOf(i)
    BY DEF RowsStay
  <2>3. credential'[i].leaf = credential[i].leaf /\ credential'[i].material = credential[i].material
    BY <2>2 DEF LeafOf
  <2>4. Row(c) = credential[i] /\ Row(c)' = credential'[i]
    BY <1>1, <2>1 DEF Row
  <2> QED
    BY <2>1, <2>2, <2>3, <2>4
<1>3. PICK tree : tree = issue[c].listed
  OBVIOUS
<1>4. RootKnown(tree) => RootKnown(tree)'
  BY DEF RootKnown, RootsStay
<1>5. issue[c].pc = "answered" => HasLeaf(c)
  BY DEF HasLeaf
<1>6. HasLeaf(c) => OwnLeaf(c)' = OwnLeaf(c)
  BY <1>1, <1>2 DEF OwnLeaf
<1>7. HasLeaf(c)' => (Caller(c) \in Issued /\ Row(c).material = issue[c].material)'
  BY <1>1, <1>2 DEF RegistryInv, CallsHaveRows
<1>8. ASSUME issue[c].pc = "answered"
      PROVE  tree # NoTree /\ RootKnown(tree)' /\ OwnLeaf(c)' \in tree
  <2>1. tree # NoTree /\ RootKnown(tree) /\ OwnLeaf(c) \in tree
    BY <1>3, <1>8 DEF RegistryInv, AnswersAreKnown
  <2> QED
    BY <1>4, <1>5, <1>6, <1>8, <2>1
<1>9. tree = NoTree \/ tree \subseteq IssuedLeaves'
  BY <1>3, StayingRows DEF RegistryInv, ListsAreIssued
<1>10. issue'[c].listed = tree
  BY <1>3
<1> QED
  BY <1>7, <1>8, <1>9, <1>10

\* What call c may become while the tables stay as they are.
GoodFor(c, r) ==
    /\ r \in CallStates /\ r.who = issue[c].who
    /\ r.listed = NoTree \/ r.listed \subseteq IssuedLeaves
    /\ r.pc = "building" => Caller(c) \in Issued /\ Row(c).material = r.material
    /\ r.pc # "answered" /\ r.latest <= Len(rootRows)

\* A call that only reads keeps the invariant.
LEMMA ReadingKeepsInv ==
    ASSUME RegistryInv, NEW c \in IssueCalls, NEW r, GoodFor(c, r),
           issue' = [issue EXCEPT ![c] = r],
           UNCHANGED <<credential, rootRows, anchoredTrees>>
    PROVE  RegistryInv'
<1>1. issue' \in [IssueCalls -> CallStates]
  BY DEF RegistryInv, RegistryTypes, GoodFor
<1>2. issue'[c] = r /\ \A d \in IssueCalls \ {c} : issue'[d] = issue[d]
  BY DEF RegistryInv, RegistryTypes
<1>3. Issued' = Issued /\ IssuedLeaves' = IssuedLeaves
  BY DEF Issued, IssuedLeaves, LeafOf
<1>4. RegistryTypes'
  BY <1>1 DEF RegistryInv, RegistryTypes
<1>5. LeavesAreUnique' /\ RootsAreIssued' /\ SignedRootsAreAnchored'
  BY <1>3 DEF RegistryInv, LeavesAreUnique, RootsAreIssued, SignedRootsAreAnchored
<1>6. RowsStay /\ RootsStay
  BY <1>3 DEF RowsStay, RootsStay, LeafOf
<1>7. ASSUME NEW d \in IssueCalls, d # c
      PROVE  /\ HasLeaf(d)' => (Caller(d) \in Issued /\ Row(d).material = issue[d].material)'
             /\ issue'[d].pc = "answered" =>
                (/\ issue[d].listed # NoTree
                 /\ RootKnown(issue[d].listed) /\ OwnLeaf(d) \in issue[d].listed)'
             /\ (issue[d].listed = NoTree \/ issue[d].listed \subseteq IssuedLeaves)'
  BY <1>2, <1>6, <1>7, StayingAnswers
<1>8. Caller(c)' = Caller(c) /\ Row(c)' = Row(c)
  BY <1>2 DEF Caller, Row, GoodFor
<1>9. CallsHaveRows'
  BY <1>2, <1>3, <1>7, <1>8 DEF CallsHaveRows, HasLeaf, GoodFor
<1>10. AnswersAreKnown'
  BY <1>2, <1>7 DEF AnswersAreKnown, GoodFor
<1>11. ListsAreIssued'
  BY <1>2, <1>3, <1>7 DEF ListsAreIssued, GoodFor
<1>12. LatestIsRoot'
  BY <1>2 DEF RegistryInv, LatestIsRoot, GoodFor
<1> QED
  BY <1>4, <1>5, <1>9, <1>10, <1>11, <1>12 DEF RegistryInv

\* A row that exists and matches the input has the material of the call.
LEMMA GoingOn ==
    ASSUME RegistryInv, NEW c \in IssueCalls, Row(c) # NoCredential, GoOnWithExisting(c)
    PROVE  \E r : GoodFor(c, r) /\ issue' = [issue EXCEPT ![c] = r]
<1>0. issue[c] \in CallStates /\ Caller(c) \in Identities
      /\ (issue[c].listed = NoTree \/ issue[c].listed \subseteq IssuedLeaves)
      /\ issue[c].latest <= Len(rootRows)
  BY DEF RegistryInv, RegistryTypes, CallStates, Caller, ListsAreIssued, LatestIsRoot
<1>1. CASE MatchesInput(c)
  <2> DEFINE r == [issue[c] EXCEPT !.pc = "building", !.status = "existing"]
  <2>1. issue' = [issue EXCEPT ![c] = r]
    BY <1>1 DEF GoOnWithExisting
  <2>2. r \in CallStates /\ r.who = issue[c].who /\ r.listed = issue[c].listed
        /\ r.pc = "building" /\ r.material = issue[c].material /\ r.latest = issue[c].latest
    BY <1>0 DEF CallStates, IssueSteps
  <2>3. Caller(c) \in Issued /\ Row(c).material = issue[c].material
    BY <1>0, <1>1 DEF MatchesInput, Issued, Row
  <2>4. GoodFor(c, r)
    BY <1>0, <2>2, <2>3 DEF GoodFor
  <2> HIDE DEF r
  <2> QED
    BY <2>1, <2>4
<1>2. CASE ~MatchesInput(c)
  <2> DEFINE r == [issue[c] EXCEPT !.pc = "failed"]
  <2>1. issue' = [issue EXCEPT ![c] = r]
    BY <1>2 DEF GoOnWithExisting
  <2>2. r \in CallStates /\ r.who = issue[c].who /\ r.listed = issue[c].listed
        /\ r.pc = "failed" /\ r.latest = issue[c].latest
    BY <1>0 DEF CallStates, IssueSteps
  <2>4. GoodFor(c, r)
    BY <1>0, <2>2 DEF GoodFor
  <2> HIDE DEF r
  <2> QED
    BY <2>1, <2>4
<1> QED
  BY <1>1, <1>2

\* Every read of a call leaves it good.
LEMMA ReadingSteps ==
    ASSUME RegistryInv, NEW c \in IssueCalls,
           \/ FindExisting(c) \/ ListEntries(c) \/ FindAfterConflict(c)
           \/ ReadActive(c) \/ ReadLatestRoot(c)
    PROVE  RegistryInv'
<1>0. issue[c] \in CallStates /\ Caller(c) \in Identities
      /\ (issue[c].listed = NoTree \/ issue[c].listed \subseteq IssuedLeaves)
      /\ (issue[c].pc = "building" =>
            Caller(c) \in Issued /\ Row(c).material = issue[c].material)
      /\ issue[c].latest <= Len(rootRows)
  BY DEF RegistryInv, RegistryTypes, CallStates, Caller, ListsAreIssued, CallsHaveRows, HasLeaf,
         LatestIsRoot
<1>1. ListActive \subseteq IssuedLeaves /\ ListActive \subseteq Leaves /\ IssuedLeaves \subseteq Leaves
  BY ListedIsIssued, IssuedLeavesTypes DEF RegistryInv
<1> SUFFICES \E r : GoodFor(c, r) /\ issue' = [issue EXCEPT ![c] = r]
  BY ReadingKeepsInv DEF FindExisting, ListEntries, FindAfterConflict, ReadActive, ReadLatestRoot
<1>2. CASE (FindExisting(c) \/ FindAfterConflict(c)) /\ Row(c) # NoCredential
  BY <1>2, GoingOn DEF FindExisting, FindAfterConflict, GoOnAfterConflict
<1>3. ASSUME NEW pc \in {"byIdentity", "listing", "failed"},
             issue' = [issue EXCEPT ![c].pc = pc]
      PROVE  \E r : GoodFor(c, r) /\ issue' = [issue EXCEPT ![c] = r]
  <2> DEFINE r == [issue[c] EXCEPT !.pc = pc]
  <2>1. r \in CallStates /\ r.who = issue[c].who /\ r.listed = issue[c].listed /\ r.pc = pc
        /\ r.latest = issue[c].latest
    BY <1>0 DEF CallStates, IssueSteps
  <2>2. issue' = [issue EXCEPT ![c] = r]
    BY <1>3
  <2>3. GoodFor(c, r)
    BY <1>0, <2>1 DEF GoodFor
  <2> HIDE DEF r
  <2> QED
    BY <2>2, <2>3
<1>4. CASE (FindExisting(c) \/ FindAfterConflict(c)) /\ Row(c) = NoCredential
  <2>1. \E pc \in {"byIdentity", "listing", "failed"} : issue' = [issue EXCEPT ![c].pc = pc]
    <3>1. CASE FindExisting(c)
      <4>1. issue' = [issue EXCEPT ![c].pc = IF issue[c].pc = "byKey" THEN "byIdentity" ELSE "listing"]
        BY <1>4, <3>1 DEF FindExisting
      <4> QED
        BY <4>1
    <3>2. CASE FindAfterConflict(c)
      BY <1>4, <3>2 DEF FindAfterConflict
    <3> QED
      BY <1>4, <3>1, <3>2
  <2> QED
    BY <1>3, <2>1
<1>5. CASE ListEntries(c)
  <2> DEFINE r == [issue[c] EXCEPT !.pc = "inserting", !.listed = ListActive]
  <2>1. r \in CallStates /\ r.who = issue[c].who /\ r.listed = ListActive /\ r.pc = "inserting"
        /\ r.latest = issue[c].latest
    BY <1>0, <1>1 DEF CallStates, IssueSteps
  <2>2. issue' = [issue EXCEPT ![c] = r]
    BY <1>5 DEF ListEntries
  <2>3. GoodFor(c, r)
    BY <1>0, <1>1, <2>1 DEF GoodFor
  <2> HIDE DEF r
  <2> QED
    BY <2>2, <2>3
<1>6. CASE ReadActive(c)
  <2> DEFINE r == [issue[c] EXCEPT !.listed = ListActive]
  <2>1. r \in CallStates /\ r.who = issue[c].who /\ r.listed = ListActive
        /\ r.pc = "building" /\ r.material = issue[c].material /\ r.latest = issue[c].latest
    BY <1>0, <1>1, <1>6 DEF CallStates, ReadActive
  <2>2. issue' = [issue EXCEPT ![c] = r]
    BY <1>6 DEF ReadActive
  <2>3. GoodFor(c, r)
    BY <1>0, <1>1, <1>6, <2>1 DEF GoodFor, ReadActive
  <2> HIDE DEF r
  <2> QED
    BY <2>2, <2>3
<1>7. CASE ReadLatestRoot(c)
  <2> DEFINE r == [issue[c] EXCEPT !.latest = Len(rootRows)]
  <2>0. Len(rootRows) \in Int /\ Len(rootRows) <= Len(rootRows)
    BY DEF RegistryInv, RegistryTypes
  <2>1. r \in CallStates /\ r.who = issue[c].who /\ r.listed = issue[c].listed
        /\ r.pc = "building" /\ r.material = issue[c].material /\ r.latest = Len(rootRows)
    BY <1>0, <1>7, <2>0 DEF CallStates, ReadLatestRoot
  <2>2. issue' = [issue EXCEPT ![c] = r]
    BY <1>7 DEF ReadLatestRoot
  <2>3. GoodFor(c, r)
    BY <1>0, <1>7, <2>0, <2>1 DEF GoodFor, ReadLatestRoot
  <2> HIDE DEF r
  <2> QED
    BY <2>2, <2>3
<1> QED
  BY <1>2, <1>4, <1>5, <1>6, <1>7

\* The commitment inserted last has an index of its own.
LEMMA InsertKeepsInv ==
    ASSUME RegistryInv, NEW c \in IssueCalls, InsertEntry(c) PROVE RegistryInv'
<1>0. /\ issue[c] \in CallStates /\ Caller(c) \in Identities
      /\ issue[c].material \in Materials /\ issue[c].latest <= Len(rootRows)
  BY DEF RegistryInv, RegistryTypes, CallStates, Caller, LatestIsRoot
<1>1. CASE Insertable(c)
  <2> DEFINE n == NextLeafIndex(issue[c].listed)
             row == [material |-> issue[c].material, leaf |-> n, revoked |-> FALSE]
             r == [issue[c] EXCEPT !.pc = "building", !.status = "issued", !.listed = NoTree]
  <2>1. n \in Nat /\ n \notin UsedLeafIndices /\ credential[Caller(c)] = NoCredential
    BY <1>1 DEF Insertable, Row
  <2>2. credential' = [credential EXCEPT ![Caller(c)] = row]
        /\ issue' = [issue EXCEPT ![c] = r] /\ UNCHANGED <<rootRows, anchoredTrees>>
    BY <1>1 DEF InsertEntry
  <2>3. row \in Entries /\ row # NoCredential
    <3> HIDE DEF n
    <3>1. row \in Entries
      BY <1>0, <2>1 DEF Entries
    <3> QED
      BY <3>1, NoCredentialAssumption DEF Entries
  <2>4. r \in CallStates /\ r.who = issue[c].who /\ r.material = issue[c].material
        /\ r.pc = "building" /\ r.listed = NoTree /\ r.latest = issue[c].latest
    BY <1>0 DEF CallStates, IssueSteps
  <2>5. row.material = issue[c].material /\ row.leaf = n
    OBVIOUS
  <2> HIDE DEF n, row, r
  <2>6. PICK who \in Identities : who = Caller(c)
    BY <1>0
  <2>7. /\ credential' \in [Identities -> {NoCredential} \cup Entries]
        /\ credential'[who] = row
        /\ \A i \in Identities \ {who} : credential'[i] = credential[i]
    BY <2>2, <2>3, <2>6 DEF RegistryInv, RegistryTypes
  <2>8. Issued' = Issued \cup {who} /\ who \notin Issued
    BY <2>1, <2>3, <2>6, <2>7 DEF Issued
  <2>9. RowsStay /\ RootsStay
    BY <2>2, <2>7, <2>8 DEF RowsStay, RootsStay, LeafOf, Issued
  <2>10. issue' \in [IssueCalls -> CallStates] /\ issue'[c] = r
         /\ \A d \in IssueCalls \ {c} : issue'[d] = issue[d]
    BY <2>2, <2>4 DEF RegistryInv, RegistryTypes
  <2>11. RegistryTypes'
    BY <2>2, <2>7, <2>10 DEF RegistryInv, RegistryTypes
  <2>12. LeavesAreUnique'
    <3>1. \A i \in Issued : credential'[i] = credential[i] /\ credential[i].leaf # n
      BY <2>1, <2>7, <2>8 DEF UsedLeafIndices, Issued
    <3> QED
      BY <2>5, <2>7, <2>8, <3>1 DEF RegistryInv, LeavesAreUnique
  <2>13. RootsAreIssued'
    BY <2>2, <2>9, StayingRows DEF RegistryInv, RootsAreIssued
  <2>14. ASSUME NEW d \in IssueCalls, d # c
      PROVE  /\ HasLeaf(d)' => (Caller(d) \in Issued /\ Row(d).material = issue[d].material)'
             /\ issue'[d].pc = "answered" =>
                (/\ issue[d].listed # NoTree
                 /\ RootKnown(issue[d].listed) /\ OwnLeaf(d) \in issue[d].listed)'
             /\ (issue[d].listed = NoTree \/ issue[d].listed \subseteq IssuedLeaves)'
    BY <2>9, <2>10, <2>14, StayingAnswers
  <2>15. Caller(c)' = who /\ Row(c)' = row
    BY <2>4, <2>6, <2>7, <2>10 DEF Caller, Row
  <2>16. CallsHaveRows'
    BY <2>4, <2>5, <2>8, <2>10, <2>14, <2>15 DEF CallsHaveRows
  <2>17. AnswersAreKnown'
    BY <2>4, <2>10, <2>14 DEF AnswersAreKnown
  <2>18. ListsAreIssued'
    BY <2>4, <2>10, <2>14 DEF ListsAreIssued
  <2>19. SignedRootsAreAnchored'
    BY <2>2 DEF RegistryInv, SignedRootsAreAnchored
  <2>20. LatestIsRoot'
    BY <1>0, <2>2, <2>4, <2>10 DEF RegistryInv, LatestIsRoot
  <2> QED
    BY <2>11, <2>12, <2>13, <2>16, <2>17, <2>18, <2>19, <2>20 DEF RegistryInv
<1>2. CASE ~Insertable(c)
  <2> DEFINE r == [issue[c] EXCEPT !.pc = "conflicting", !.listed = NoTree]
  <2>1. issue' = [issue EXCEPT ![c] = r] /\ UNCHANGED <<credential, rootRows, anchoredTrees>>
    BY <1>2 DEF InsertEntry
  <2>2. r \in CallStates /\ r.who = issue[c].who /\ r.listed = NoTree
        /\ r.pc = "conflicting" /\ r.latest = issue[c].latest
    BY <1>0 DEF CallStates, IssueSteps
  <2>3. GoodFor(c, r)
    BY <1>0, <2>2 DEF GoodFor
  <2> HIDE DEF r
  <2> QED
    BY <2>1, <2>3, ReadingKeepsInv
<1> QED
  BY <1>1, <1>2

\* A root is inserted with the leaves that were read, the entry's own among
\* them.
LEMMA SettleKeepsInv ==
    ASSUME RegistryInv, NEW c \in IssueCalls, SettleRoot(c) PROVE RegistryInv'
<1> DEFINE tree  == issue[c].listed
           last  == issue[c].latest
           isLatest == last > 0 /\ rootRows[last].tree = tree
           known == RootKnown(tree)
           fails == OwnLeaf(c) \notin tree \/ (~isLatest /\ known)
           row == [tree |-> tree, previous |-> last, signed |-> FALSE]
<1>0. issue[c] \in CallStates /\ tree # NoTree /\ issue[c].pc = "building"
      /\ UNCHANGED <<credential, anchoredTrees>>
  BY DEF RegistryInv, RegistryTypes, SettleRoot
<1>1. tree \subseteq IssuedLeaves /\ tree \subseteq Leaves /\ last \in Int
  BY <1>0, IssuedLeavesTypes DEF RegistryInv, ListsAreIssued, CallStates
<1>2. Caller(c) \in Issued /\ Row(c).material = issue[c].material
  BY <1>0 DEF RegistryInv, CallsHaveRows, HasLeaf
<1>5. -1 \in Int /\ -1 <= Len(rootRows)
  BY DEF RegistryInv, RegistryTypes
<1>3. CASE fails
  <2> DEFINE r == [issue[c] EXCEPT !.pc = "failed", !.listed = NoTree, !.latest = -1]
  <2>1. issue' = [issue EXCEPT ![c] = r] /\ UNCHANGED rootRows
    BY <1>3 DEF SettleRoot
  <2>2. /\ r \in CallStates /\ r.who = issue[c].who /\ r.listed = NoTree
        /\ r.pc = "failed" /\ r.latest = -1
    BY <1>0, <1>5 DEF CallStates, IssueSteps
  <2>3. GoodFor(c, r)
    BY <1>5, <2>2 DEF GoodFor
  <2> HIDE DEF r
  <2> QED
    BY <1>0, <2>1, <2>3, ReadingKeepsInv
<1>4. CASE ~fails
  <2> DEFINE r == [issue[c] EXCEPT !.pc = "answered", !.latest = -1]
  <2>1. issue' = [issue EXCEPT ![c] = r]
        /\ rootRows' = IF isLatest THEN rootRows ELSE Append(rootRows, row)
    BY <1>4 DEF SettleRoot
  <2>2. r \in CallStates /\ r.who = issue[c].who /\ r.listed = tree /\ r.pc = "answered"
        /\ r.material = issue[c].material /\ r.latest = -1
    BY <1>0, <1>5 DEF CallStates, IssueSteps
  <2>3. row \in RootRecords /\ row.tree = tree /\ row.signed = FALSE
    BY <1>1 DEF RootRecords
  <2>4. OwnLeaf(c) \in tree
    BY <1>4
  <2>5. rootRows \in Seq(RootRecords)
    BY DEF RegistryInv, RegistryTypes
  <2> HIDE DEF r, row, tree
  <2>6. /\ rootRows' \in Seq(RootRecords)
        /\ \A k \in DOMAIN rootRows : k \in DOMAIN rootRows' /\ rootRows'[k] = rootRows[k]
        /\ \A k \in DOMAIN rootRows' : k \in DOMAIN rootRows \/ rootRows'[k] = row
    <3>1. CASE isLatest
      BY <2>1, <2>5, <3>1
    <3>2. CASE ~isLatest
      BY <2>1, <2>3, <2>5, <3>2
    <3> QED
      BY <3>1, <3>2
  <2>7. Issued' = Issued /\ IssuedLeaves' = IssuedLeaves
    BY <1>0 DEF Issued, IssuedLeaves, LeafOf
  <2>8. RowsStay /\ RootsStay
    BY <1>0, <2>6, <2>7 DEF RowsStay, RootsStay, LeafOf
  <2>9. issue' \in [IssueCalls -> CallStates] /\ issue'[c] = r
         /\ \A d \in IssueCalls \ {c} : issue'[d] = issue[d]
    BY <2>1, <2>2 DEF RegistryInv, RegistryTypes
  <2>10. PICK leaves : leaves = tree
    OBVIOUS
  <2>11. RootKnown(leaves)'
    <3>1. CASE isLatest
      <4>1. last \in DOMAIN rootRows
        BY <1>1, <2>5, <3>1 DEF RegistryInv, LatestIsRoot
      <4>2. rootRows'[last].tree = leaves /\ last \in DOMAIN rootRows'
        BY <2>6, <2>10, <3>1, <4>1
      <4> QED
        BY <4>2 DEF RootKnown
    <3>2. CASE ~isLatest
      <4>1. Len(rootRows) + 1 \in DOMAIN rootRows' /\ rootRows'[Len(rootRows) + 1] = row
        BY <2>1, <2>3, <2>5, <3>2
      <4> QED
        BY <2>3, <2>10, <4>1 DEF RootKnown
    <3> QED
      BY <3>1, <3>2
  <2>12. RegistryTypes'
    BY <1>0, <2>6, <2>9 DEF RegistryInv, RegistryTypes
  <2>13. LeavesAreUnique'
    BY <1>0, <2>7 DEF RegistryInv, LeavesAreUnique
  <2>14. RootsAreIssued'
    BY <1>1, <2>3, <2>6, <2>7 DEF RegistryInv, RootsAreIssued
  <2>15. ASSUME NEW d \in IssueCalls, d # c
      PROVE  /\ HasLeaf(d)' => (Caller(d) \in Issued /\ Row(d).material = issue[d].material)'
             /\ issue'[d].pc = "answered" =>
                (/\ issue[d].listed # NoTree
                 /\ RootKnown(issue[d].listed) /\ OwnLeaf(d) \in issue[d].listed)'
             /\ (issue[d].listed = NoTree \/ issue[d].listed \subseteq IssuedLeaves)'
    BY <2>8, <2>9, <2>15, StayingAnswers
  <2>16. Caller(c)' = Caller(c) /\ Row(c)' = Row(c) /\ OwnLeaf(c)' = OwnLeaf(c)
    BY <1>0, <2>2, <2>9 DEF Caller, Row, OwnLeaf
  <2>17. CallsHaveRows'
    BY <1>2, <2>2, <2>7, <2>9, <2>15, <2>16 DEF CallsHaveRows
  <2>18. issue'[c].listed = leaves /\ leaves # NoTree /\ OwnLeaf(c)' \in leaves
    BY <1>0, <2>2, <2>4, <2>9, <2>10, <2>16
  <2>19. AnswersAreKnown'
    BY <2>11, <2>15, <2>18 DEF AnswersAreKnown
  <2>20. ListsAreIssued'
    BY <1>1, <2>7, <2>10, <2>15, <2>18 DEF ListsAreIssued
  <2>21. SignedRootsAreAnchored'
    BY <1>0, <2>3, <2>6 DEF RegistryInv, SignedRootsAreAnchored
  <2>22. LatestIsRoot'
    <3>1. Len(rootRows) <= Len(rootRows')
      <4>1. CASE isLatest
        BY <2>1, <2>5, <4>1
      <4>2. CASE ~isLatest
        <5>1. Len(rootRows') = Len(rootRows) + 1
          BY <2>1, <2>3, <2>5, <4>2
        <5> QED
          BY <2>5, <5>1
      <4> QED
        BY <4>1, <4>2
    <3>2. issue'[c].latest = -1 /\ -1 <= Len(rootRows')
      BY <1>5, <2>2, <2>5, <2>6, <2>9, <3>1
    <3>3. ASSUME NEW d \in IssueCalls \ {c} PROVE issue'[d].latest <= Len(rootRows')
      <4>1. issue'[d].latest = issue[d].latest /\ issue[d].latest \in Int
        BY <2>9 DEF RegistryInv, RegistryTypes, CallStates
      <4>2. issue[d].latest <= Len(rootRows)
        BY DEF RegistryInv, LatestIsRoot
      <4>3. Len(rootRows) \in Int /\ Len(rootRows') \in Int
        BY <2>5, <2>6
      <4> QED
        BY <3>1, <4>1, <4>2, <4>3
    <3> QED
      BY <3>2, <3>3 DEF LatestIsRoot
  <2> QED
    BY <2>12, <2>13, <2>14, <2>17, <2>19, <2>20, <2>21, <2>22 DEF RegistryInv
<1> QED
  BY <1>3, <1>4

\* Revocation leaves commitments and indices as they are.
LEMMA RevocationKeepsInv ==
    ASSUME RegistryInv, NEW i \in Identities, RevokeForDeletion(i) PROVE RegistryInv'
<1> DEFINE row == [credential[i] EXCEPT !.revoked = TRUE]
<1>1. /\ i \in Issued /\ credential' = [credential EXCEPT ![i] = row]
      /\ UNCHANGED <<rootRows, issue, anchoredTrees>>
  BY DEF RevokeForDeletion
<1>2. credential[i] \in Entries
  BY <1>1 DEF RegistryInv, RegistryTypes, Issued
<1>3. row \in Entries /\ row.leaf = credential[i].leaf /\ row.material = credential[i].material
  BY <1>2 DEF Entries
<1>4. row # NoCredential
  BY <1>3, NoCredentialAssumption DEF Entries
<1> HIDE DEF row
<1>5. /\ credential' \in [Identities -> {NoCredential} \cup Entries]
      /\ \A j \in Identities : credential'[j] = IF j = i THEN row ELSE credential[j]
  BY <1>1, <1>3 DEF RegistryInv, RegistryTypes
<1>6. /\ Issued' = Issued
      /\ \A j \in Issued : /\ credential'[j].leaf = credential[j].leaf
                           /\ credential'[j].material = credential[j].material
  BY <1>1, <1>3, <1>4, <1>5 DEF Issued
<1>7. RowsStay /\ RootsStay
  BY <1>1, <1>6 DEF RowsStay, RootsStay, LeafOf
<1>8. RegistryTypes'
  BY <1>1, <1>5 DEF RegistryInv, RegistryTypes
<1>9. LeavesAreUnique'
  BY <1>6 DEF RegistryInv, LeavesAreUnique
<1>10. RootsAreIssued'
  BY <1>1, <1>7, StayingRows DEF RegistryInv, RootsAreIssued
<1>11. ASSUME NEW d \in IssueCalls
      PROVE  /\ HasLeaf(d)' => (Caller(d) \in Issued /\ Row(d).material = issue[d].material)'
             /\ issue'[d].pc = "answered" =>
                (/\ issue[d].listed # NoTree
                 /\ RootKnown(issue[d].listed) /\ OwnLeaf(d) \in issue[d].listed)'
             /\ (issue[d].listed = NoTree \/ issue[d].listed \subseteq IssuedLeaves)'
  BY <1>1, <1>7, StayingAnswers
<1>12. CallsHaveRows' /\ AnswersAreKnown' /\ ListsAreIssued'
  BY <1>11 DEF CallsHaveRows, AnswersAreKnown, ListsAreIssued
<1>13. SignedRootsAreAnchored' /\ LatestIsRoot'
  BY <1>1 DEF RegistryInv, SignedRootsAreAnchored, LatestIsRoot
<1> QED
  BY <1>8, <1>9, <1>10, <1>12, <1>13 DEF RegistryInv

\* The publisher only signs roots whose account exists.
LEMMA PublisherKeepsInv ==
    ASSUME RegistryInv, NEW x \in PublishCalls,
           \/ ListUnpublishedRoots(x) \/ AnchorRoot(x)
           \/ MarkRootPublished(x) \/ StopPublishing(x)
    PROVE  RegistryInv'
<1>1. UNCHANGED <<credential, issue>>
  BY DEF ListUnpublishedRoots, AnchorRoot, MarkRootPublished, StopPublishing
<1>2. anchoredTrees \subseteq anchoredTrees'
  BY DEF ListUnpublishedRoots, AnchorRoot, MarkRootPublished, StopPublishing
<1>3. rootRows \in Seq(RootRecords)
  BY DEF RegistryInv, RegistryTypes
<1>4. /\ rootRows' \in Seq(RootRecords) /\ Len(rootRows') = Len(rootRows)
      /\ \A k \in DOMAIN rootRows' :
           /\ k \in DOMAIN rootRows /\ rootRows'[k].tree = rootRows[k].tree
           /\ rootRows'[k].signed => rootRows[k].signed \/ rootRows[k].tree \in anchoredTrees
      /\ DOMAIN rootRows' = DOMAIN rootRows
  <2>1. CASE UNCHANGED rootRows
    BY <1>3, <2>1
  <2>2. CASE MarkRootPublished(x)
    <3>1. PICK n : n = Head(rootPublisher[x])
      OBVIOUS
    <3>2. rootRows' = [rootRows EXCEPT ![n].signed = TRUE]
          /\ rootRows[n].tree \in anchoredTrees
      BY <2>2, <3>1 DEF MarkRootPublished
    <3>3. \A k \in DOMAIN rootRows : rootRows[k] \in RootRecords
      BY <1>3
    <3>4. DOMAIN rootRows' = DOMAIN rootRows
      BY <3>2
    <3>5. \A k \in DOMAIN rootRows : rootRows'[k] =
            IF k = n THEN [rootRows[k] EXCEPT !.signed = TRUE] ELSE rootRows[k]
      BY <3>2
    <3>6. \A k \in DOMAIN rootRows :
            /\ rootRows'[k] \in RootRecords /\ rootRows'[k].tree = rootRows[k].tree
            /\ rootRows'[k].signed => rootRows[k].signed \/ k = n
      BY <3>3, <3>5 DEF RootRecords
    <3>7. rootRows' \in Seq(RootRecords) /\ Len(rootRows') = Len(rootRows)
      <4>1. Len(rootRows) \in Nat /\ DOMAIN rootRows = 1..Len(rootRows)
        BY <1>3
      <4>2. rootRows' \in [1..Len(rootRows) -> RootRecords]
        BY <3>2, <3>4, <3>6, <4>1
      <4>3. rootRows' \in Seq(RootRecords)
        BY <4>1, <4>2, SeqDef
      <4> QED
        BY <3>4, <4>1, <4>3, LenProperties
    <3> QED
      BY <3>2, <3>4, <3>6, <3>7
  <2> QED
    BY <2>1, <2>2 DEF ListUnpublishedRoots, AnchorRoot, StopPublishing
<1>5. Issued' = Issued /\ IssuedLeaves' = IssuedLeaves
  BY <1>1 DEF Issued, IssuedLeaves, LeafOf
<1>6. RowsStay /\ RootsStay
  BY <1>1, <1>4, <1>5 DEF RowsStay, RootsStay, LeafOf
<1>7. RegistryTypes' /\ LeavesAreUnique' /\ LatestIsRoot'
  BY <1>1, <1>4, <1>5 DEF RegistryInv, RegistryTypes, LeavesAreUnique, LatestIsRoot
<1>8. RootsAreIssued'
  BY <1>4, <1>5 DEF RegistryInv, RootsAreIssued
<1>9. SignedRootsAreAnchored'
  BY <1>2, <1>4 DEF RegistryInv, SignedRootsAreAnchored
<1>10. ASSUME NEW d \in IssueCalls
      PROVE  /\ HasLeaf(d)' => (Caller(d) \in Issued /\ Row(d).material = issue[d].material)'
             /\ issue'[d].pc = "answered" =>
                (/\ issue[d].listed # NoTree
                 /\ RootKnown(issue[d].listed) /\ OwnLeaf(d) \in issue[d].listed)'
             /\ (issue[d].listed = NoTree \/ issue[d].listed \subseteq IssuedLeaves)'
  BY <1>1, <1>6, StayingAnswers
<1>11. CallsHaveRows' /\ AnswersAreKnown' /\ ListsAreIssued'
  BY <1>10 DEF CallsHaveRows, AnswersAreKnown, ListsAreIssued
<1> QED
  BY <1>7, <1>8, <1>9, <1>11 DEF RegistryInv

LEMMA RegistryInvNext == RegistryInv /\ [RegistryNext]_registryVars => RegistryInv'
<1> SUFFICES ASSUME RegistryInv, [RegistryNext]_registryVars PROVE RegistryInv'
  OBVIOUS
<1>1. CASE IssueNext
  BY <1>1, ReadingSteps, InsertKeepsInv, SettleKeepsInv, RevocationKeepsInv DEF IssueNext
<1>2. CASE PublishNext
  BY <1>2, PublisherKeepsInv DEF PublishNext
<1>3. CASE UNCHANGED registryVars
  <2>1. Issued' = Issued /\ IssuedLeaves' = IssuedLeaves
    BY <1>3 DEF registryVars, Issued, IssuedLeaves, LeafOf
  <2> QED
    BY <1>3, <2>1 DEF registryVars, RegistryInv, RegistryTypes, LeavesAreUnique, ListsAreIssued,
         RootsAreIssued, LatestIsRoot, CallsHaveRows, AnswersAreKnown, SignedRootsAreAnchored,
         HasLeaf, Caller, Row, RootKnown, OwnLeaf
<1> QED
  BY <1>1, <1>2, <1>3 DEF RegistryNext

\* The inductive invariant holds of every reachable state.
LEMMA RegistryInvariant == RegistrySpec => []RegistryInv
BY RegistryInvInit, RegistryInvNext, PTL DEF RegistrySpec

-----------------------------------------------------------------------------
\* Every accepted root commits to credentials that were issued, each at an
\* index of its own for ever.
THEOREM RootsCommit == RegistrySpec => []RootsCommitToIssuedCredentials
<1>1. ASSUME RegistryInv PROVE RootsCommitToIssuedCredentials
  <2>1. ASSUME NEW k \in DOMAIN rootRows, NEW l \in rootRows[k].tree
        PROVE  /\ l.who \in Issued /\ l = LeafOf(l.who)
               /\ l.leaf = credential[l.who].leaf
    BY <1>1, <2>1 DEF RegistryInv, RootsAreIssued, IssuedLeaves, LeafOf
  <2>2. \A i, j \in Issued : credential[i].leaf = credential[j].leaf => i = j
    BY <1>1 DEF RegistryInv, LeavesAreUnique
  <2> QED
    BY <2>1, <2>2 DEF RootsCommitToIssuedCredentials
<1> QED
  BY <1>1, RegistryInvariant, PTL

\* A call that succeeds has its own commitment under the root it answers.
THEOREM AnswersProvable == RegistrySpec => []AnswersAreProvable
<1>1. RegistryInv => AnswersAreProvable
  BY DEF RegistryInv, CallsHaveRows, AnswersAreKnown, AnswersAreProvable, HasLeaf
<1> QED
  BY <1>1, RegistryInvariant, PTL

\* A signed root has its account, wherever the publisher stopped.
THEOREM SignedRootsAnchored == RegistrySpec => []SignedRootsAreAnchored
<1>1. RegistryInv => SignedRootsAreAnchored
  BY DEF RegistryInv
<1> QED
  BY <1>1, RegistryInvariant, PTL

-----------------------------------------------------------------------------
(* CredentialRegistry: the next index *)

\* A page that is not full lists every active entry.
LEMMA ShortPageIsComplete ==
  ASSUME RegistryTypes, NEW active, active = {LeafOf(i) : i \in {j \in Issued : ~credential[j].revoked}},
         Cardinality({i \in Issued : ~credential[i].revoked}) <= PageLimit
  PROVE  ListActive = active /\ IsFiniteSet(active)
<1> DEFINE who == {i \in Issued : ~credential[i].revoked}
<1>1. who \in SUBSET Identities
  BY DEF Issued
<1>2. IsFiniteSet(who) /\ Cardinality(who) \in Nat
  BY <1>1, IdentitiesAssumption, FS_Subset, FS_CardinalityType
<1>3. IsFiniteSet(active) /\ Cardinality(active) <= Cardinality(who)
  <2> DEFINE f == [i \in who |-> LeafOf(i)]
  <2>1. f \in Surjection(who, active)
    BY DEF Surjection
  <2> HIDE DEF f, who
  <2> QED BY <1>2, <2>1, FS_Surjection
<1>4. ASSUME NEW l \in active PROVE Cardinality({m \in active : m.leaf < l.leaf}) < PageLimit
  <2> DEFINE below == {m \in active : m.leaf < l.leaf}
  <2>1. l.leaf \in Nat
    BY <1>4 DEF RegistryTypes, Issued, Entries, LeafOf
  <2>2. below \in SUBSET active /\ l \notin below
    BY <2>1
  <2> HIDE DEF below, who
  <2>3. Cardinality(below) < Cardinality(active) /\ Cardinality(below) \in Nat
        /\ Cardinality(active) \in Nat
    BY <1>3, <1>4, <2>2, FS_Subset, FS_CardinalityType
  <2>4. Cardinality(who) <= PageLimit /\ PageLimit \in Nat
    BY PageLimitAssumption DEF who
  <2>5. Cardinality(below) < PageLimit
    BY <1>2, <1>3, <2>3, <2>4
  <2> QED BY <2>5 DEF below
<1>5. ListActive = {l \in active : Cardinality({m \in active : m.leaf < l.leaf}) < PageLimit}
  BY DEF ListActive
<1> QED BY <1>3, <1>4, <1>5

LEMMA NextLeafFree ==
  ASSUME RegistryTypes
  PROVE  NextLeafIsFree
<1> DEFINE active == {LeafOf(i) : i \in {j \in Issued : ~credential[j].revoked}}
<1>1. Cardinality({i \in Issued : ~credential[i].revoked}) \in Nat /\ IsFiniteSet(Issued)
  <2>1. Issued \in SUBSET Identities /\ {i \in Issued : ~credential[i].revoked} \in SUBSET Identities
    BY DEF Issued
  <2> QED BY <2>1, IdentitiesAssumption, FS_Subset, FS_CardinalityType
<1> SUFFICES ASSUME Cardinality({i \in Issued : ~credential[i].revoked}) <= PageLimit,
                    NextLeafIndex(ListActive) \in UsedLeafIndices
             PROVE  \E i \in Issued :
                      credential[i].revoked /\ \A j \in Issued : credential[j].leaf <= credential[i].leaf
  BY <1>1, PageLimitAssumption DEF NextLeafIsFree
<1>2. \A i \in Issued : credential[i] \in Entries
  BY DEF RegistryTypes, Issued
<1>3. UsedLeafIndices \in SUBSET Nat /\ IsFiniteSet(UsedLeafIndices) /\ UsedLeafIndices # {}
  <2> DEFINE f == [i \in Issued |-> credential[i].leaf]
  <2>1. f \in Surjection(Issued, UsedLeafIndices)
    BY DEF Surjection, UsedLeafIndices
  <2>2. IsFiniteSet(UsedLeafIndices)
    <3> HIDE DEF f
    <3> QED BY <1>1, <2>1, FS_Surjection
  <2> QED BY <1>2, <2>2 DEF Entries, UsedLeafIndices
<1>4. PICK top \in Issued : \A j \in Issued : credential[j].leaf <= credential[top].leaf
  <2>1. PICK m \in UsedLeafIndices : \A n \in UsedLeafIndices : n <= m
    BY <1>3, GreatestExists
  <2> QED BY <2>1 DEF UsedLeafIndices
<1>5. ListActive = active /\ IsFiniteSet(active)
  BY ShortPageIsComplete
<1> SUFFICES ASSUME ~credential[top].revoked PROVE FALSE
  BY <1>2, <1>4 DEF Entries
<1>6. LeafOf(top) \in active /\ LeafOf(top).leaf = credential[top].leaf
  BY <1>4 DEF LeafOf
<1> DEFINE indices == {l.leaf : l \in active}
<1>7. indices \in SUBSET Nat /\ IsFiniteSet(indices) /\ credential[top].leaf \in indices
  <2> DEFINE f == [l \in active |-> l.leaf]
  <2>1. f \in Surjection(active, indices)
    <3> HIDE DEF active
    <3> QED BY DEF Surjection
  <2>2. IsFiniteSet(indices)
    <3> HIDE DEF f, active, indices
    <3> QED BY <1>5, <2>1, FS_Surjection
  <2>3. \A l \in active : l.leaf \in Nat
    BY <1>2 DEF LeafOf, Entries
  <2> HIDE DEF active
  <2> QED BY <1>6, <2>2, <2>3
<1>8. Max(indices) \in indices /\ \A n \in indices : Max(indices) >= n
  <2> HIDE DEF indices
  <2>1. PICK m \in indices : \A n \in indices : n <= m
    BY <1>7, GreatestExists
  <2>2. m \in Nat /\ \A n \in indices : n \in Nat
    BY <1>7, <2>1
  <2>3. \A n \in indices : m >= n
    BY <2>1, <2>2
  <2> QED BY <2>1, <2>3 DEF Max
<1>9. NextLeafIndex(ListActive) = 1 + Max(indices)
  BY <1>5, <1>6 DEF NextLeafIndex
<1>10. PICK used \in Issued : credential[used].leaf = 1 + Max(indices)
  BY <1>9 DEF UsedLeafIndices
<1> HIDE DEF indices
<1>11. Max(indices) \in Nat /\ credential[top].leaf \in Nat
  BY <1>7, <1>8
<1>12. 1 + Max(indices) <= credential[top].leaf /\ Max(indices) >= credential[top].leaf
  BY <1>4, <1>7, <1>8, <1>10
<1> QED BY <1>11, <1>12

-----------------------------------------------------------------------------
(* CredentialRegistry: where roots and calls stand *)

RowsFollow == \A k \in DOMAIN rootRows : rootRows[k].previous \in 0..(k - 1)

LatestExists == \A c \in IssueCalls : issue[c].latest \in -1..Len(rootRows)

RunsListRows == rootPublisher \in [PublishCalls -> Seq(DOMAIN rootRows)]

RowsFit == RowsFollow /\ LatestExists /\ RunsListRows

\* A step of a call that inserts no root
LEMMA ReadingFits ==
  ASSUME RegistryInv, RowsFit, UNCHANGED <<rootRows, rootPublisher>>,
         \A d \in IssueCalls : issue'[d].latest \in {issue[d].latest, -1, Len(rootRows)}
  PROVE  RowsFit'
<1>1. Len(rootRows) \in Nat
  BY DEF RegistryInv, RegistryTypes
<1>2. LatestExists'
  BY <1>1 DEF RowsFit, LatestExists
<1> QED BY <1>2 DEF RowsFit, RowsFollow, RunsListRows

LEMMA CallStepsFit ==
  ASSUME RegistryInv, RowsFit, NEW c \in IssueCalls,
         \/ FindExisting(c) \/ ListEntries(c) \/ InsertEntry(c) \/ FindAfterConflict(c)
         \/ ReadActive(c) \/ ReadLatestRoot(c)
  PROVE  RowsFit'
<1>1. \A d \in IssueCalls : issue[d] \in CallStates /\ IssueCalls = DOMAIN issue
  BY DEF RegistryInv, RegistryTypes
<1>2. UNCHANGED <<rootRows, rootPublisher>>
  BY DEF FindExisting, ListEntries, InsertEntry, FindAfterConflict, ReadActive, ReadLatestRoot
<1>3. ASSUME NEW d \in IssueCalls
      PROVE  issue'[d].latest \in {issue[d].latest, -1, Len(rootRows)}
  <2>1. CASE d # c
    <3>1. issue'[d] = issue[d]
      BY <1>1, <2>1 DEF FindExisting, ListEntries, InsertEntry, FindAfterConflict, ReadActive,
                        ReadLatestRoot, GoOnWithExisting, GoOnAfterConflict
    <3> QED BY <3>1
  <2>2. CASE d = c
    <3>1. CASE FindExisting(c)
      BY <1>1, <2>2, <3>1 DEF FindExisting, GoOnWithExisting, CallStates
    <3>2. CASE FindAfterConflict(c)
      BY <1>1, <2>2, <3>2 DEF FindAfterConflict, GoOnAfterConflict, GoOnWithExisting, CallStates
    <3>3. CASE ListEntries(c)
      BY <1>1, <2>2, <3>3 DEF ListEntries, CallStates
    <3>4. CASE InsertEntry(c)
      BY <1>1, <2>2, <3>4 DEF InsertEntry, CallStates
    <3>5. CASE ReadActive(c)
      BY <1>1, <2>2, <3>5 DEF ReadActive, CallStates
    <3>6. CASE ReadLatestRoot(c)
      BY <1>1, <2>2, <3>6 DEF ReadLatestRoot, CallStates
    <3> QED BY <3>1, <3>2, <3>3, <3>4, <3>5, <3>6
  <2> QED BY <2>1, <2>2
<1> QED BY <1>2, <1>3, ReadingFits

LEMMA SettlingFits ==
  ASSUME RegistryInv, RowsFit, NEW c \in IssueCalls, SettleRoot(c)
  PROVE  RowsFit'
<1> DEFINE last == issue[c].latest
           n == Len(rootRows)
           row == [tree |-> issue[c].listed, previous |-> last, signed |-> FALSE]
<1>1. (\A d \in IssueCalls : issue[d] \in CallStates) /\ IssueCalls = DOMAIN issue
      /\ rootRows \in Seq(RootRecords) /\ n \in Nat /\ DOMAIN rootRows = 1..n
  BY LenProperties DEF RegistryInv, RegistryTypes
<1>2. rootPublisher' = rootPublisher /\ last \in 0..n
  BY <1>1 DEF SettleRoot, RowsFit, LatestExists
<1>3. \A d \in IssueCalls : issue'[d].latest \in {issue[d].latest, -1}
  <2>1. \A d \in IssueCalls \ {c} : issue'[d] = issue[d]
    BY <1>1 DEF SettleRoot
  <2>2. issue'[c].latest = -1
    <3> DEFINE r == [issue[c] EXCEPT !.pc = "failed", !.listed = NoTree, !.latest = -1]
               q == [issue[c] EXCEPT !.pc = "answered", !.latest = -1]
    <3>1. issue' = [issue EXCEPT ![c] = r] \/ issue' = [issue EXCEPT ![c] = q]
      BY DEF SettleRoot
    <3>2. r.latest = -1 /\ q.latest = -1
      <4>1. issue[c] \in CallStates /\ -1 \in Int
        BY <1>1
      <4> QED BY <4>1 DEF CallStates
    <3> HIDE DEF r, q
    <3> QED BY <1>1, <3>1, <3>2
  <2> QED BY <2>1, <2>2
<1>4. rootRows' = rootRows \/ rootRows' = Append(rootRows, row)
  BY DEF SettleRoot
<1>5. CASE rootRows' = rootRows
  BY <1>2, <1>3, <1>5, ReadingFits
<1>6. CASE rootRows' = Append(rootRows, row)
  <2>1. row \in RootRecords /\ row.previous = last
    <3>1. issue[c].listed \in SUBSET Leaves /\ last \in Int
      <4>1. issue[c].listed # NoTree /\ issue[c] \in CallStates
        BY <1>1 DEF SettleRoot
      <4> QED BY <4>1 DEF CallStates
    <3> QED BY <3>1 DEF RootRecords
  <2> HIDE DEF row
  <2>2. /\ Len(rootRows') = n + 1 /\ DOMAIN rootRows' = 1..n + 1
        /\ \A k \in 1..n : rootRows'[k] = rootRows[k]
        /\ rootRows'[n + 1] = row
    BY <1>1, <1>6, <2>1, AppendProperties, LenProperties
  <2> HIDE DEF n
  <2>3. RowsFollow'
    BY <1>1, <1>2, <2>1, <2>2 DEF RowsFit, RowsFollow
  <2>4. LatestExists'
    BY <1>1, <1>3, <2>2 DEF RowsFit, LatestExists, n
  <2>5. RunsListRows'
    <3>1. DOMAIN rootRows \subseteq DOMAIN rootRows'
      BY <1>1, <2>2
    <3> QED BY <1>2, <3>1, SeqDef DEF RowsFit, RunsListRows
  <2> QED BY <2>3, <2>4, <2>5 DEF RowsFit
<1> QED BY <1>4, <1>5, <1>6

LEMMA PublisherFits ==
  ASSUME RegistryInv, RowsFit, NEW x \in PublishCalls,
         \/ ListUnpublishedRoots(x) \/ AnchorRoot(x)
         \/ MarkRootPublished(x) \/ StopPublishing(x)
  PROVE  RowsFit'
<1>1. rootRows \in Seq(RootRecords) /\ DOMAIN rootRows = 1..Len(rootRows) /\ Len(rootRows) \in Nat
  BY LenProperties DEF RegistryInv, RegistryTypes
<1>2. issue' = issue
  BY DEF ListUnpublishedRoots, AnchorRoot, MarkRootPublished, StopPublishing
<1>3. /\ DOMAIN rootRows' = DOMAIN rootRows /\ Len(rootRows') = Len(rootRows)
      /\ \A k \in DOMAIN rootRows : rootRows'[k].previous = rootRows[k].previous
  <2>1. CASE UNCHANGED rootRows
    BY <2>1
  <2>2. CASE MarkRootPublished(x)
    <3>1. PICK n : n = Head(rootPublisher[x])
      OBVIOUS
    <3>2. rootRows' = [rootRows EXCEPT ![n].signed = TRUE]
      BY <2>2, <3>1 DEF MarkRootPublished
    <3>3. \A k \in DOMAIN rootRows : rootRows[k] \in RootRecords
      BY <1>1
    <3>4. \A k \in DOMAIN rootRows : rootRows'[k].previous = rootRows[k].previous
      BY <3>2, <3>3 DEF RootRecords
    <3>5. DOMAIN rootRows' = DOMAIN rootRows
      BY <3>2
    <3>6. Len(rootRows') = Len(rootRows)
      <4>1. rootRows' \in Seq(RootRecords)
        BY RegistryInvNext DEF RegistryInv, RegistryTypes, RegistryNext, PublishNext
      <4> QED BY <1>1, <3>5, <4>1, LenProperties
    <3> QED BY <3>4, <3>5, <3>6
  <2> QED BY <2>1, <2>2 DEF ListUnpublishedRoots, AnchorRoot, StopPublishing
<1>4. RowsFollow' /\ LatestExists'
  BY <1>2, <1>3 DEF RowsFit, RowsFollow, LatestExists
<1>5. rootPublisher \in [PublishCalls -> Seq(DOMAIN rootRows)]
  BY DEF RowsFit, RunsListRows
<1>6. rootPublisher' \in [PublishCalls -> Seq(DOMAIN rootRows)]
  <2>1. CASE ListUnpublishedRoots(x)
    <3>1. PICK list \in FirstUnsigned : rootPublisher' = [rootPublisher EXCEPT ![x] = list]
      BY <2>1 DEF ListUnpublishedRoots
    <3>2. Cardinality(Unsigned) \in Nat
      <4>1. Unsigned \in SUBSET (1..Len(rootRows))
        BY <1>1 DEF Unsigned
      <4>2. IsFiniteSet(1..Len(rootRows))
        BY <1>1, FS_Interval
      <4> QED BY <4>1, <4>2, FS_Subset, FS_CardinalityType
    <3>3. Min({Cardinality(Unsigned), RootLimit}) \in Nat
      <4>1. \E m \in {Cardinality(Unsigned), RootLimit} :
              \A n \in {Cardinality(Unsigned), RootLimit} : m =< n
        BY <3>2, RootLimitAssumption
      <4>2. Min({Cardinality(Unsigned), RootLimit}) \in {Cardinality(Unsigned), RootLimit}
        BY <4>1 DEF Min
      <4> QED BY <3>2, <4>2, RootLimitAssumption
    <3>4. list \in Seq(DOMAIN rootRows)
      <4>1. list \in Seq(Unsigned)
        BY <3>3, SeqDef DEF FirstUnsigned
      <4> QED BY <4>1, SeqDef DEF Unsigned
    <3> QED BY <1>5, <3>1, <3>4
  <2>2. CASE MarkRootPublished(x)
    <3>1. rootPublisher[x] # <<>>
          /\ rootPublisher' = [rootPublisher EXCEPT ![x] = Tail(rootPublisher[x])]
      BY <2>2 DEF MarkRootPublished
    <3>2. Tail(rootPublisher[x]) \in Seq(DOMAIN rootRows)
      BY <1>5, <3>1, HeadTailProperties
    <3> QED BY <1>5, <3>1, <3>2
  <2>3. CASE StopPublishing(x)
    <3>1. rootPublisher' = [rootPublisher EXCEPT ![x] = <<>>]
      BY <2>3 DEF StopPublishing
    <3>2. <<>> \in Seq(DOMAIN rootRows)
      BY EmptySeq
    <3> QED BY <1>5, <3>1, <3>2
  <2>4. CASE AnchorRoot(x)
    BY <1>5, <2>4 DEF AnchorRoot
  <2> QED BY <2>1, <2>2, <2>3, <2>4
<1>7. RunsListRows'
  BY <1>3, <1>6 DEF RunsListRows
<1> QED BY <1>4, <1>7 DEF RowsFit

LEMMA RowsFitInit == RegistryInit => RowsFit
<1> SUFFICES ASSUME RegistryInit PROVE RowsFit
  OBVIOUS
<1>1. rootRows = <<>> /\ rootPublisher = [x \in PublishCalls |-> <<>>]
      /\ \A c \in IssueCalls : issue[c].latest = -1
  BY DEF RegistryInit
<1> QED BY <1>1, EmptySeq DEF RowsFit, RowsFollow, LatestExists, RunsListRows

LEMMA RowsFitNext ==
  ASSUME RegistryInv, RowsFit, [RegistryNext]_registryVars
  PROVE  RowsFit'
<1>1. ASSUME NEW i \in Identities, RevokeForDeletion(i) PROVE RowsFit'
  BY <1>1 DEF RevokeForDeletion, RowsFit, RowsFollow, LatestExists, RunsListRows
<1>2. CASE IssueNext
  BY <1>1, <1>2, CallStepsFit, SettlingFits DEF IssueNext
<1>3. CASE PublishNext
  BY <1>3, PublisherFits DEF PublishNext
<1>4. CASE UNCHANGED registryVars
  BY <1>4 DEF registryVars, RowsFit, RowsFollow, LatestExists, RunsListRows
<1> QED BY <1>2, <1>3, <1>4 DEF RegistryNext

THEOREM RegistryIsTyped == RegistrySpec => []RegistryTypeOK
<1>1. RegistryInv /\ RowsFit => RegistryTypeOK
  <2> SUFFICES ASSUME RegistryInv, RowsFit PROVE RegistryTypeOK
    OBVIOUS
  <2>1. \A k \in DOMAIN rootRows : rootRows[k] \in RootRecords
    BY LenProperties DEF RegistryInv, RegistryTypes
  <2>2. \A c \in IssueCalls : issue[c] \in CallStates
    BY DEF RegistryInv, RegistryTypes
  <2>3. \A k \in DOMAIN rootRows :
         /\ rootRows[k].tree \subseteq Leaves
         /\ rootRows[k].previous \in 0..(k - 1)
         /\ rootRows[k].signed \in BOOLEAN
    BY <2>1 DEF RowsFit, RowsFollow, RootRecords
  <2>4. \A c \in IssueCalls :
         /\ issue[c].pc \in IssueSteps
         /\ issue[c].who \in Identities /\ issue[c].material \in Materials
         /\ issue[c].status \in {"none", "issued", "existing"}
         /\ issue[c].listed = NoTree \/ issue[c].listed \subseteq Leaves
         /\ issue[c].latest \in -1..Len(rootRows)
    BY <2>2 DEF RowsFit, LatestExists, CallStates
  <2> QED BY <2>3, <2>4 DEF RegistryTypeOK, RegistryInv, RegistryTypes, Entries, RowsFit, RunsListRows
<1>2. RegistryInit => RegistryInv /\ RowsFit
  BY RegistryInvInit, RowsFitInit
<1>3. (RegistryInv /\ RowsFit) /\ [RegistryNext]_registryVars => (RegistryInv /\ RowsFit)'
  BY RegistryInvNext, RowsFitNext
<1> QED BY <1>1, <1>2, <1>3, PTL DEF RegistrySpec

THEOREM NextLeafAlwaysFree == RegistrySpec => []NextLeafIsFree
<1>1. RegistryInv => NextLeafIsFree
  BY NextLeafFree DEF RegistryInv
<1> QED BY <1>1, RegistryInvariant, PTL

-----------------------------------------------------------------------------
(* What is promised of sign-ins and of credentials. *)

\* Of any number of devices, codes, tokens and requests.
THEOREM SignInsAlwaysHold == AuthSpec /\ OidcSpec => []SignInsHold
<1>1. StaleRequestsFail /\ LineagesEndTogether /\ StaleTokensFail /\ TokensAreSpentOnce
      => SignInsHold
  BY DEF SignInsHold
<1> QED
  BY <1>1, StaleRequestsAlwaysFail, LineagesAlwaysEndTogether, StaleTokensAlwaysFail,
     OneCallSpendsAToken, PTL

\* Of any number of identities, calls and runs of the publisher.
THEOREM CredentialAnswersAlwaysHold == RegistrySpec => []CredentialAnswersHold
<1>1. /\ RootsCommitToIssuedCredentials /\ AnswersAreProvable
      /\ SignedRootsAreAnchored /\ NextLeafIsFree
      => CredentialAnswersHold
  BY DEF CredentialAnswersHold
<1> QED BY <1>1, RootsCommit, AnswersProvable, SignedRootsAnchored, NextLeafAlwaysFree, PTL
=============================================================================
