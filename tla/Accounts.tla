------------------------------ MODULE Accounts ------------------------------
(***************************************************************************)
(* Accounts and the persons they belong to: who registers as which user    *)
(* (services/authAccountBindingService, verifiedIdentityBindService), and  *)
(* what users keep about themselves (services/viewerProfileService: the    *)
(* nickname, the home location, the wallet credential), with the deletion  *)
(* of an account as far as it concerns these rows.                         *)
(*                                                                         *)
(* A person is a canonical identity key.  A call is split where it awaits  *)
(* the database; one that is cut off takes no further step.  A session     *)
(* lets a call begin only while its account is active.  Onboarding status  *)
(* moves with the verification level and is left out, as are lands, flags  *)
(* and the checks of the input.                                            *)
(***************************************************************************)
EXTENDS Integers, FiniteSets, Sequences

CONSTANTS Persons,        \* canonical identity keys
          FirstPerson,    \* the one with an account
          Nicknames,
          NoName,
          AccountCalls,   \* bound: the calls of a behaviour
          AccountMixes    \* what they are: operation, user and argument

ASSUME FirstPersonAssumption == FirstPerson \in Persons
ASSUME NoNameAssumption == NoName \notin Nicknames
AccountAsks ==
    ({"register"} \X {0} \X Persons) \cup ({"bind"} \X {1, 2} \X Persons) \cup
    ({"nickname"} \X {1, 2} \X Nicknames) \cup
    ({"profile", "home", "wallet", "delete"} \X {1, 2} \X {NoName})
ASSUME AccountMixesAssumption == AccountMixes \subseteq [AccountCalls -> AccountAsks]

VARIABLES
    users,        \* users, in the order of creation
    identityOf,   \* verified_identities: the user a person has, 0 for none
    profiles,     \* identity_profiles: "none", "plain" or "verified"
    wallets,      \* wallet_credentials: "none", "registered" or "issued"
    chosen,       \* history: the nickname a user has chosen last
    raced,        \* history: users with a profile request under way when
                  \* they chose, or with any when they were deleted
    accountCall   \* accountCall[c]: the state of call c

accountRows == <<users, identityOf, profiles, wallets, chosen, raced>>
accountVars == <<accountRows, accountCall>>

NewUser == [active |-> TRUE, verified |-> TRUE, nickname |-> NoName, wallet |-> FALSE]

Asking(ask) == [op |-> ask[1], user |-> ask[2], arg |-> ask[3], pc |-> "idle",
                seen |-> NoName, again |-> FALSE, due |-> FALSE]

\* A registered user and one that has no identity yet.
AccountInit ==
    /\ users = <<NewUser, [NewUser EXCEPT !.verified = FALSE]>>
    /\ identityOf = [p \in Persons |-> IF p = FirstPerson THEN 1 ELSE 0]
    /\ profiles = <<"plain", "plain">>
    /\ wallets = <<"none", "none">>
    /\ chosen = <<NoName, NoName>>
    /\ raced = {}
    /\ \E mix \in AccountMixes : accountCall = [c \in AccountCalls |-> Asking(mix[c])]

-----------------------------------------------------------------------------
Users == DOMAIN users
At(c, op, pc) == accountCall[c].op = op /\ accountCall[c].pc = pc
UserOf(c) == accountCall[c].user
Person(c) == accountCall[c].arg
IdentitiesOf(u) == {p \in Persons : identityOf[p] = u}
IsFree(name, u) == \A other \in Users \ {u} : users[other].nickname # name
UnderWay(c) == accountCall[c].pc \notin {"idle", "ok", "failed"}

Proceed(c, pc) == accountCall' = [accountCall EXCEPT ![c].pc = pc]
Answer(c, u)   == accountCall' = [accountCall EXCEPT ![c].pc = "ok", ![c].user = u]

BeginCall(c, op, pc) ==
    /\ At(c, op, "idle") /\ (op # "register" => users[UserOf(c)].active)
    /\ Proceed(c, pc) /\ UNCHANGED accountRows

CompleteRegistration(c) == BeginCall(c, "register", "byKey")
BindVerifiedIdentity(c) == BeginCall(c, "bind", "viewer")
GetProfile(c)           == BeginCall(c, "profile", "user")
UpdateHomeLocation(c)   == BeginCall(c, "home", "user")
UpdatePublicNickname(c) == BeginCall(c, "nickname", "user")
IssueWalletCredential(c) == BeginCall(c, "wallet", "user")

-----------------------------------------------------------------------------
(* resolveOrCreateUserByCanonicalIdentityKey *)

FindRegistered(c) ==
    /\ At(c, "register", "byKey")
    /\ IF identityOf[Person(c)] # 0
         THEN accountCall' = [accountCall EXCEPT ![c].pc = "authoritative",
                                                 ![c].user = identityOf[Person(c)]]
         ELSE Proceed(c, "creating")
    /\ UNCHANGED accountRows

LoadRegistered(c) ==
    /\ At(c, "register", "authoritative")
    /\ Proceed(c, IF users[UserOf(c)].active THEN "ok" ELSE "failed")
    /\ UNCHANGED accountRows

\* createVerifiedUser: the user, the profile, then the identity.
InsertUser(c) ==
    /\ At(c, "register", "creating")
    /\ users' = Append(users, NewUser)
    /\ profiles' = Append(profiles, "none") /\ wallets' = Append(wallets, "none")
    /\ chosen' = Append(chosen, NoName)
    /\ accountCall' = [accountCall EXCEPT ![c].pc = "profiling", ![c].user = Len(users) + 1]
    /\ UNCHANGED <<identityOf, raced>>

InsertProfile(c) ==
    /\ At(c, "register", "profiling")
    /\ profiles' = [profiles EXCEPT ![UserOf(c)] = "plain"]
    /\ Proceed(c, "identifying")
    /\ UNCHANGED <<users, identityOf, wallets, chosen, raced>>

\* Mutant: an identity moves to the user that was made last.
Unowned(p, u) == IdentitiesOf(u) = {}

\* The unique indexes on the key and on the user
MayBelongTo(p, u) == identityOf[p] = 0 /\ IdentitiesOf(u) = {}

\* Whoever comes second fails, and leaves a user behind.
InsertIdentity(c) ==
    /\ At(c, "register", "identifying")
    /\ IF MayBelongTo(Person(c), UserOf(c))
         THEN /\ identityOf' = [identityOf EXCEPT ![Person(c)] = UserOf(c)]
              /\ Proceed(c, "ok")
         ELSE Proceed(c, "failed") /\ UNCHANGED identityOf
    /\ UNCHANGED <<users, profiles, wallets, chosen, raced>>

-----------------------------------------------------------------------------
(* bindVerifiedIdentityForViewer *)

\* A row that is read tells whether an upgrade is due.
ReadLevel(c, at, next) ==
    /\ At(c, "bind", at)
    /\ accountCall' = [accountCall EXCEPT ![c].pc = next, ![c].due = ~users[UserOf(c)].verified]
    /\ UNCHANGED accountRows

TurnTo(c, owner) ==
    accountCall' = [accountCall EXCEPT ![c].pc = "owner", ![c].user = owner]

LoadBindingViewer(c) == ReadLevel(c, "viewer", "byKey")
LoadOwner(c)         == ReadLevel(c, "owner", "upgrading")

FindBoundByKey(c) ==
    /\ At(c, "bind", "byKey")
    /\ LET owner == identityOf[Person(c)]
       IN  CASE owner = 0         -> Proceed(c, "byUser")
             [] owner = UserOf(c) -> Proceed(c, "upgrading")
             [] OTHER             -> TurnTo(c, owner)
    /\ UNCHANGED accountRows

FindBoundByUser(c) ==
    /\ At(c, "bind", "byUser")
    /\ LET own == IdentitiesOf(UserOf(c))
       IN  Proceed(c, IF own = {} THEN "binding"
                      ELSE IF own = {Person(c)} THEN "upgrading" ELSE "failed")
    /\ UNCHANGED accountRows

InsertBinding(c) ==
    /\ At(c, "bind", "binding")
    /\ IF MayBelongTo(Person(c), UserOf(c))
         THEN /\ identityOf' = [identityOf EXCEPT ![Person(c)] = UserOf(c)]
              /\ Proceed(c, "upgrading")
         ELSE Proceed(c, "conflict") /\ UNCHANGED identityOf
    /\ UNCHANGED <<users, profiles, wallets, chosen, raced>>

\* Mutant: the other row of the viewer is taken for the one asked for.
ResolvesToAny(c) == UserOf(c)

\* The user a conflict is resolved to, 0 if to none
ResolvesTo(c) == identityOf[Person(c)]

\* tryResolveAfterUniqueViolation: another user is brought up to date, the
\* viewer is not.
ResolveConflict(c) ==
    /\ At(c, "bind", "conflict")
    /\ CASE ResolvesTo(c) = 0 -> Proceed(c, "failed")
         [] ResolvesTo(c) = UserOf(c) -> Answer(c, UserOf(c))
         [] OTHER -> TurnTo(c, ResolvesTo(c))
    /\ UNCHANGED accountRows

\* maybeUpgradeUserVerificationState by id, whether the account is disabled
UpgradeVerification(c) ==
    /\ At(c, "bind", "upgrading")
    /\ users' = [users EXCEPT ![UserOf(c)].verified = @ \/ accountCall[c].due]
    /\ Proceed(c, "ok")
    /\ UNCHANGED <<identityOf, profiles, wallets, chosen, raced>>

-----------------------------------------------------------------------------
(* The nickname and the profile *)

\* Mutant: the nickname there is is not looked at.
AlwaysGenerate(seen) == TRUE

\* ensurePublicNickname
NeedsNickname(seen) == seen = NoName

AfterProfile(c, seen) == IF NeedsNickname(seen) THEN "drawing" ELSE "ok"

LoadProfileUser(c) ==
    /\ accountCall[c].pc = "user"
    /\ LET seen == users[UserOf(c)].nickname
           next == CASE accountCall[c].op = "profile"  -> AfterProfile(c, seen)
                     [] accountCall[c].op = "home"     -> "profile"
                     [] accountCall[c].op = "nickname" -> "checking"
                     [] accountCall[c].op = "wallet"   -> "identity"
       IN  accountCall' = [accountCall EXCEPT ![c].pc = next, ![c].seen = seen]
    /\ UNCHANGED accountRows

LoadHomeProfile(c) ==
    /\ At(c, "home", "profile")
    /\ Proceed(c, IF profiles[UserOf(c)] = "none" THEN "failed" ELSE "locating")
    /\ UNCHANGED accountRows

\* The home location itself is the user's own business; the profile that is
\* answered is made from the row of the user read before.
StoreHomeLocation(c) ==
    /\ At(c, "home", "locating")
    /\ Proceed(c, IF profiles[UserOf(c)] = "none" THEN "failed"
                  ELSE AfterProfile(c, accountCall[c].seen))
    /\ UNCHANGED accountRows

\* resolveUniquePublicNickname: one that is free at the moment
DrawNickname(c) ==
    /\ accountCall[c].pc = "drawing"
    /\ \E name \in Nicknames :
         /\ IsFree(name, 0)
         /\ accountCall' = [accountCall EXCEPT ![c].pc = "naming", ![c].seen = name]
    /\ UNCHANGED accountRows

\* It is stored by id; when it is taken by now, a second one is tried.
StoreGenerated(c) ==
    /\ accountCall[c].pc = "naming"
    /\ IF IsFree(accountCall[c].seen, UserOf(c))
         THEN /\ users' = [users EXCEPT ![UserOf(c)].nickname = accountCall[c].seen]
              /\ Proceed(c, "ok")
         ELSE /\ IF accountCall[c].again THEN Proceed(c, "failed")
                 ELSE accountCall' = [accountCall EXCEPT ![c].pc = "drawing",
                                                         ![c].again = TRUE]
              /\ UNCHANGED users
    /\ UNCHANGED <<identityOf, profiles, wallets, chosen, raced>>

CheckNickname(c) ==
    /\ At(c, "nickname", "checking")
    /\ Proceed(c, IF IsFree(accountCall[c].arg, UserOf(c)) THEN "choosing" ELSE "failed")
    /\ UNCHANGED accountRows

WantsName(c, u) == UserOf(c) = u /\ accountCall[c].op \in {"profile", "home"} /\ UnderWay(c)

StoreChosen(c) ==
    /\ At(c, "nickname", "choosing")
    /\ LET u == UserOf(c)
       IN  IF IsFree(accountCall[c].arg, u)
             THEN /\ users' = [users EXCEPT ![u].nickname = accountCall[c].arg]
                  /\ chosen' = [chosen EXCEPT ![u] = accountCall[c].arg]
                  /\ raced' = IF \E d \in AccountCalls : WantsName(d, u)
                                THEN raced \cup {u} ELSE raced
                  /\ Proceed(c, "ok")
             ELSE Proceed(c, "failed") /\ UNCHANGED <<users, chosen, raced>>
    /\ UNCHANGED <<identityOf, profiles, wallets>>

-----------------------------------------------------------------------------
(* issueWalletCredential *)

\* Mutant: no identity is asked for.
AnyUserMayIssue(u) == TRUE

MayIssue(u) == IdentitiesOf(u) # {}

LoadWalletIdentity(c) ==
    /\ At(c, "wallet", "identity")
    /\ Proceed(c, IF MayIssue(UserOf(c)) THEN "upserting" ELSE "failed")
    /\ UNCHANGED accountRows

UpsertWallet(c) ==
    /\ At(c, "wallet", "upserting")
    /\ wallets' = [wallets EXCEPT ![UserOf(c)] = IF @ = "none" THEN "registered" ELSE @]
    /\ Proceed(c, "linking")
    /\ UNCHANGED <<users, identityOf, profiles, chosen, raced>>

\* updateWalletCredentialLink, before and after the issuance
LinkWallet(c) ==
    /\ At(c, "wallet", "linking") \/ At(c, "wallet", "linkingIssued")
    /\ users' = [users EXCEPT ![UserOf(c)].wallet = TRUE]
    /\ Proceed(c, IF At(c, "wallet", "linking") THEN "profile" ELSE "badging")
    /\ UNCHANGED <<identityOf, profiles, wallets, chosen, raced>>

LoadWalletProfile(c) ==
    /\ At(c, "wallet", "profile")
    /\ Proceed(c, IF profiles[UserOf(c)] = "none" THEN "failed" ELSE "issuing")
    /\ UNCHANGED accountRows

\* An update by user id, which may find no row.
IssueWallet(c) ==
    /\ At(c, "wallet", "issuing")
    /\ wallets' = [wallets EXCEPT ![UserOf(c)] = IF @ = "none" THEN @ ELSE "issued"]
    /\ Proceed(c, "linkingIssued")
    /\ UNCHANGED <<users, identityOf, profiles, chosen, raced>>

VerifyProfile(c) ==
    /\ At(c, "wallet", "badging")
    /\ profiles' = [profiles EXCEPT ![UserOf(c)] = IF @ = "none" THEN @ ELSE "verified"]
    /\ Proceed(c, "ok")
    /\ UNCHANGED <<users, identityOf, wallets, chosen, raced>>

-----------------------------------------------------------------------------
\* Mutant: the nickname stays.
AnonymizedButName(user) == [user EXCEPT !.active = FALSE, !.verified = FALSE,
                                        !.wallet = FALSE]

Anonymized(user) == [NewUser EXCEPT !.active = FALSE, !.verified = FALSE]

\* delete_account_for_user, one transaction: the identity stays.
DeleteUser(c) ==
    /\ At(c, "delete", "idle") /\ users[UserOf(c)].active
    /\ LET u == UserOf(c)
       IN  /\ users' = [users EXCEPT ![u] = Anonymized(@)]
           /\ profiles' = [profiles EXCEPT ![u] = "none"]
           /\ wallets' = [wallets EXCEPT ![u] = "none"]
           /\ raced' = IF \E d \in AccountCalls : UserOf(d) = u /\ UnderWay(d)
                         THEN raced \cup {u} ELSE raced
    /\ Proceed(c, "ok")
    /\ UNCHANGED <<identityOf, chosen>>

AccountNext == \E c \in AccountCalls :
    \/ CompleteRegistration(c) \/ BindVerifiedIdentity(c) \/ GetProfile(c)
    \/ UpdateHomeLocation(c) \/ UpdatePublicNickname(c) \/ IssueWalletCredential(c)
    \/ FindRegistered(c) \/ LoadRegistered(c) \/ InsertUser(c) \/ InsertProfile(c)
    \/ InsertIdentity(c)
    \/ LoadBindingViewer(c) \/ FindBoundByKey(c) \/ FindBoundByUser(c)
    \/ InsertBinding(c) \/ LoadOwner(c) \/ ResolveConflict(c) \/ UpgradeVerification(c)
    \/ LoadProfileUser(c) \/ LoadHomeProfile(c) \/ StoreHomeLocation(c)
    \/ DrawNickname(c) \/ StoreGenerated(c) \/ CheckNickname(c) \/ StoreChosen(c)
    \/ LoadWalletIdentity(c) \/ UpsertWallet(c) \/ LinkWallet(c)
    \/ LoadWalletProfile(c) \/ IssueWallet(c) \/ VerifyProfile(c)
    \/ DeleteUser(c)

AccountSpec == AccountInit /\ [][AccountNext]_accountVars

-----------------------------------------------------------------------------
\* The types of the variables.
AccountTypeOK ==
    /\ users \in Seq([active : BOOLEAN, verified : BOOLEAN, wallet : BOOLEAN,
                      nickname : Nicknames \cup {NoName}])
    /\ identityOf \in [Persons -> 0..Len(users)]
    /\ profiles \in [Users -> {"none", "plain", "verified"}]
    /\ wallets \in [Users -> {"none", "registered", "issued"}]
    /\ chosen \in [Users -> Nicknames \cup {NoName}]
    /\ raced \subseteq Users

\* A registration or a binding that succeeds answers the one user its person
\* has, now and for ever, whatever registrations and bindings of the same
\* person or by the same viewer overlap.
AnswersNameTheOwner ==
    \A c \in AccountCalls :
        accountCall[c].op \in {"register", "bind"} /\ accountCall[c].pc = "ok"
        => identityOf[Person(c)] = UserOf(c)

\* The badges of a profile and the wallet of a user have behind them what
\* they stand for, an issued credential and an identity, unless the account
\* was deleted under a request.
BadgesAreBacked ==
    \A u \in Users :
        /\ profiles[u] = "verified" => wallets[u] = "issued" /\ IdentitiesOf(u) # {}
        /\ users[u].wallet => wallets[u] # "none" \/ u \in raced

\* A nickname that its user chose is not replaced by a generated one, unless
\* a request that reads the profile was under way when it was chosen.
ChosenNicknamesStay ==
    \A u \in Users : users[u].active /\ chosen[u] # NoName /\ u \notin raced
                     => users[u].nickname = chosen[u]

\* Nothing about its user comes back to a deleted account, unless a request
\* of its own was under way; only the verification level does, when another
\* user names the same person.
DeletedAccountsStayBare ==
    \A u \in Users \ raced : ~users[u].active =>
        /\ users[u].nickname = NoName /\ ~users[u].wallet
        /\ profiles[u] = "none" /\ wallets[u] = "none"
        /\ users[u].verified => \E c \in AccountCalls :
             accountCall[c].op = "bind" /\ UserOf(c) = u
=============================================================================
