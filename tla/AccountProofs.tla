---------------------------- MODULE AccountProofs ---------------------------
(***************************************************************************)
(* What holds of the accounts of any number of persons: what they are      *)
(* shown to be is so, a deletion is final for everything that is kept of   *)
(* them, and the images they upload are theirs and stored.  And all the    *)
(* request handlers have their types.                                      *)
(***************************************************************************)
EXTENDS IdentityProofs, ContentProofs

-----------------------------------------------------------------------------
(* Accounts: the inductive invariant. *)

UserTypes == [active : BOOLEAN, verified : BOOLEAN, wallet : BOOLEAN,
              nickname : Nicknames \cup {NoName}]

AccountSteps ==
    {"idle", "ok", "failed", "byKey", "creating", "authoritative", "profiling",
     "identifying", "viewer", "byUser", "owner", "upgrading", "binding", "conflict",
     "user", "drawing", "naming", "profile", "locating", "checking", "choosing",
     "identity", "upserting", "linking", "issuing", "linkingIssued", "badging"}

AccountCallTypes ==
    [op : {"register", "bind", "nickname", "profile", "home", "wallet", "delete"},
     user : Nat, arg : Persons \cup Nicknames \cup {NoName}, pc : AccountSteps,
     seen : Nicknames \cup {NoName}, again : BOOLEAN, due : BOOLEAN]

Busy(k) == k.pc \notin {"idle", "ok", "failed"}

\* Steps at which a call knows the user its person has
Named == {"authoritative", "owner", "ok"}

\* Steps of a call that makes a user, and of one that issues a wallet
Making  == {"profiling", "identifying"}
Issuing == {"linking", "profile", "issuing", "linkingIssued", "badging"}
Issuance == {"linkingIssued", "badging"}

\* A generated nickname does not replace one that was chosen.
Unchosen(u) == chosen[u] = NoName \/ u \in raced \/ ~users[u].active

\* What a call is about
Fits(k) ==
    /\ k \in AccountCallTypes
    /\ k.op \in {"register", "bind"} => k.arg \in Persons
    /\ k.op = "nickname" => k.arg \in Nicknames
    /\ k.op \notin {"register", "bind"} => k.user \in {1, 2}
    /\ k.op # "register" => k.user \in Users
    /\ k.op = "register" /\ k.pc \in Making => k.user \in Users \ {1, 2}
    /\ k.op = "register" /\ k.pc \in {"idle", "byKey", "creating"} => k.user = 0
    /\ k.pc = "user" => k.op \in {"nickname", "profile", "home", "wallet"}
    /\ k.pc = "naming" => k.seen \in Nicknames
    /\ k.pc \in {"upgrading", "owner"} => k.op = "bind"
    /\ k.pc \in {"drawing", "naming"} => k.op \in {"profile", "home"}

\* What a call has found is so still.
FoundOwner(k) ==
    \/ k.op \in {"register", "bind"} /\ k.pc \in Named
    \/ k.pc = "upgrading"
    => k.user \in Users /\ identityOf[k.arg] = k.user

FoundWallet(k) == k.op = "wallet" =>
    /\ k.pc \in {"upserting"} \cup Issuing => IdentitiesOf(k.user) # {}
    /\ k.pc \in Issuing => /\ wallets[k.user] # "none" \/ k.user \in raced
                           /\ wallets[k.user] # "none" \/ profiles[k.user] = "none"
    /\ k.pc \in Issuance => wallets[k.user] = "issued" \/ profiles[k.user] = "none"

FoundName(k) == k.op \in {"profile", "home"} /\
    (k.pc \in {"drawing", "naming"} \/ (k.pc \in {"profile", "locating"} /\ k.seen = NoName))
    => Unchosen(k.user)

\* No request of a deleted account is under way, unless it was then.
LeftAlone(k) == Busy(k) /\ k.user \in Users \ raced /\ ~users[k.user].active =>
    k.op = "bind" \/ (k.op = "register" /\ k.pc = "authoritative")

CallHolds(k) == FoundOwner(k) /\ FoundWallet(k) /\ FoundName(k) /\ LeftAlone(k)

CallsHold == \A c \in AccountCalls : Fits(accountCall[c]) /\ CallHolds(accountCall[c])

DeletedStayBare ==
    \A u \in Users \ raced : ~users[u].active =>
        /\ users[u].nickname = NoName /\ ~users[u].wallet
        /\ profiles[u] = "none" /\ wallets[u] = "none"
        /\ users[u].verified => \E c \in AccountCalls :
             accountCall[c].op = "bind" /\ accountCall[c].pc = "ok" /\ UserOf(c) = u

AccountInv ==
    /\ AccountTypeOK /\ {1, 2} \subseteq Users
    /\ accountCall \in [AccountCalls -> AccountCallTypes] /\ CallsHold
    /\ BadgesAreBacked /\ ChosenNicknamesStay /\ DeletedStayBare

LEMMA AccountCallParts ==
    ASSUME NEW k \in AccountCallTypes
    PROVE  /\ k.op \in {"register", "bind", "nickname", "profile", "home", "wallet", "delete"}
           /\ k.user \in Nat /\ k.pc \in AccountSteps
           /\ k.arg \in Persons \cup Nicknames \cup {NoName}
           /\ k.seen \in Nicknames \cup {NoName}
           /\ k.again \in BOOLEAN /\ k.due \in BOOLEAN
  BY DEF AccountCallTypes

\* The users are numbered from one, and every table has a row for each.
LEMMA UsersNumbered ==
    ASSUME AccountInv
    PROVE  /\ Len(users) \in Nat /\ Users = 1..Len(users) /\ 0 \notin Users
           /\ \A u \in Users : /\ users[u] \in UserTypes
                               /\ users[u].active \in BOOLEAN
                               /\ users[u].wallet \in BOOLEAN
                               /\ users[u].verified \in BOOLEAN
                               /\ users[u].nickname \in Nicknames \cup {NoName}
           /\ identityOf \in [Persons -> 0..Len(users)]
           /\ \A p \in Persons : identityOf[p] # 0 => identityOf[p] \in Users
  <1>1. users \in Seq(UserTypes)  BY DEF AccountInv, AccountTypeOK, UserTypes
  <1>2. Len(users) \in Nat /\ Users = 1..Len(users)  BY <1>1, LenProperties DEF Users
  <1>3. \A u \in Users : users[u] \in UserTypes  BY <1>1, <1>2, ElementOfSeq
  <1>4. \A t \in UserTypes : /\ t.active \in BOOLEAN /\ t.wallet \in BOOLEAN
                             /\ t.verified \in BOOLEAN
                             /\ t.nickname \in Nicknames \cup {NoName}
    BY DEF UserTypes
  <1>5. identityOf \in [Persons -> 0..Len(users)]  BY DEF AccountInv, AccountTypeOK
  <1>6. \A p \in Persons : identityOf[p] # 0 => identityOf[p] \in Users
    BY <1>2, <1>5
  <1> QED  BY <1>2, <1>3, <1>4, <1>5, <1>6

\* What a step may do to the rows while the call k is under way.
StepAllows(k) ==
    /\ Users \subseteq Users' /\ raced \subseteq raced'
    /\ \A p \in Persons : identityOf[p] # 0 => identityOf'[p] = identityOf[p]
    /\ Busy(k) /\ k.op # "register" =>
         /\ wallets[k.user] # "none" => \/ wallets'[k.user] # "none"
                                        \/ k.user \in raced' /\ profiles'[k.user] = "none"
         /\ wallets[k.user] = "issued" => \/ wallets'[k.user] = "issued"
                                          \/ profiles'[k.user] = "none"
         /\ k.user \in {1, 2} /\ profiles[k.user] = "none" => profiles'[k.user] = "none"
         /\ k.op \in {"profile", "home"} =>
              chosen'[k.user] = chosen[k.user] \/ k.user \in raced'
         /\ users'[k.user].active => users[k.user].active
    /\ Busy(k) /\ k.user \in Users' \ raced' /\ ~users'[k.user].active =>
         k.user \in Users /\ ~users[k.user].active

\* Then what the call has found holds on.
LEMMA CallHoldsOn ==
    ASSUME AccountInv, NEW k, Fits(k), CallHolds(k), StepAllows(k)
    PROVE  Fits(k)' /\ CallHolds(k)'
  <1> USE AccountCallParts
  <1>0. k \in AccountCallTypes  BY DEF Fits
  <1>1. Fits(k)'
    BY <1>0 DEF Fits, StepAllows
  <1>2. FoundOwner(k)'
    BY <1>0, UsersNumbered DEF Fits, StepAllows, CallHolds, FoundOwner, Named
  <1>3. FoundWallet(k)'
    <2> SUFFICES ASSUME k.op = "wallet"
                 PROVE  FoundWallet(k)'
      BY DEF FoundWallet
    <2>1. k.user \in {1, 2}  BY DEF Fits
    <2>2. IdentitiesOf(k.user) # {} => IdentitiesOf(k.user)' # {}
      BY <2>1 DEF StepAllows, IdentitiesOf
    <2>3. k.pc \in {"upserting"} \cup Issuing => Busy(k)
      BY DEF Issuing, Busy
    <2> QED
      BY <2>1, <2>2, <2>3 DEF StepAllows, CallHolds, FoundWallet, Issuing, Issuance
  <1>4. FoundName(k)'
    BY <1>0 DEF Fits, StepAllows, CallHolds, FoundName, Unchosen, Busy
  <1>5. LeftAlone(k)'
    BY <1>0 DEF Fits, StepAllows, CallHolds, LeftAlone, Busy
  <1> QED  BY <1>1, <1>2, <1>3, <1>4, <1>5 DEF CallHolds

\* One call moves, the others see only what a step allows.
LEMMA CallsHoldOn ==
    ASSUME AccountInv, NEW c \in AccountCalls, NEW d,
           accountCall' = [accountCall EXCEPT ![c] = d],
           Fits(d)', CallHolds(d)',
           \A x \in AccountCalls \ {c} : StepAllows(accountCall[x])
    PROVE  /\ (accountCall \in [AccountCalls -> AccountCallTypes])' /\ CallsHold'
           /\ accountCall'[c] = d
           /\ \A x \in AccountCalls \ {c} : accountCall'[x] = accountCall[x]
  <1>1. d \in AccountCallTypes  BY DEF Fits
  <1>2. accountCall \in [AccountCalls -> AccountCallTypes]  BY DEF AccountInv
  <1>3. (accountCall \in [AccountCalls -> AccountCallTypes])'  BY <1>1, <1>2
  <1>4. accountCall'[c] = d /\ \A x \in AccountCalls \ {c} : accountCall'[x] = accountCall[x]
    BY <1>2
  <1>5. ASSUME NEW x \in AccountCalls
        PROVE  (Fits(accountCall[x]) /\ CallHolds(accountCall[x]))'
    <2>1. CASE x = c
      <3>1. ASSUME NEW k, k = d  PROVE Fits(k)' /\ CallHolds(k)'  BY <3>1
      <3>2. accountCall'[x] = d  BY <1>4, <2>1
      <3> QED  BY <3>2
    <2>2. CASE x # c
      <3>1. PICK k : k = accountCall[x]  OBVIOUS
      <3>2. Fits(k) /\ CallHolds(k) /\ StepAllows(k)
        BY <2>2, <3>1 DEF AccountInv, CallsHold
      <3>3. Fits(k)' /\ CallHolds(k)'  BY <3>2, CallHoldsOn
      <3>4. accountCall'[x] = k  BY <1>4, <2>2, <3>1
      <3> QED  BY <3>3, <3>4
    <2> QED  BY <2>1, <2>2
  <1> QED  BY <1>3, <1>4, <1>5 DEF CallsHold

\* A call that reads leaves the rows as they are.
LEMMA ReadingKeeps ==
    ASSUME AccountInv, NEW c \in AccountCalls, NEW d, accountCall[c].pc # "ok",
           accountCall' = [accountCall EXCEPT ![c] = d], UNCHANGED accountRows,
           Fits(d), CallHolds(d)
    PROVE  AccountInv'
  <1>1. \A x \in AccountCalls \ {c} : StepAllows(accountCall[x])
    BY DEF StepAllows, accountRows, Users
  <1>2. Fits(d)' /\ CallHolds(d)'
    BY DEF Fits, CallHolds, FoundOwner, FoundWallet, FoundName, LeftAlone, Unchosen,
           IdentitiesOf, accountRows, Users
  <1>3. /\ (accountCall \in [AccountCalls -> AccountCallTypes])' /\ CallsHold'
        /\ \A x \in AccountCalls \ {c} : accountCall'[x] = accountCall[x]
    BY <1>1, <1>2, CallsHoldOn
  <1>4. /\ AccountTypeOK' /\ ({1, 2} \subseteq Users)'
        /\ BadgesAreBacked' /\ ChosenNicknamesStay'
    BY DEF AccountInv, AccountTypeOK, BadgesAreBacked, ChosenNicknamesStay, IdentitiesOf,
           accountRows, Users
  <1>5. DeletedStayBare'
    BY <1>3 DEF AccountInv, DeletedStayBare, accountRows, Users, UserOf
  <1> QED  BY <1>3, <1>4, <1>5 DEF AccountInv

\* A call that moves on keeps what it is about.
Continues(d, k, pc) == d \in AccountCallTypes /\ d.op = k.op /\ d.arg = k.arg /\ d.pc = pc

LEMMA Moved ==
    ASSUME NEW k \in AccountCallTypes, NEW pc \in AccountSteps, NEW d,
           d = [k EXCEPT !.pc = pc]
    PROVE  Continues(d, k, pc) /\ d.user = k.user /\ d.seen = k.seen
  BY DEF AccountCallTypes, Continues

LEMMA MovedTo ==
    ASSUME NEW k \in AccountCallTypes, NEW pc \in AccountSteps, NEW user \in Nat, NEW d,
           d = [k EXCEPT !.pc = pc, !.user = user]
    PROVE  Continues(d, k, pc) /\ d.user = user /\ d.seen = k.seen
  BY DEF AccountCallTypes, Continues

LEMMA MovedSeeing ==
    ASSUME NEW k \in AccountCallTypes, NEW pc \in AccountSteps,
           NEW seen \in Nicknames \cup {NoName}, NEW d,
           d = [k EXCEPT !.pc = pc, !.seen = seen]
    PROVE  Continues(d, k, pc) /\ d.user = k.user /\ d.seen = seen
  BY DEF AccountCallTypes, Continues

LEMMA MovedDue ==
    ASSUME NEW k \in AccountCallTypes, NEW pc \in AccountSteps, NEW due \in BOOLEAN, NEW d,
           d = [k EXCEPT !.pc = pc, !.due = due]
    PROVE  Continues(d, k, pc) /\ d.user = k.user /\ d.seen = k.seen
  BY DEF AccountCallTypes, Continues

LEMMA MovedAgain ==
    ASSUME NEW k \in AccountCallTypes, NEW pc \in AccountSteps, NEW d,
           d = [k EXCEPT !.pc = pc, !.again = TRUE]
    PROVE  Continues(d, k, pc) /\ d.user = k.user /\ d.seen = k.seen
  BY DEF AccountCallTypes, Continues

LEMMA CallOf ==
    ASSUME AccountInv, NEW c \in AccountCalls, NEW k, k = accountCall[c]
    PROVE  /\ k \in AccountCallTypes /\ Fits(k) /\ CallHolds(k)
           /\ k.user \in Nat /\ k.pc \in AccountSteps
           /\ k.op \in {"register", "bind", "nickname", "profile", "home", "wallet", "delete"}
           /\ k.seen \in Nicknames \cup {NoName}
           /\ \A pc : Proceed(c, pc) <=>
                  accountCall' = [accountCall EXCEPT ![c] = [k EXCEPT !.pc = pc]]
  <1>1. k \in AccountCallTypes /\ Fits(k) /\ CallHolds(k)
    BY DEF AccountInv, CallsHold
  <1>2. \A pc : Proceed(c, pc) <=>
                  accountCall' = [accountCall EXCEPT ![c] = [k EXCEPT !.pc = pc]]
    BY DEF Proceed
  <1> QED  BY <1>1, <1>2, AccountCallParts

\* The first steps of the requests.
Beginnings == {<<"register", "byKey">>, <<"bind", "viewer">>, <<"profile", "user">>,
               <<"home", "user">>, <<"nickname", "user">>, <<"wallet", "user">>}

LEMMA BeginCallKeeps ==
    ASSUME AccountInv, NEW c \in AccountCalls, NEW op, NEW pc, <<op, pc>> \in Beginnings,
           BeginCall(c, op, pc)
    PROVE  AccountInv'
  <1>1. PICK k : k = accountCall[c]  OBVIOUS
  <1>2. PICK d : d = [k EXCEPT !.pc = pc]  OBVIOUS
  <1>3. /\ k \in AccountCallTypes /\ Fits(k) /\ CallHolds(k) /\ k.pc = "idle" /\ k.op = op
        /\ accountCall' = [accountCall EXCEPT ![c] = d] /\ UNCHANGED accountRows
        /\ k.op # "register" => users[k.user].active
    BY <1>1, <1>2, CallOf DEF BeginCall, At, UserOf
  <1>4. Continues(d, k, pc) /\ d.user = k.user /\ d.seen = k.seen
    <2>1. pc \in AccountSteps  BY DEF Beginnings, AccountSteps
    <2> QED  BY <1>2, <1>3, <2>1, Moved
  <1>5. Fits(d)  BY <1>3, <1>4 DEF Fits, Making, Beginnings, Continues
  <1>6. CallHolds(d)
    BY <1>3, <1>4, UsersNumbered
       DEF Fits, CallHolds, FoundOwner, FoundWallet, FoundName, LeftAlone, Named, Issuing,
           Issuance, Beginnings, Continues
  <1> QED  BY <1>1, <1>3, <1>5, <1>6, ReadingKeeps

\* Registration: the user found has the identity, and an active one is answered.
LEMMA FindRegisteredKeeps ==
    ASSUME AccountInv, NEW c \in AccountCalls, FindRegistered(c)
    PROVE  AccountInv'
  <1>1. PICK k : k = accountCall[c]  OBVIOUS
  <1>2. /\ k \in AccountCallTypes /\ Fits(k) /\ CallHolds(k) /\ k.pc = "byKey" /\ k.op = "register"
        /\ UNCHANGED accountRows /\ k.arg \in Persons
    BY <1>1, CallOf DEF FindRegistered, At, Fits
  <1>3. CASE identityOf[k.arg] # 0
    <2> PICK owner : owner = identityOf[k.arg]  OBVIOUS
    <2>1. PICK d : d = [k EXCEPT !.pc = "authoritative", !.user = owner]  OBVIOUS
    <2>2. accountCall' = [accountCall EXCEPT ![c] = d]
      BY <1>1, <1>3, <2>1 DEF FindRegistered, Person, AccountInv, AccountCallTypes
    <2>3. owner \in Users /\ owner \in Nat
      BY <1>2, <1>3, UsersNumbered
    <2>4. Continues(d, k, "authoritative") /\ d.user = owner /\ d.seen = k.seen
      <3>1. "authoritative" \in AccountSteps  BY DEF AccountSteps
      <3> QED  BY <1>2, <2>1, <2>3, <3>1 DEF AccountCallTypes, Continues
    <2>5. Fits(d)  BY <1>2, <2>3, <2>4 DEF Fits, Making, Continues
    <2>6. CallHolds(d)
      BY <1>2, <2>3, <2>4 DEF CallHolds, FoundOwner, FoundWallet, FoundName, LeftAlone, Continues
    <2> QED  BY <1>1, <1>2, <2>2, <2>5, <2>6, ReadingKeeps
  <1>4. CASE identityOf[k.arg] = 0
    <2>1. PICK d : d = [k EXCEPT !.pc = "creating"]  OBVIOUS
    <2>2. accountCall' = [accountCall EXCEPT ![c] = d]
      BY <1>1, <1>4, <2>1, CallOf DEF FindRegistered, Person
    <2>3. Continues(d, k, "creating") /\ d.user = k.user /\ d.seen = k.seen
      BY <1>2, <2>1, Moved DEF AccountSteps
    <2>4. Fits(d)  BY <1>2, <2>3 DEF Fits, Making, Continues
    <2>5. CallHolds(d)
      BY <1>2, <2>3, UsersNumbered
         DEF CallHolds, FoundOwner, FoundWallet, FoundName, LeftAlone, Fits, Named, Continues
    <2> QED  BY <1>1, <1>2, <2>2, <2>4, <2>5, ReadingKeeps
  <1> QED  BY <1>3, <1>4

\* What a call must show that moves on to pc and leaves the rows alone.
MayMove(k, pc) ==
    \A d : Continues(d, k, pc) /\ d.user = k.user /\ d.seen = k.seen
           => Fits(d) /\ CallHolds(d)

LEMMA ReadingMoves ==
    ASSUME AccountInv, NEW c \in AccountCalls, NEW k, k = accountCall[c], k.pc # "ok",
           NEW pc \in AccountSteps, Proceed(c, pc), UNCHANGED accountRows, MayMove(k, pc)
    PROVE  AccountInv'
  <1>1. PICK d : d = [k EXCEPT !.pc = pc]  OBVIOUS
  <1>2. k \in AccountCallTypes /\ accountCall' = [accountCall EXCEPT ![c] = d]
    BY <1>1, CallOf
  <1>3. Continues(d, k, pc) /\ d.user = k.user /\ d.seen = k.seen
    BY <1>1, <1>2, Moved
  <1> QED  BY <1>2, <1>3, ReadingKeeps DEF MayMove

LEMMA LoadRegisteredKeeps ==
    ASSUME AccountInv, NEW c \in AccountCalls, LoadRegistered(c)
    PROVE  AccountInv'
  <1>1. PICK k : k = accountCall[c]  OBVIOUS
  <1>2. /\ k \in AccountCallTypes /\ Fits(k) /\ CallHolds(k) /\ k.pc = "authoritative" /\ k.op = "register"
        /\ UNCHANGED accountRows /\ k.pc # "ok" /\ UserOf(c) = k.user /\ Person(c) = k.arg
    BY <1>1, CallOf DEF LoadRegistered, At, UserOf, Person
  <1>3. CASE users[k.user].active
    <2>1. Proceed(c, "ok")  BY <1>1, <1>2, <1>3 DEF LoadRegistered, At
    <2>2. MayMove(k, "ok")
      BY <1>2, <1>3, UsersNumbered
         DEF MayMove, Fits, CallHolds, FoundOwner, FoundWallet, FoundName, LeftAlone, Named,
             Issuing, Issuance, Making, Busy, Continues
    <2>3. "ok" \in AccountSteps  BY DEF AccountSteps
    <2> QED  BY <1>1, <1>2, <2>1, <2>2, <2>3, ReadingMoves
  <1>4. CASE ~users[k.user].active
    <2>1. Proceed(c, "failed")  BY <1>1, <1>2, <1>4 DEF LoadRegistered, At
    <2>2. MayMove(k, "failed")
      BY <1>2, <1>4, UsersNumbered
         DEF MayMove, Fits, CallHolds, FoundOwner, FoundWallet, FoundName, LeftAlone, Named,
             Issuing, Issuance, Making, Busy, Continues
    <2>3. "failed" \in AccountSteps  BY DEF AccountSteps
    <2> QED  BY <1>1, <1>2, <2>1, <2>2, <2>3, ReadingMoves
  <1> QED  BY <1>1, <1>2, <1>3, <1>4

LEMMA FindBoundByUserKeeps ==
    ASSUME AccountInv, NEW c \in AccountCalls, FindBoundByUser(c)
    PROVE  AccountInv'
  <1>1. PICK k : k = accountCall[c]  OBVIOUS
  <1>2. /\ k \in AccountCallTypes /\ Fits(k) /\ CallHolds(k) /\ k.pc = "byUser" /\ k.op = "bind"
        /\ UNCHANGED accountRows /\ k.pc # "ok" /\ UserOf(c) = k.user /\ Person(c) = k.arg
    BY <1>1, CallOf DEF FindBoundByUser, At, UserOf, Person
  <1>3. CASE IdentitiesOf(k.user) = {}
    <2>1. Proceed(c, "binding")  BY <1>1, <1>2, <1>3 DEF FindBoundByUser
    <2>2. MayMove(k, "binding")
      BY <1>2, <1>3, UsersNumbered
         DEF MayMove, Fits, CallHolds, FoundOwner, FoundWallet, FoundName, LeftAlone, Named,
             Issuing, Issuance, Making, Busy, Continues, IdentitiesOf
    <2>3. "binding" \in AccountSteps  BY DEF AccountSteps
    <2> QED  BY <1>1, <1>2, <2>1, <2>2, <2>3, ReadingMoves
  <1>4. CASE IdentitiesOf(k.user) = {k.arg}
    <2>1. Proceed(c, "upgrading")  BY <1>1, <1>2, <1>4 DEF FindBoundByUser
    <2>2. MayMove(k, "upgrading")
      BY <1>2, <1>4, UsersNumbered
         DEF MayMove, Fits, CallHolds, FoundOwner, FoundWallet, FoundName, LeftAlone, Named,
             Issuing, Issuance, Making, Busy, Continues, IdentitiesOf
    <2>3. "upgrading" \in AccountSteps  BY DEF AccountSteps
    <2> QED  BY <1>1, <1>2, <2>1, <2>2, <2>3, ReadingMoves
  <1>5. CASE IdentitiesOf(k.user) \notin {{}, {k.arg}}
    <2>1. Proceed(c, "failed")  BY <1>1, <1>2, <1>5 DEF FindBoundByUser
    <2>2. MayMove(k, "failed")
      BY <1>2, <1>5, UsersNumbered
         DEF MayMove, Fits, CallHolds, FoundOwner, FoundWallet, FoundName, LeftAlone, Named,
             Issuing, Issuance, Making, Busy, Continues, IdentitiesOf
    <2>3. "failed" \in AccountSteps  BY DEF AccountSteps
    <2> QED  BY <1>1, <1>2, <2>1, <2>2, <2>3, ReadingMoves
  <1> QED  BY <1>1, <1>2, <1>3, <1>4, <1>5

LEMMA LoadHomeProfileKeeps ==
    ASSUME AccountInv, NEW c \in AccountCalls, LoadHomeProfile(c)
    PROVE  AccountInv'
  <1>1. PICK k : k = accountCall[c]  OBVIOUS
  <1>2. /\ k \in AccountCallTypes /\ Fits(k) /\ CallHolds(k) /\ k.pc = "profile" /\ k.op = "home"
        /\ UNCHANGED accountRows /\ k.pc # "ok" /\ UserOf(c) = k.user /\ Person(c) = k.arg
    BY <1>1, CallOf DEF LoadHomeProfile, At, UserOf, Person
  <1>3. CASE profiles[k.user] = "none"
    <2>1. Proceed(c, "failed")  BY <1>1, <1>2, <1>3 DEF LoadHomeProfile
    <2>2. MayMove(k, "failed")
      BY <1>2, <1>3, UsersNumbered
         DEF MayMove, Fits, CallHolds, FoundOwner, FoundWallet, FoundName, LeftAlone, Named,
             Issuing, Issuance, Making, Busy, Continues
    <2>3. "failed" \in AccountSteps  BY DEF AccountSteps
    <2> QED  BY <1>1, <1>2, <2>1, <2>2, <2>3, ReadingMoves
  <1>4. CASE profiles[k.user] # "none"
    <2>1. Proceed(c, "locating")  BY <1>1, <1>2, <1>4 DEF LoadHomeProfile
    <2>2. MayMove(k, "locating")
      BY <1>2, <1>4, UsersNumbered
         DEF MayMove, Fits, CallHolds, FoundOwner, FoundWallet, FoundName, LeftAlone, Named,
             Issuing, Issuance, Making, Busy, Continues
    <2>3. "locating" \in AccountSteps  BY DEF AccountSteps
    <2> QED  BY <1>1, <1>2, <2>1, <2>2, <2>3, ReadingMoves
  <1> QED  BY <1>1, <1>2, <1>3, <1>4

LEMMA StoreHomeLocationKeeps ==
    ASSUME AccountInv, NEW c \in AccountCalls, StoreHomeLocation(c)
    PROVE  AccountInv'
  <1>1. PICK k : k = accountCall[c]  OBVIOUS
  <1>2. /\ k \in AccountCallTypes /\ Fits(k) /\ CallHolds(k) /\ k.pc = "locating" /\ k.op = "home"
        /\ UNCHANGED accountRows /\ k.pc # "ok" /\ UserOf(c) = k.user /\ Person(c) = k.arg
    BY <1>1, CallOf DEF StoreHomeLocation, At, UserOf, Person
  <1>3. CASE profiles[k.user] = "none"
    <2>1. Proceed(c, "failed")  BY <1>1, <1>2, <1>3 DEF StoreHomeLocation, AfterProfile, NeedsNickname
    <2>2. MayMove(k, "failed")
      BY <1>2, <1>3, UsersNumbered
         DEF MayMove, Fits, CallHolds, FoundOwner, FoundWallet, FoundName, LeftAlone, Named,
             Issuing, Issuance, Making, Busy, Continues
    <2>3. "failed" \in AccountSteps  BY DEF AccountSteps
    <2> QED  BY <1>1, <1>2, <2>1, <2>2, <2>3, ReadingMoves
  <1>4. CASE profiles[k.user] # "none" /\ k.seen = NoName
    <2>1. Proceed(c, "drawing")  BY <1>1, <1>2, <1>4 DEF StoreHomeLocation, AfterProfile, NeedsNickname
    <2>2. MayMove(k, "drawing")
      BY <1>2, <1>4, UsersNumbered
         DEF MayMove, Fits, CallHolds, FoundOwner, FoundWallet, FoundName, LeftAlone, Named,
             Issuing, Issuance, Making, Busy, Continues
    <2>3. "drawing" \in AccountSteps  BY DEF AccountSteps
    <2> QED  BY <1>1, <1>2, <2>1, <2>2, <2>3, ReadingMoves
  <1>5. CASE profiles[k.user] # "none" /\ k.seen # NoName
    <2>1. Proceed(c, "ok")  BY <1>1, <1>2, <1>5 DEF StoreHomeLocation, AfterProfile, NeedsNickname
    <2>2. MayMove(k, "ok")
      BY <1>2, <1>5, UsersNumbered
         DEF MayMove, Fits, CallHolds, FoundOwner, FoundWallet, FoundName, LeftAlone, Named,
             Issuing, Issuance, Making, Busy, Continues
    <2>3. "ok" \in AccountSteps  BY DEF AccountSteps
    <2> QED  BY <1>1, <1>2, <2>1, <2>2, <2>3, ReadingMoves
  <1> QED  BY <1>1, <1>2, <1>3, <1>4, <1>5

LEMMA CheckNicknameKeeps ==
    ASSUME AccountInv, NEW c \in AccountCalls, CheckNickname(c)
    PROVE  AccountInv'
  <1>1. PICK k : k = accountCall[c]  OBVIOUS
  <1>2. /\ k \in AccountCallTypes /\ Fits(k) /\ CallHolds(k) /\ k.pc = "checking" /\ k.op = "nickname"
        /\ UNCHANGED accountRows /\ k.pc # "ok" /\ UserOf(c) = k.user /\ Person(c) = k.arg
    BY <1>1, CallOf DEF CheckNickname, At, UserOf, Person
  <1>3. CASE IsFree(k.arg, k.user)
    <2>1. Proceed(c, "choosing")  BY <1>1, <1>2, <1>3 DEF CheckNickname
    <2>2. MayMove(k, "choosing")
      BY <1>2, <1>3, UsersNumbered
         DEF MayMove, Fits, CallHolds, FoundOwner, FoundWallet, FoundName, LeftAlone, Named,
             Issuing, Issuance, Making, Busy, Continues
    <2>3. "choosing" \in AccountSteps  BY DEF AccountSteps
    <2> QED  BY <1>1, <1>2, <2>1, <2>2, <2>3, ReadingMoves
  <1>4. CASE ~IsFree(k.arg, k.user)
    <2>1. Proceed(c, "failed")  BY <1>1, <1>2, <1>4 DEF CheckNickname
    <2>2. MayMove(k, "failed")
      BY <1>2, <1>4, UsersNumbered
         DEF MayMove, Fits, CallHolds, FoundOwner, FoundWallet, FoundName, LeftAlone, Named,
             Issuing, Issuance, Making, Busy, Continues
    <2>3. "failed" \in AccountSteps  BY DEF AccountSteps
    <2> QED  BY <1>1, <1>2, <2>1, <2>2, <2>3, ReadingMoves
  <1> QED  BY <1>1, <1>2, <1>3, <1>4

LEMMA LoadWalletIdentityKeeps ==
    ASSUME AccountInv, NEW c \in AccountCalls, LoadWalletIdentity(c)
    PROVE  AccountInv'
  <1>1. PICK k : k = accountCall[c]  OBVIOUS
  <1>2. /\ k \in AccountCallTypes /\ Fits(k) /\ CallHolds(k) /\ k.pc = "identity" /\ k.op = "wallet"
        /\ UNCHANGED accountRows /\ k.pc # "ok" /\ UserOf(c) = k.user /\ Person(c) = k.arg
    BY <1>1, CallOf DEF LoadWalletIdentity, At, UserOf, Person
  <1>3. CASE MayIssue(k.user)
    <2>1. Proceed(c, "upserting")  BY <1>1, <1>2, <1>3 DEF LoadWalletIdentity
    <2>2. MayMove(k, "upserting")
      BY <1>2, <1>3, UsersNumbered
         DEF MayMove, Fits, CallHolds, FoundOwner, FoundWallet, FoundName, LeftAlone, Named,
             Issuing, Issuance, Making, Busy, Continues, MayIssue
    <2>3. "upserting" \in AccountSteps  BY DEF AccountSteps
    <2> QED  BY <1>1, <1>2, <2>1, <2>2, <2>3, ReadingMoves
  <1>4. CASE ~MayIssue(k.user)
    <2>1. Proceed(c, "failed")  BY <1>1, <1>2, <1>4 DEF LoadWalletIdentity
    <2>2. MayMove(k, "failed")
      BY <1>2, <1>4, UsersNumbered
         DEF MayMove, Fits, CallHolds, FoundOwner, FoundWallet, FoundName, LeftAlone, Named,
             Issuing, Issuance, Making, Busy, Continues, MayIssue
    <2>3. "failed" \in AccountSteps  BY DEF AccountSteps
    <2> QED  BY <1>1, <1>2, <2>1, <2>2, <2>3, ReadingMoves
  <1> QED  BY <1>1, <1>2, <1>3, <1>4

LEMMA LoadWalletProfileKeeps ==
    ASSUME AccountInv, NEW c \in AccountCalls, LoadWalletProfile(c)
    PROVE  AccountInv'
  <1>1. PICK k : k = accountCall[c]  OBVIOUS
  <1>2. /\ k \in AccountCallTypes /\ Fits(k) /\ CallHolds(k) /\ k.pc = "profile" /\ k.op = "wallet"
        /\ UNCHANGED accountRows /\ k.pc # "ok" /\ UserOf(c) = k.user /\ Person(c) = k.arg
    BY <1>1, CallOf DEF LoadWalletProfile, At, UserOf, Person
  <1>3. CASE profiles[k.user] = "none"
    <2>1. Proceed(c, "failed")  BY <1>1, <1>2, <1>3 DEF LoadWalletProfile
    <2>2. MayMove(k, "failed")
      BY <1>2, <1>3, UsersNumbered
         DEF MayMove, Fits, CallHolds, FoundOwner, FoundWallet, FoundName, LeftAlone, Named,
             Issuing, Issuance, Making, Busy, Continues
    <2>3. "failed" \in AccountSteps  BY DEF AccountSteps
    <2> QED  BY <1>1, <1>2, <2>1, <2>2, <2>3, ReadingMoves
  <1>4. CASE profiles[k.user] # "none"
    <2>1. Proceed(c, "issuing")  BY <1>1, <1>2, <1>4 DEF LoadWalletProfile
    <2>2. MayMove(k, "issuing")
      BY <1>2, <1>4, UsersNumbered
         DEF MayMove, Fits, CallHolds, FoundOwner, FoundWallet, FoundName, LeftAlone, Named,
             Issuing, Issuance, Making, Busy, Continues
    <2>3. "issuing" \in AccountSteps  BY DEF AccountSteps
    <2> QED  BY <1>1, <1>2, <2>1, <2>2, <2>3, ReadingMoves
  <1> QED  BY <1>1, <1>2, <1>3, <1>4

\* A row that is read, for the viewer and for the owner of the identity.
LEMMA ReadLevelKeeps ==
    ASSUME AccountInv, NEW c \in AccountCalls, NEW at, NEW pc, ReadLevel(c, at, pc),
           <<at, pc>> \in {<<"viewer", "byKey">>, <<"owner", "upgrading">>}
    PROVE  AccountInv'
  <1>1. PICK k : k = accountCall[c]  OBVIOUS
  <1>2. k \in AccountCallTypes /\ Fits(k) /\ CallHolds(k) /\ k.pc = at /\ k.op = "bind"
    BY <1>1, CallOf DEF ReadLevel, At
  <1>3. PICK due : due = (~users[k.user].verified)  OBVIOUS
  <1>4. PICK d : d = [k EXCEPT !.pc = pc, !.due = due]  OBVIOUS
  <1>5. accountCall' = [accountCall EXCEPT ![c] = d] /\ UNCHANGED accountRows
    BY <1>1, <1>3, <1>4 DEF ReadLevel, UserOf
  <1>6. due \in BOOLEAN  BY <1>3
  <1>7. pc \in AccountSteps  BY DEF AccountSteps
  <1>8. Continues(d, k, pc) /\ d.user = k.user /\ d.seen = k.seen
    BY <1>2, <1>4, <1>6, <1>7, MovedDue
  <1>9. Fits(d) /\ CallHolds(d)
    BY <1>2, <1>8
       DEF Fits, CallHolds, FoundOwner, FoundWallet, FoundName, LeftAlone, Named, Issuing,
           Issuance, Making, Busy, Continues
  <1> QED  BY <1>1, <1>2, <1>5, <1>9, ReadingKeeps

\* A binding turns to the user its person has.
LEMMA TurnsToOwner ==
    ASSUME AccountInv, NEW c \in AccountCalls, NEW k, k = accountCall[c], k.op = "bind",
           k.pc # "ok", NEW owner, owner = identityOf[k.arg], owner # 0, NEW pc,
           \/ pc = "owner" /\ TurnTo(c, owner)
           \/ pc = "ok" /\ Answer(c, owner),
           UNCHANGED accountRows
    PROVE  AccountInv'
  <1>1. k \in AccountCallTypes /\ Fits(k) /\ CallHolds(k)  BY CallOf
  <1>2. k.arg \in Persons  BY <1>1 DEF Fits
  <1>3. owner \in Users /\ owner \in Nat  BY <1>2, UsersNumbered
  <1>4. PICK d : d = [k EXCEPT !.pc = pc, !.user = owner]  OBVIOUS
  <1>5. accountCall' = [accountCall EXCEPT ![c] = d]
    BY <1>4 DEF TurnTo, Answer
  <1>6. pc \in AccountSteps  BY DEF AccountSteps
  <1>7. Continues(d, k, pc) /\ d.user = owner /\ d.seen = k.seen
    BY <1>1, <1>3, <1>4, <1>6 DEF AccountCallTypes, Continues
  <1>8. Fits(d) /\ CallHolds(d)
    BY <1>1, <1>2, <1>3, <1>7
       DEF Fits, CallHolds, FoundOwner, FoundWallet, FoundName, LeftAlone, Named, Issuing,
           Issuance, Making, Busy, Continues
  <1> QED  BY <1>1, <1>5, <1>8, ReadingKeeps

LEMMA FindBoundByKeyKeeps ==
    ASSUME AccountInv, NEW c \in AccountCalls, FindBoundByKey(c)
    PROVE  AccountInv'
  <1>1. PICK k : k = accountCall[c]  OBVIOUS
  <1>2. /\ k \in AccountCallTypes /\ Fits(k) /\ CallHolds(k) /\ k.pc = "byKey" /\ k.op = "bind"
        /\ UNCHANGED accountRows /\ k.pc # "ok" /\ UserOf(c) = k.user /\ Person(c) = k.arg
    BY <1>1, CallOf DEF FindBoundByKey, At, UserOf, Person
  <1>3. PICK owner : owner = identityOf[k.arg]  OBVIOUS
  <1>4. CASE owner = 0
    <2>1. Proceed(c, "byUser")
      <3>1. UserOf(c) # 0  BY <1>2, UsersNumbered DEF Fits
      <3> QED  BY <1>2, <1>3, <1>4, <3>1 DEF FindBoundByKey
    <2>2. MayMove(k, "byUser")
      BY <1>2
         DEF MayMove, Fits, CallHolds, FoundOwner, FoundWallet, FoundName, LeftAlone, Named,
             Making, Busy, Continues
    <2>3. "byUser" \in AccountSteps  BY DEF AccountSteps
    <2> QED  BY <1>1, <1>2, <2>1, <2>2, <2>3, ReadingMoves
  <1>5. CASE owner # 0 /\ owner = k.user
    <2>1. Proceed(c, "upgrading")  BY <1>2, <1>3, <1>5 DEF FindBoundByKey
    <2>2. MayMove(k, "upgrading")
      BY <1>2, <1>3, <1>5
         DEF MayMove, Fits, CallHolds, FoundOwner, FoundWallet, FoundName, LeftAlone, Named,
             Making, Busy, Continues
    <2>3. "upgrading" \in AccountSteps  BY DEF AccountSteps
    <2> QED  BY <1>1, <1>2, <2>1, <2>2, <2>3, ReadingMoves
  <1>6. CASE owner # 0 /\ owner # k.user
    <2>1. TurnTo(c, owner)  BY <1>2, <1>3, <1>6 DEF FindBoundByKey
    <2> QED  BY <1>1, <1>2, <1>3, <1>6, <2>1, TurnsToOwner
  <1> QED  BY <1>4, <1>5, <1>6

LEMMA ResolveConflictKeeps ==
    ASSUME AccountInv, NEW c \in AccountCalls, ResolveConflict(c)
    PROVE  AccountInv'
  <1>1. PICK k : k = accountCall[c]  OBVIOUS
  <1>2. /\ k \in AccountCallTypes /\ Fits(k) /\ CallHolds(k) /\ k.pc = "conflict"
        /\ k.op = "bind" /\ UNCHANGED accountRows /\ k.pc # "ok" /\ UserOf(c) = k.user
    BY <1>1, CallOf DEF ResolveConflict, At, UserOf
  <1>3. PICK owner : owner = identityOf[k.arg]  OBVIOUS
  <1>4. ResolvesTo(c) = owner  BY <1>1, <1>3 DEF ResolvesTo, Person
  <1>5. CASE owner = 0
    <2>1. Proceed(c, "failed")
      <3>1. UserOf(c) # 0  BY <1>2, UsersNumbered DEF Fits
      <3> QED  BY <1>4, <1>5, <3>1 DEF ResolveConflict
    <2>2. MayMove(k, "failed")
      BY <1>2
         DEF MayMove, Fits, CallHolds, FoundOwner, FoundWallet, FoundName, LeftAlone, Named,
             Making, Busy, Continues
    <2>3. "failed" \in AccountSteps  BY DEF AccountSteps
    <2> QED  BY <1>1, <1>2, <2>1, <2>2, <2>3, ReadingMoves
  <1>6. CASE owner # 0 /\ owner = k.user
    <2>1. Answer(c, owner)  BY <1>2, <1>4, <1>6 DEF ResolveConflict
    <2> QED  BY <1>1, <1>2, <1>3, <1>6, <2>1, TurnsToOwner
  <1>7. CASE owner # 0 /\ owner # k.user
    <2>1. TurnTo(c, owner)  BY <1>2, <1>4, <1>7 DEF ResolveConflict
    <2> QED  BY <1>1, <1>2, <1>3, <1>7, <2>1, TurnsToOwner
  <1> QED  BY <1>5, <1>6, <1>7

\* A request that sees no nickname is one of a user who has not chosen any,
\* or was raced.
LEMMA LoadProfileUserKeeps ==
    ASSUME AccountInv, NEW c \in AccountCalls, LoadProfileUser(c)
    PROVE  AccountInv'
  <1>1. PICK k : k = accountCall[c]  OBVIOUS
  <1>2. /\ k \in AccountCallTypes /\ Fits(k) /\ CallHolds(k) /\ k.pc = "user"
        /\ k.op \in {"nickname", "profile", "home", "wallet"} /\ k.user \in {1, 2}
    BY <1>1, CallOf DEF LoadProfileUser, Fits
  <1>3. k.user \in Users  BY <1>2 DEF AccountInv
  <1>4. PICK seen : seen = users[k.user].nickname  OBVIOUS
  <1>5. seen \in Nicknames \cup {NoName}  BY <1>3, <1>4, UsersNumbered
  <1>6. PICK pc : pc = CASE k.op = "profile"  -> AfterProfile(c, seen)
                         [] k.op = "home"     -> "profile"
                         [] k.op = "nickname" -> "checking"
                         [] k.op = "wallet"   -> "identity"
    OBVIOUS
  <1>7. \/ k.op = "profile" /\ pc = "ok"
        \/ k.op = "profile" /\ pc = "drawing" /\ seen = NoName
        \/ k.op = "home" /\ pc = "profile"
        \/ k.op = "nickname" /\ pc = "checking"
        \/ k.op = "wallet" /\ pc = "identity"
    BY <1>2, <1>6 DEF AfterProfile, NeedsNickname
  <1>8. PICK d : d = [k EXCEPT !.pc = pc, !.seen = seen]  OBVIOUS
  <1>9. accountCall' = [accountCall EXCEPT ![c] = d] /\ UNCHANGED accountRows
    <2>1. accountCall' = [accountCall EXCEPT ![c].pc = pc, ![c].seen = seen]
      BY <1>1, <1>4, <1>6 DEF LoadProfileUser, UserOf
    <2> QED  BY <1>1, <1>8, <2>1 DEF LoadProfileUser
  <1>10. pc \in AccountSteps  BY <1>7 DEF AccountSteps
  <1>11. Continues(d, k, pc) /\ d.user = k.user /\ d.seen = seen
    BY <1>2, <1>5, <1>8, <1>10 DEF AccountCallTypes, Continues
  <1>12. Fits(d)  BY <1>2, <1>7, <1>11 DEF Fits, Making, Continues
  <1>13. seen = NoName => Unchosen(k.user)
    <2>1. chosen[k.user] \in Nicknames \cup {NoName}
      BY <1>3 DEF AccountInv, AccountTypeOK
    <2>2. users[k.user].active /\ chosen[k.user] # NoName /\ k.user \notin raced
          => users[k.user].nickname = chosen[k.user]
      BY <1>3 DEF AccountInv, ChosenNicknamesStay
    <2> QED  BY <1>4, <2>1, <2>2 DEF Unchosen
  <1>14. CallHolds(d)
    BY <1>2, <1>7, <1>11, <1>13
       DEF CallHolds, FoundOwner, FoundWallet, FoundName, LeftAlone, Named, Issuing, Issuance,
           Busy, Continues
  <1> QED  BY <1>1, <1>2, <1>9, <1>12, <1>14, ReadingKeeps

LEMMA DrawNicknameKeeps ==
    ASSUME AccountInv, NEW c \in AccountCalls, DrawNickname(c)
    PROVE  AccountInv'
  <1>1. PICK k : k = accountCall[c]  OBVIOUS
  <1>2. /\ k \in AccountCallTypes /\ Fits(k) /\ CallHolds(k) /\ k.pc = "drawing"
        /\ UNCHANGED accountRows
    BY <1>1, CallOf DEF DrawNickname
  <1>3. PICK name \in Nicknames :
          accountCall' = [accountCall EXCEPT ![c].pc = "naming", ![c].seen = name]
    BY DEF DrawNickname
  <1>4. PICK d : d = [k EXCEPT !.pc = "naming", !.seen = name]  OBVIOUS
  <1>5. accountCall' = [accountCall EXCEPT ![c] = d]  BY <1>1, <1>3, <1>4
  <1>6. "naming" \in AccountSteps  BY DEF AccountSteps
  <1>7. Continues(d, k, "naming") /\ d.user = k.user /\ d.seen = name
    BY <1>2, <1>3, <1>4, <1>6 DEF AccountCallTypes, Continues
  <1>8. Fits(d) /\ CallHolds(d)
    BY <1>2, <1>7
       DEF Fits, CallHolds, FoundOwner, FoundWallet, FoundName, LeftAlone, Named, Issuing,
           Issuance, Making, Busy, Continues
  <1> QED  BY <1>1, <1>2, <1>5, <1>8, ReadingKeeps

-----------------------------------------------------------------------------
(* Accounts: the steps that write. *)

\* What is left to show of a step that writes: what it does to the rows, and
\* that its own call holds on.
LEMMA WritingKeeps ==
    ASSUME AccountInv, NEW c \in AccountCalls, NEW d, accountCall[c].pc # "ok",
           accountCall' = [accountCall EXCEPT ![c] = d],
           Fits(d)', CallHolds(d)',
           \A x \in AccountCalls \ {c} : StepAllows(accountCall[x]),
           AccountTypeOK', Users \subseteq Users', BadgesAreBacked', ChosenNicknamesStay',
           \A u \in Users' \ raced' : ~users'[u].active =>
               /\ users'[u].nickname = NoName /\ ~users'[u].wallet
               /\ profiles'[u] = "none" /\ wallets'[u] = "none"
               /\ users'[u].verified =>
                    \/ u \in Users \ raced /\ ~users[u].active /\ users[u].verified
                    \/ d.op = "bind" /\ d.pc = "ok" /\ d.user = u
    PROVE  AccountInv'
  <1>1. /\ (accountCall \in [AccountCalls -> AccountCallTypes])' /\ CallsHold'
        /\ accountCall'[c] = d
        /\ \A x \in AccountCalls \ {c} : accountCall'[x] = accountCall[x]
    BY CallsHoldOn
  <1>2. ({1, 2} \subseteq Users)'  BY DEF AccountInv
  <1>3. DeletedStayBare'
    <2> SUFFICES ASSUME NEW u \in Users' \ raced', ~users'[u].active, users'[u].verified
                 PROVE  \E x \in AccountCalls : /\ accountCall'[x].op = "bind"
                                                /\ accountCall'[x].pc = "ok"
                                                /\ accountCall'[x].user = u
      BY DEF DeletedStayBare, UserOf
    <2>1. CASE d.op = "bind" /\ d.pc = "ok" /\ d.user = u  BY <1>1, <2>1
    <2>2. CASE u \in Users \ raced /\ ~users[u].active /\ users[u].verified
      <3>1. PICK x \in AccountCalls : /\ accountCall[x].op = "bind" /\ accountCall[x].pc = "ok"
                                      /\ accountCall[x].user = u
        BY <2>2 DEF AccountInv, DeletedStayBare, UserOf
      <3> QED  BY <1>1, <3>1
    <2> QED  BY <2>1, <2>2
  <1> QED  BY <1>1, <1>2, <1>3 DEF AccountInv

\* A field of a user is written.
LEMMA UserWritten ==
    ASSUME AccountInv, NEW u \in Users, NEW t \in UserTypes,
           users' = [users EXCEPT ![u] = t]
    PROVE  /\ users' \in Seq(UserTypes) /\ Len(users') = Len(users) /\ Users' = Users
           /\ users'[u] = t /\ \A v \in Users \ {u} : users'[v] = users[v]
  <1>1. users \in Seq(UserTypes)  BY DEF AccountInv, AccountTypeOK, UserTypes
  <1>2. users' \in Seq(UserTypes) /\ Len(users') = Len(users) /\ DOMAIN users' = DOMAIN users
    BY <1>1, ExceptSeq DEF Users
  <1>3. users'[u] = t /\ \A v \in Users \ {u} : users'[v] = users[v]
    BY <1>1 DEF Users
  <1> QED  BY <1>2, <1>3 DEF Users

LEMMA RowAppended ==
    ASSUME NEW n \in Nat, NEW S, NEW f \in [1..n -> S], NEW e \in S
    PROVE  /\ Append(f, e) \in [1..(n + 1) -> S] /\ Append(f, e)[n + 1] = e
           /\ \A u \in 1..n : Append(f, e)[u] = f[u]
  <1>1. f \in Seq(S) /\ Len(f) = n  OBVIOUS
  <1>2. /\ Append(f, e) \in Seq(S) /\ Len(Append(f, e)) = n + 1 /\ Append(f, e)[n + 1] = e
        /\ \A u \in 1..n : Append(f, e)[u] = f[u]
    BY <1>1, AppendProperties
  <1> QED  BY <1>2, LenProperties

LEMMA InsertUserKeeps ==
    ASSUME AccountInv, NEW c \in AccountCalls, InsertUser(c)
    PROVE  AccountInv'
  <1>1. PICK k : k = accountCall[c]  OBVIOUS
  <1>2. /\ k \in AccountCallTypes /\ Fits(k) /\ CallHolds(k) /\ k.pc = "creating"
        /\ k.op = "register" /\ UNCHANGED <<identityOf, raced>>
        /\ users' = Append(users, NewUser)
        /\ profiles' = Append(profiles, "none") /\ wallets' = Append(wallets, "none")
        /\ chosen' = Append(chosen, NoName)
    BY <1>1, CallOf DEF InsertUser, At
  <1>3. PICK n : n = Len(users)  OBVIOUS
  <1>4. n \in Nat /\ Users = 1..n /\ n + 1 \notin Users /\ n + 1 \in Nat
    BY <1>3, UsersNumbered
  <1>5. NewUser \in UserTypes /\ NewUser.active /\ ~NewUser.wallet
    BY DEF NewUser, UserTypes
  <1>6. /\ users' \in Seq(UserTypes) /\ Len(users') = n + 1
        /\ Users' = Users \cup {n + 1} /\ users'[n + 1] = NewUser
        /\ \A u \in Users : users'[u] = users[u]
    <2>1. users \in Seq(UserTypes)  BY DEF AccountInv, AccountTypeOK, UserTypes
    <2>2. users' \in Seq(UserTypes) /\ Len(users') = n + 1 /\ users'[n + 1] = NewUser
          /\ \A u \in 1..n : users'[u] = users[u]
      BY <1>2, <1>3, <1>5, <2>1, AppendProperties
    <2>3. Users' = 1..(n + 1)  BY <2>2, LenProperties DEF Users
    <2> QED  BY <1>4, <2>2, <2>3
  <1>7. Users' = 1..(n + 1)  BY <1>4, <1>6
  <1>8. /\ profiles' \in [Users' -> {"none", "plain", "verified"}] /\ profiles'[n + 1] = "none"
        /\ \A u \in Users : profiles'[u] = profiles[u]
    <2>0. n \in Nat  BY <1>4
    <2>1. ASSUME NEW S, profiles \in [1..n -> S], "none" \in S
          PROVE  /\ Append(profiles, "none") \in [1..(n + 1) -> S]
                 /\ Append(profiles, "none")[n + 1] = "none"
                 /\ \A u \in 1..n : Append(profiles, "none")[u] = profiles[u]
      <3>1. PICK f \in [1..n -> S] : f = profiles  BY <2>1
      <3>2. PICK e \in S : e = "none"  BY <2>1
      <3>3. /\ Append(f, e) \in [1..(n + 1) -> S] /\ Append(f, e)[n + 1] = e
            /\ \A u \in 1..n : Append(f, e)[u] = f[u]
        BY <2>0, RowAppended
      <3> QED  BY <3>1, <3>2, <3>3
    <2>2. profiles \in [1..n -> {"none", "plain", "verified"}]  BY <1>4 DEF AccountInv, AccountTypeOK
    <2>3. "none" \in {"none", "plain", "verified"}  OBVIOUS
    <2>4. /\ Append(profiles, "none") \in [1..(n + 1) -> {"none", "plain", "verified"}]
          /\ Append(profiles, "none")[n + 1] = "none"
          /\ \A u \in 1..n : Append(profiles, "none")[u] = profiles[u]
      BY <2>1, <2>2, <2>3, Zenon
    <2>5. profiles' = Append(profiles, "none")  BY <1>2
    <2> QED  BY <1>4, <1>7, <2>4, <2>5
  <1>9. /\ wallets' \in [Users' -> {"none", "registered", "issued"}] /\ wallets'[n + 1] = "none"
        /\ \A u \in Users : wallets'[u] = wallets[u]
    <2>0. n \in Nat  BY <1>4
    <2>1. ASSUME NEW S, wallets \in [1..n -> S], "none" \in S
          PROVE  /\ Append(wallets, "none") \in [1..(n + 1) -> S]
                 /\ Append(wallets, "none")[n + 1] = "none"
                 /\ \A u \in 1..n : Append(wallets, "none")[u] = wallets[u]
      <3>1. PICK f \in [1..n -> S] : f = wallets  BY <2>1
      <3>2. PICK e \in S : e = "none"  BY <2>1
      <3>3. /\ Append(f, e) \in [1..(n + 1) -> S] /\ Append(f, e)[n + 1] = e
            /\ \A u \in 1..n : Append(f, e)[u] = f[u]
        BY <2>0, RowAppended
      <3> QED  BY <3>1, <3>2, <3>3
    <2>2. wallets \in [1..n -> {"none", "registered", "issued"}]  BY <1>4 DEF AccountInv, AccountTypeOK
    <2>3. "none" \in {"none", "registered", "issued"}  OBVIOUS
    <2>4. /\ Append(wallets, "none") \in [1..(n + 1) -> {"none", "registered", "issued"}]
          /\ Append(wallets, "none")[n + 1] = "none"
          /\ \A u \in 1..n : Append(wallets, "none")[u] = wallets[u]
      BY <2>1, <2>2, <2>3, Zenon
    <2>5. wallets' = Append(wallets, "none")  BY <1>2
    <2> QED  BY <1>4, <1>7, <2>4, <2>5
  <1>10. /\ chosen' \in [Users' -> Nicknames \cup {NoName}] /\ chosen'[n + 1] = NoName
        /\ \A u \in Users : chosen'[u] = chosen[u]
    <2>0. n \in Nat  BY <1>4
    <2>1. ASSUME NEW S, chosen \in [1..n -> S], NoName \in S
          PROVE  /\ Append(chosen, NoName) \in [1..(n + 1) -> S]
                 /\ Append(chosen, NoName)[n + 1] = NoName
                 /\ \A u \in 1..n : Append(chosen, NoName)[u] = chosen[u]
      <3>1. PICK f \in [1..n -> S] : f = chosen  BY <2>1
      <3>2. PICK e \in S : e = NoName  BY <2>1
      <3>3. /\ Append(f, e) \in [1..(n + 1) -> S] /\ Append(f, e)[n + 1] = e
            /\ \A u \in 1..n : Append(f, e)[u] = f[u]
        BY <2>0, RowAppended
      <3> QED  BY <3>1, <3>2, <3>3
    <2>2. chosen \in [1..n -> Nicknames \cup {NoName}]  BY <1>4 DEF AccountInv, AccountTypeOK
    <2>3. NoName \in Nicknames \cup {NoName}  OBVIOUS
    <2>4. /\ Append(chosen, NoName) \in [1..(n + 1) -> Nicknames \cup {NoName}]
          /\ Append(chosen, NoName)[n + 1] = NoName
          /\ \A u \in 1..n : Append(chosen, NoName)[u] = chosen[u]
      BY <2>1, <2>2, <2>3, Zenon
    <2>5. chosen' = Append(chosen, NoName)  BY <1>2
    <2> QED  BY <1>4, <1>7, <2>4, <2>5
  <1>11. AccountTypeOK'
    <2>1. identityOf' \in [Persons -> 0..(n + 1)]
      BY <1>2, <1>3, <1>4, UsersNumbered
    <2>2. (raced \subseteq Users)'  BY <1>2, <1>6 DEF AccountInv, AccountTypeOK
    <2> QED  BY <1>6, <1>8, <1>9, <1>10, <2>1, <2>2 DEF AccountTypeOK, UserTypes
  <1>12. BadgesAreBacked'
    <2> SUFFICES ASSUME NEW u \in Users'
                 PROVE  /\ profiles'[u] = "verified" => /\ wallets'[u] = "issued"
                                                        /\ (IdentitiesOf(u) # {})'
                        /\ users'[u].wallet => wallets'[u] # "none" \/ u \in raced'
      BY DEF BadgesAreBacked
    <2>1. CASE u = n + 1  BY <1>5, <1>6, <1>8, <2>1
    <2>2. CASE u \in Users
      <3>1. IdentitiesOf(u) # {} => (IdentitiesOf(u) # {})'  BY <1>2 DEF IdentitiesOf
      <3>2. /\ profiles[u] = "verified" => wallets[u] = "issued" /\ IdentitiesOf(u) # {}
            /\ users[u].wallet => wallets[u] # "none" \/ u \in raced
        BY <2>2 DEF AccountInv, BadgesAreBacked
      <3>3. profiles'[u] = profiles[u] /\ wallets'[u] = wallets[u] /\ users'[u] = users[u]
        BY <1>6, <1>8, <1>9, <2>2
      <3> QED  BY <1>2, <3>1, <3>2, <3>3
    <2> QED  BY <1>6, <2>1, <2>2
  <1>13. ChosenNicknamesStay'
    <2> SUFFICES ASSUME NEW u \in Users', users'[u].active, chosen'[u] # NoName, u \notin raced'
                 PROVE  users'[u].nickname = chosen'[u]
      BY DEF ChosenNicknamesStay
    <2>1. u \in Users  BY <1>6, <1>10
    <2>2. users'[u] = users[u] /\ chosen'[u] = chosen[u] /\ u \notin raced
      BY <1>2, <1>6, <1>10, <2>1
    <2> QED  BY <2>1, <2>2 DEF AccountInv, ChosenNicknamesStay
  <1>14. ASSUME NEW x \in AccountCalls
         PROVE  StepAllows(accountCall[x])
    <2>1. PICK q : q = accountCall[x]  OBVIOUS
    <2>2. Fits(q)  BY <2>1, CallOf
    <2>3. q.op # "register" => q.user \in Users  BY <2>2 DEF Fits
    <2>4. users'[n + 1].active  BY <1>5, <1>6
    <2>5. \A u \in Users : /\ users'[u] = users[u] /\ wallets'[u] = wallets[u]
                           /\ profiles'[u] = profiles[u] /\ chosen'[u] = chosen[u]
      BY <1>6, <1>8, <1>9, <1>10
    <2>6. StepAllows(q)  BY <1>2, <1>6, <2>3, <2>4, <2>5 DEF StepAllows
    <2> QED  BY <2>1, <2>6
  <1>15. PICK d : d = [k EXCEPT !.pc = "profiling", !.user = n + 1]  OBVIOUS
  <1>16. accountCall' = [accountCall EXCEPT ![c] = d]
    BY <1>1, <1>3, <1>15 DEF InsertUser
  <1>17. Continues(d, k, "profiling") /\ d.user = n + 1
    <2>1. "profiling" \in AccountSteps  BY DEF AccountSteps
    <2> QED  BY <1>2, <1>4, <1>15, <2>1 DEF AccountCallTypes, Continues
  <1>18. Fits(d)' /\ CallHolds(d)'
    <2>1. n + 1 \in Users' \ {1, 2}  BY <1>4, <1>6 DEF AccountInv
    <2> QED
      BY <1>2, <1>5, <1>6, <1>17, <2>1
         DEF Fits, CallHolds, FoundOwner, FoundWallet, FoundName, LeftAlone, Named, Issuing,
             Issuance, Making, Busy, Continues
  <1>19. \A u \in Users' \ raced' : ~users'[u].active =>
             /\ users'[u].nickname = NoName /\ ~users'[u].wallet
             /\ profiles'[u] = "none" /\ wallets'[u] = "none"
             /\ users'[u].verified => u \in Users \ raced /\ ~users[u].active /\ users[u].verified
    <2> SUFFICES ASSUME NEW u \in Users' \ raced', ~users'[u].active
                 PROVE  /\ users'[u].nickname = NoName /\ ~users'[u].wallet
                        /\ profiles'[u] = "none" /\ wallets'[u] = "none"
                        /\ users'[u].verified =>
                             u \in Users \ raced /\ ~users[u].active /\ users[u].verified
      OBVIOUS
    <2>1. u \in Users \ raced /\ users'[u] = users[u]  BY <1>2, <1>5, <1>6
    <2>2. wallets'[u] = wallets[u] /\ profiles'[u] = profiles[u]  BY <1>8, <1>9, <2>1
    <2> QED  BY <2>1, <2>2 DEF AccountInv, DeletedStayBare
  <1>20. accountCall[c].pc # "ok"  BY <1>1, <1>2
  <1> QED
    BY <1>6, <1>11, <1>12, <1>13, <1>14, <1>16, <1>18, <1>19, <1>20, WritingKeeps

LEMMA InsertProfileKeeps ==
    ASSUME AccountInv, NEW c \in AccountCalls, InsertProfile(c)
    PROVE  AccountInv'
  <1>1. PICK k : k = accountCall[c]  OBVIOUS
  <1>2. PICK u : u = k.user  OBVIOUS
  <1>3. /\ k \in AccountCallTypes /\ Fits(k) /\ CallHolds(k) /\ k.pc = "profiling"
        /\ k.op = "register" /\ UNCHANGED <<users, identityOf, wallets, chosen, raced>>
        /\ profiles' = [profiles EXCEPT ![u] = "plain"] /\ Proceed(c, "identifying")
    BY <1>1, <1>2, CallOf DEF InsertProfile, At, UserOf
  <1>4. u \in Users \ {1, 2} /\ (u \in raced \/ users[u].active)
    BY <1>2, <1>3 DEF Fits, Making, CallHolds, LeftAlone, Busy
  <1>5. PICK d : d = [k EXCEPT !.pc = "identifying"]  OBVIOUS
  <1>6. accountCall' = [accountCall EXCEPT ![c] = d]  BY <1>1, <1>3, <1>5, CallOf
  <1>7. Continues(d, k, "identifying") /\ d.user = u /\ d.seen = k.seen
    BY <1>2, <1>3, <1>5, Moved DEF AccountSteps
  <1>8. /\ profiles' \in [Users -> {"none", "plain", "verified"}] /\ profiles'[u] = "plain"
        /\ \A v \in Users \ {u} : profiles'[v] = profiles[v]
    BY <1>3, <1>4 DEF AccountInv, AccountTypeOK
  <1>9. AccountTypeOK' /\ Users' = Users
    BY <1>3, <1>8 DEF AccountInv, AccountTypeOK, Users
  <1>10. BadgesAreBacked' /\ ChosenNicknamesStay'
    BY <1>3, <1>8, <1>9 DEF AccountInv, BadgesAreBacked, ChosenNicknamesStay, IdentitiesOf
  <1>11. ASSUME NEW x \in AccountCalls
         PROVE  StepAllows(accountCall[x])
    BY <1>3, <1>4, <1>8, <1>9, CallOf DEF StepAllows, Fits
  <1>12. Fits(d)' /\ CallHolds(d)'
    BY <1>3, <1>4, <1>7, <1>9
       DEF Fits, CallHolds, FoundOwner, FoundWallet, FoundName, LeftAlone, Named, Issuing,
           Issuance, Making, Busy, Continues
  <1>13. \A v \in Users' \ raced' : ~users'[v].active =>
             /\ users'[v].nickname = NoName /\ ~users'[v].wallet
             /\ profiles'[v] = "none" /\ wallets'[v] = "none"
             /\ users'[v].verified => v \in Users \ raced /\ ~users[v].active /\ users[v].verified
    BY <1>3, <1>4, <1>8, <1>9 DEF AccountInv, DeletedStayBare
  <1>14. accountCall[c].pc # "ok"  BY <1>1, <1>3
  <1> QED
    BY <1>6, <1>9, <1>10, <1>11, <1>12, <1>13, <1>14, WritingKeeps

\* Whoever claims an identity, for a user it makes or for its viewer, gets it
\* while nobody has it.
LEMMA ClaimKeeps ==
    ASSUME AccountInv, NEW c \in AccountCalls, NEW k, k = accountCall[c], NEW pc,
           \/ k.op = "register" /\ k.pc = "identifying" /\ pc = "ok"
           \/ k.op = "bind" /\ k.pc = "binding" /\ pc = "upgrading",
           MayBelongTo(k.arg, k.user),
           identityOf' = [identityOf EXCEPT ![k.arg] = k.user], Proceed(c, pc),
           UNCHANGED <<users, profiles, wallets, chosen, raced>>
    PROVE  AccountInv'
  <1>1. PICK u : u = k.user  OBVIOUS
  <1>2. /\ k \in AccountCallTypes /\ Fits(k) /\ CallHolds(k) /\ k.arg \in Persons /\ u \in Users
    BY <1>1, CallOf DEF Fits, Making
  <1>3. PICK d : d = [k EXCEPT !.pc = pc]  OBVIOUS
  <1>4. accountCall' = [accountCall EXCEPT ![c] = d]  BY <1>3, CallOf
  <1>5. Continues(d, k, pc) /\ d.user = u /\ d.seen = k.seen
    <2>1. pc \in AccountSteps  BY DEF AccountSteps
    <2> QED  BY <1>1, <1>2, <1>3, <2>1, Moved
  <1>6. Users' = Users /\ u \in 0..Len(users)  BY <1>2, UsersNumbered DEF Users
  <1>7. /\ identityOf' \in [Persons -> 0..Len(users)] /\ identityOf'[k.arg] = u
        /\ \A p \in Persons : identityOf[p] # 0 => identityOf'[p] = identityOf[p]
    BY <1>1, <1>2, <1>6, UsersNumbered DEF MayBelongTo
  <1>8. AccountTypeOK'
    BY <1>6, <1>7 DEF AccountInv, AccountTypeOK, Users
  <1>9. \A v \in Users : IdentitiesOf(v) # {} => (IdentitiesOf(v) # {})'
    BY <1>7, UsersNumbered DEF IdentitiesOf
  <1>10. BadgesAreBacked' /\ ChosenNicknamesStay'
    BY <1>6, <1>9 DEF AccountInv, BadgesAreBacked, ChosenNicknamesStay
  <1>11. \A x \in AccountCalls : StepAllows(accountCall[x])
    BY <1>6, <1>7 DEF StepAllows
  <1>12. Fits(d)'
    BY <1>1, <1>2, <1>5, <1>6 DEF Fits, Making, Continues
  <1>13. CallHolds(d)'
    BY <1>1, <1>2, <1>5, <1>6, <1>7
       DEF CallHolds, FoundOwner, FoundWallet, FoundName, LeftAlone, Named, Issuing, Issuance,
           Busy, Continues
  <1>14. \A v \in Users' \ raced' : ~users'[v].active =>
             /\ users'[v].nickname = NoName /\ ~users'[v].wallet
             /\ profiles'[v] = "none" /\ wallets'[v] = "none"
             /\ users'[v].verified => v \in Users \ raced /\ ~users[v].active /\ users[v].verified
    BY <1>6 DEF AccountInv, DeletedStayBare
  <1> QED
    BY <1>4, <1>6, <1>8, <1>10, <1>11, <1>12, <1>13, <1>14, WritingKeeps

LEMMA InsertIdentityKeeps ==
    ASSUME AccountInv, NEW c \in AccountCalls, InsertIdentity(c)
    PROVE  AccountInv'
  <1>1. PICK k : k = accountCall[c]  OBVIOUS
  <1>2. /\ k \in AccountCallTypes /\ Fits(k) /\ CallHolds(k) /\ k.pc = "identifying"
        /\ k.op = "register" /\ k.pc # "ok" /\ UserOf(c) = k.user /\ Person(c) = k.arg
        /\ UNCHANGED <<users, profiles, wallets, chosen, raced>>
    BY <1>1, CallOf DEF InsertIdentity, At, UserOf, Person
  <1>3. CASE MayBelongTo(k.arg, k.user)
    <2>1. identityOf' = [identityOf EXCEPT ![k.arg] = k.user] /\ Proceed(c, "ok")
      BY <1>2, <1>3 DEF InsertIdentity
    <2> QED  BY <1>1, <1>2, <1>3, <2>1, ClaimKeeps
  <1>4. CASE ~MayBelongTo(k.arg, k.user)
    <2>1. Proceed(c, "failed") /\ UNCHANGED accountRows
      BY <1>2, <1>4 DEF InsertIdentity, accountRows
    <2>2. MayMove(k, "failed")
      BY <1>2
         DEF MayMove, Fits, CallHolds, FoundOwner, FoundWallet, FoundName, LeftAlone, Named,
             Making, Busy, Continues
    <2>3. "failed" \in AccountSteps  BY DEF AccountSteps
    <2> QED  BY <1>1, <1>2, <2>1, <2>2, <2>3, ReadingMoves
  <1> QED  BY <1>3, <1>4

LEMMA InsertBindingKeeps ==
    ASSUME AccountInv, NEW c \in AccountCalls, InsertBinding(c)
    PROVE  AccountInv'
  <1>1. PICK k : k = accountCall[c]  OBVIOUS
  <1>2. /\ k \in AccountCallTypes /\ Fits(k) /\ CallHolds(k) /\ k.pc = "binding"
        /\ k.op = "bind" /\ k.pc # "ok" /\ UserOf(c) = k.user /\ Person(c) = k.arg
        /\ UNCHANGED <<users, profiles, wallets, chosen, raced>>
    BY <1>1, CallOf DEF InsertBinding, At, UserOf, Person
  <1>3. CASE MayBelongTo(k.arg, k.user)
    <2>1. identityOf' = [identityOf EXCEPT ![k.arg] = k.user] /\ Proceed(c, "upgrading")
      BY <1>2, <1>3 DEF InsertBinding
    <2> QED  BY <1>1, <1>2, <1>3, <2>1, ClaimKeeps
  <1>4. CASE ~MayBelongTo(k.arg, k.user)
    <2>1. Proceed(c, "conflict") /\ UNCHANGED accountRows
      BY <1>2, <1>4 DEF InsertBinding, accountRows
    <2>2. MayMove(k, "conflict")
      BY <1>2
         DEF MayMove, Fits, CallHolds, FoundOwner, FoundWallet, FoundName, LeftAlone, Named,
             Making, Busy, Continues
    <2>3. "conflict" \in AccountSteps  BY DEF AccountSteps
    <2> QED  BY <1>1, <1>2, <2>1, <2>2, <2>3, ReadingMoves
  <1> QED  BY <1>3, <1>4

\* The row of a user is replaced, the other rows stay.
LEMMA UserRowTyped ==
    ASSUME AccountInv, NEW u \in Users, NEW t \in UserTypes,
           users' = [users EXCEPT ![u] = t],
           UNCHANGED <<identityOf, profiles, wallets>>,
           chosen' \in [Users -> Nicknames \cup {NoName}], raced' \subseteq Users
    PROVE  AccountTypeOK' /\ Users' = Users
  <1>1. users' \in Seq(UserTypes) /\ Len(users') = Len(users) /\ Users' = Users
    BY UserWritten
  <1> QED  BY <1>1 DEF AccountInv, AccountTypeOK, UserTypes

LEMMA UpgradeVerificationKeeps ==
    ASSUME AccountInv, NEW c \in AccountCalls, UpgradeVerification(c)
    PROVE  AccountInv'
  <1>1. PICK k : k = accountCall[c]  OBVIOUS
  <1>2. PICK u : u = k.user  OBVIOUS
  <1>3. /\ k \in AccountCallTypes /\ Fits(k) /\ CallHolds(k) /\ k.pc = "upgrading"
        /\ k.op = "bind" /\ Proceed(c, "ok")
        /\ UNCHANGED <<identityOf, profiles, wallets, chosen, raced>>
    BY <1>1, CallOf DEF UpgradeVerification, At
  <1>4. u \in Users /\ identityOf[k.arg] = u
    BY <1>2, <1>3 DEF CallHolds, FoundOwner
  <1>5. PICK t : t = [users[u] EXCEPT !.verified = @ \/ k.due]  OBVIOUS
  <1>6. users' = [users EXCEPT ![u] = t]
    BY <1>1, <1>2, <1>5 DEF UpgradeVerification, UserOf
  <1>7. /\ t \in UserTypes /\ t.active = users[u].active /\ t.wallet = users[u].wallet
        /\ t.nickname = users[u].nickname
    <2>1. users[u] \in UserTypes /\ k.due \in BOOLEAN /\ users[u].verified \in BOOLEAN
      BY <1>3, <1>4, UsersNumbered, AccountCallParts
    <2>2. (users[u].verified \/ k.due) \in BOOLEAN  OBVIOUS
    <2> QED  BY <1>5, <2>1, <2>2 DEF UserTypes
  <1>8. /\ Users' = Users /\ AccountTypeOK'
        /\ users'[u] = t /\ \A v \in Users \ {u} : users'[v] = users[v]
    <2>1. chosen' \in [Users -> Nicknames \cup {NoName}] /\ raced' \subseteq Users
      BY <1>3 DEF AccountInv, AccountTypeOK
    <2> QED  BY <1>3, <1>4, <1>6, <1>7, <2>1, UserWritten, UserRowTyped
  <1>9. BadgesAreBacked' /\ ChosenNicknamesStay'
    BY <1>3, <1>7, <1>8 DEF AccountInv, BadgesAreBacked, ChosenNicknamesStay, IdentitiesOf
  <1>10. ASSUME NEW x \in AccountCalls
         PROVE  StepAllows(accountCall[x])
    <2>1. \A v \in Users : users'[v].active = users[v].active  BY <1>7, <1>8
    <2> QED  BY <1>3, <1>8, <2>1, CallOf DEF StepAllows, Fits
  <1>11. PICK d : d = [k EXCEPT !.pc = "ok"]  OBVIOUS
  <1>12. accountCall' = [accountCall EXCEPT ![c] = d]  BY <1>1, <1>3, <1>11, CallOf
  <1>13. Continues(d, k, "ok") /\ d.user = u /\ d.seen = k.seen
    BY <1>2, <1>3, <1>11, Moved DEF AccountSteps
  <1>14. Fits(d)' /\ CallHolds(d)'
    BY <1>3, <1>4, <1>8, <1>13
       DEF Fits, CallHolds, FoundOwner, FoundWallet, FoundName, LeftAlone, Named, Issuing,
           Issuance, Making, Busy, Continues
  <1>15. \A v \in Users' \ raced' : ~users'[v].active =>
             /\ users'[v].nickname = NoName /\ ~users'[v].wallet
             /\ profiles'[v] = "none" /\ wallets'[v] = "none"
             /\ users'[v].verified =>
                  \/ v \in Users \ raced /\ ~users[v].active /\ users[v].verified
                  \/ d.op = "bind" /\ d.pc = "ok" /\ d.user = v
    BY <1>3, <1>7, <1>8, <1>13 DEF AccountInv, DeletedStayBare, Continues
  <1>16. accountCall[c].pc # "ok"  BY <1>1, <1>3
  <1> QED
    BY <1>8, <1>9, <1>10, <1>12, <1>14, <1>15, <1>16, WritingKeeps

\* A generated nickname is stored for a user who has not chosen one.
LEMMA StoreGeneratedKeeps ==
    ASSUME AccountInv, NEW c \in AccountCalls, StoreGenerated(c)
    PROVE  AccountInv'
  <1>1. PICK k : k = accountCall[c]  OBVIOUS
  <1>2. PICK u : u = k.user  OBVIOUS
  <1>3. /\ k \in AccountCallTypes /\ Fits(k) /\ CallHolds(k) /\ k.pc = "naming"
        /\ UNCHANGED <<identityOf, profiles, wallets, chosen, raced>>
    BY <1>1, CallOf DEF StoreGenerated
  <1>4. /\ k.op \in {"profile", "home"} /\ u \in Users /\ k.seen \in Nicknames
        /\ Unchosen(u) /\ (u \in raced \/ users[u].active)
    BY <1>2, <1>3 DEF Fits, CallHolds, FoundName, LeftAlone, Busy
  <1>5. accountCall[c].pc # "ok" /\ k.pc # "ok"  BY <1>1, <1>3
  <1>6. CASE IsFree(k.seen, u)
    <2>1. PICK t : t = [users[u] EXCEPT !.nickname = k.seen]  OBVIOUS
    <2>2. users' = [users EXCEPT ![u] = t] /\ Proceed(c, "ok")
      BY <1>1, <1>2, <1>6, <2>1 DEF StoreGenerated, UserOf
    <2>3. /\ t \in UserTypes /\ t.active = users[u].active /\ t.wallet = users[u].wallet
          /\ t.verified = users[u].verified
      BY <1>4, <2>1, UsersNumbered DEF UserTypes
    <2>4. /\ Users' = Users /\ AccountTypeOK'
          /\ users'[u] = t /\ \A v \in Users \ {u} : users'[v] = users[v]
      <3>1. chosen' \in [Users -> Nicknames \cup {NoName}] /\ raced' \subseteq Users
        BY <1>3 DEF AccountInv, AccountTypeOK
      <3> QED  BY <1>3, <1>4, <2>2, <2>3, <3>1, UserWritten, UserRowTyped
    <2>5. BadgesAreBacked'
      BY <1>3, <2>3, <2>4 DEF AccountInv, BadgesAreBacked, IdentitiesOf
    <2>6. ChosenNicknamesStay'
      BY <1>3, <1>4, <2>3, <2>4 DEF AccountInv, ChosenNicknamesStay, Unchosen
    <2>7. ASSUME NEW x \in AccountCalls
          PROVE  StepAllows(accountCall[x])
      <3>1. \A v \in Users : users'[v].active = users[v].active  BY <2>3, <2>4
      <3> QED  BY <1>3, <2>4, <3>1, CallOf DEF StepAllows, Fits
    <2>8. PICK d : d = [k EXCEPT !.pc = "ok"]  OBVIOUS
    <2>9. accountCall' = [accountCall EXCEPT ![c] = d]  BY <1>1, <2>2, <2>8, CallOf
    <2>10. Continues(d, k, "ok") /\ d.user = u /\ d.seen = k.seen
      BY <1>2, <1>3, <2>8, Moved DEF AccountSteps
    <2>11. Fits(d)' /\ CallHolds(d)'
      BY <1>2, <1>3, <1>4, <2>4, <2>10
         DEF Fits, CallHolds, FoundOwner, FoundWallet, FoundName, LeftAlone, Named, Issuing,
             Issuance, Making, Busy, Continues
    <2>12. \A v \in Users' \ raced' : ~users'[v].active =>
               /\ users'[v].nickname = NoName /\ ~users'[v].wallet
               /\ profiles'[v] = "none" /\ wallets'[v] = "none"
               /\ users'[v].verified =>
                    v \in Users \ raced /\ ~users[v].active /\ users[v].verified
      BY <1>3, <1>4, <2>3, <2>4 DEF AccountInv, DeletedStayBare
    <2> QED
      BY <1>5, <2>4, <2>5, <2>6, <2>7, <2>9, <2>11, <2>12, WritingKeeps
  <1>7. CASE ~IsFree(k.seen, u) /\ k.again
    <2>1. Proceed(c, "failed") /\ UNCHANGED accountRows
      BY <1>1, <1>2, <1>3, <1>7 DEF StoreGenerated, accountRows, UserOf
    <2>2. MayMove(k, "failed")
      BY <1>3, <1>4
         DEF MayMove, Fits, CallHolds, FoundOwner, FoundWallet, FoundName, LeftAlone, Named,
             Making, Busy, Continues
    <2>3. "failed" \in AccountSteps  BY DEF AccountSteps
    <2> QED  BY <1>1, <1>5, <2>1, <2>2, <2>3, ReadingMoves
  <1>8. CASE ~IsFree(k.seen, u) /\ ~k.again
    <2>1. PICK d : d = [k EXCEPT !.pc = "drawing", !.again = TRUE]  OBVIOUS
    <2>2. accountCall' = [accountCall EXCEPT ![c] = d] /\ UNCHANGED accountRows
      <3>1. accountCall' = [accountCall EXCEPT ![c].pc = "drawing", ![c].again = TRUE]
        BY <1>1, <1>2, <1>8 DEF StoreGenerated, UserOf
      <3>2. UNCHANGED accountRows
        BY <1>1, <1>2, <1>3, <1>8 DEF StoreGenerated, UserOf, accountRows
      <3> QED  BY <1>1, <2>1, <3>1, <3>2
    <2>3. Continues(d, k, "drawing") /\ d.user = u /\ d.seen = k.seen
      <3>1. "drawing" \in AccountSteps  BY DEF AccountSteps
      <3> QED  BY <1>2, <1>3, <2>1, <3>1 DEF AccountCallTypes, Continues
    <2>4. Fits(d) /\ CallHolds(d)
      BY <1>2, <1>3, <1>4, <2>3
         DEF Fits, CallHolds, FoundOwner, FoundWallet, FoundName, LeftAlone, Named, Issuing,
             Issuance, Making, Busy, Continues
    <2> QED  BY <1>1, <1>5, <2>2, <2>4, ReadingKeeps
  <1> QED  BY <1>6, <1>7, <1>8

\* A nickname that is chosen, under a request that reads the profile or not.
LEMMA StoreChosenKeeps ==
    ASSUME AccountInv, NEW c \in AccountCalls, StoreChosen(c)
    PROVE  AccountInv'
  <1>1. PICK k : k = accountCall[c]  OBVIOUS
  <1>2. PICK u : u = k.user  OBVIOUS
  <1>3. /\ k \in AccountCallTypes /\ Fits(k) /\ CallHolds(k) /\ k.pc = "choosing"
        /\ k.op = "nickname" /\ UNCHANGED <<identityOf, profiles, wallets>>
    BY <1>1, CallOf DEF StoreChosen, At
  <1>4. /\ u \in Users /\ k.arg \in Nicknames /\ (u \in raced \/ users[u].active)
    BY <1>2, <1>3 DEF Fits, CallHolds, LeftAlone, Busy
  <1>5. accountCall[c].pc # "ok" /\ k.pc # "ok"  BY <1>1, <1>3
  <1>6. CASE IsFree(k.arg, u)
    <2>1. PICK t : t = [users[u] EXCEPT !.nickname = k.arg]  OBVIOUS
    <2>2. /\ users' = [users EXCEPT ![u] = t] /\ Proceed(c, "ok")
          /\ chosen' = [chosen EXCEPT ![u] = k.arg]
          /\ raced' = IF \E d \in AccountCalls : WantsName(d, u) THEN raced \cup {u} ELSE raced
      BY <1>1, <1>2, <1>6, <2>1 DEF StoreChosen, UserOf
    <2>3. /\ t \in UserTypes /\ t.active = users[u].active /\ t.wallet = users[u].wallet
          /\ t.verified = users[u].verified /\ t.nickname = k.arg
      BY <1>4, <2>1, UsersNumbered DEF UserTypes
    <2>4. /\ chosen' \in [Users -> Nicknames \cup {NoName}] /\ chosen'[u] = k.arg
          /\ \A v \in Users \ {u} : chosen'[v] = chosen[v]
      BY <1>4, <2>2 DEF AccountInv, AccountTypeOK
    <2>5. raced' \subseteq Users /\ raced \subseteq raced' /\ raced' \subseteq raced \cup {u}
      BY <1>4, <2>2 DEF AccountInv, AccountTypeOK
    <2>6. /\ Users' = Users /\ AccountTypeOK'
          /\ users'[u] = t /\ \A v \in Users \ {u} : users'[v] = users[v]
      BY <1>3, <1>4, <2>2, <2>3, <2>4, <2>5, UserWritten, UserRowTyped
    <2>7. BadgesAreBacked'
      BY <1>3, <2>3, <2>5, <2>6 DEF AccountInv, BadgesAreBacked, IdentitiesOf
    <2>8. ChosenNicknamesStay'
      BY <1>4, <2>3, <2>4, <2>5, <2>6 DEF AccountInv, ChosenNicknamesStay
    <2>9. ASSUME NEW x \in AccountCalls
          PROVE  StepAllows(accountCall[x])
      <3>1. PICK q : q = accountCall[x]  OBVIOUS
      <3>2. q.op # "register" => q.user \in Users  BY <3>1, CallOf DEF Fits
      <3>3. Busy(q) /\ q.op \in {"profile", "home"} /\ q.user = u => u \in raced'
        BY <2>2, <3>1 DEF WantsName, UnderWay, UserOf, Busy
      <3>4. \A v \in Users : users'[v].active = users[v].active  BY <2>3, <2>6
      <3>5. StepAllows(q)
        BY <1>3, <2>4, <2>5, <2>6, <3>2, <3>3, <3>4 DEF StepAllows
      <3> QED  BY <3>1, <3>5
    <2>10. PICK d : d = [k EXCEPT !.pc = "ok"]  OBVIOUS
    <2>11. accountCall' = [accountCall EXCEPT ![c] = d]  BY <1>1, <2>2, <2>10, CallOf
    <2>12. Continues(d, k, "ok") /\ d.user = u /\ d.seen = k.seen
      BY <1>2, <1>3, <2>10, Moved DEF AccountSteps
    <2>13. Fits(d)' /\ CallHolds(d)'
      BY <1>2, <1>3, <1>4, <2>6, <2>12
         DEF Fits, CallHolds, FoundOwner, FoundWallet, FoundName, LeftAlone, Named, Issuing,
             Issuance, Making, Busy, Continues
    <2>14. \A v \in Users' \ raced' : ~users'[v].active =>
               /\ users'[v].nickname = NoName /\ ~users'[v].wallet
               /\ profiles'[v] = "none" /\ wallets'[v] = "none"
               /\ users'[v].verified =>
                    v \in Users \ raced /\ ~users[v].active /\ users[v].verified
      BY <1>3, <1>4, <2>3, <2>5, <2>6 DEF AccountInv, DeletedStayBare
    <2> QED
      BY <1>5, <2>6, <2>7, <2>8, <2>9, <2>11, <2>13, <2>14, WritingKeeps
  <1>7. CASE ~IsFree(k.arg, u)
    <2>1. Proceed(c, "failed") /\ UNCHANGED accountRows
      BY <1>1, <1>2, <1>3, <1>7 DEF StoreChosen, accountRows, UserOf
    <2>2. MayMove(k, "failed")
      BY <1>3, <1>4
         DEF MayMove, Fits, CallHolds, FoundOwner, FoundWallet, FoundName, LeftAlone, Named,
             Making, Busy, Continues
    <2>3. "failed" \in AccountSteps  BY DEF AccountSteps
    <2> QED  BY <1>1, <1>5, <2>1, <2>2, <2>3, ReadingMoves
  <1> QED  BY <1>6, <1>7

LEMMA LinkWalletKeeps ==
    ASSUME AccountInv, NEW c \in AccountCalls, LinkWallet(c)
    PROVE  AccountInv'
  <1>1. PICK k : k = accountCall[c]  OBVIOUS
  <1>2. PICK u : u = k.user  OBVIOUS
  <1>3. PICK pc : pc = IF k.pc = "linking" THEN "profile" ELSE "badging"  OBVIOUS
  <1>4. /\ k \in AccountCallTypes /\ Fits(k) /\ CallHolds(k) /\ k.op = "wallet"
        /\ k.pc \in {"linking", "linkingIssued"} /\ Proceed(c, pc)
        /\ UNCHANGED <<identityOf, profiles, wallets, chosen, raced>>
    BY <1>1, <1>3, CallOf DEF LinkWallet, At
  <1>5. /\ u \in Users /\ (u \in raced \/ users[u].active)
        /\ wallets[u] # "none" \/ u \in raced
    BY <1>2, <1>4 DEF Fits, CallHolds, LeftAlone, FoundWallet, Issuing, Busy
  <1>6. PICK t : t = [users[u] EXCEPT !.wallet = TRUE]  OBVIOUS
  <1>7. users' = [users EXCEPT ![u] = t]
    BY <1>1, <1>2, <1>6 DEF LinkWallet, UserOf
  <1>8. /\ t \in UserTypes /\ t.active = users[u].active /\ t.verified = users[u].verified
        /\ t.nickname = users[u].nickname
    BY <1>5, <1>6, UsersNumbered DEF UserTypes
  <1>9. /\ Users' = Users /\ AccountTypeOK'
        /\ users'[u] = t /\ \A v \in Users \ {u} : users'[v] = users[v]
    <2>1. chosen' \in [Users -> Nicknames \cup {NoName}] /\ raced' \subseteq Users
      BY <1>4 DEF AccountInv, AccountTypeOK
    <2> QED  BY <1>4, <1>5, <1>7, <1>8, <2>1, UserWritten, UserRowTyped
  <1>10. BadgesAreBacked' /\ ChosenNicknamesStay'
    BY <1>4, <1>5, <1>8, <1>9 DEF AccountInv, BadgesAreBacked, ChosenNicknamesStay, IdentitiesOf
  <1>11. ASSUME NEW x \in AccountCalls
         PROVE  StepAllows(accountCall[x])
    <2>1. \A v \in Users : users'[v].active = users[v].active  BY <1>8, <1>9
    <2> QED  BY <1>4, <1>9, <2>1, CallOf DEF StepAllows, Fits
  <1>12. PICK d : d = [k EXCEPT !.pc = pc]  OBVIOUS
  <1>13. accountCall' = [accountCall EXCEPT ![c] = d]  BY <1>1, <1>4, <1>12, CallOf
  <1>14. Continues(d, k, pc) /\ d.user = u /\ d.seen = k.seen
    <2>1. pc \in AccountSteps  BY <1>3 DEF AccountSteps
    <2> QED  BY <1>2, <1>4, <1>12, <2>1, Moved
  <1>15. Fits(d)'
    BY <1>2, <1>3, <1>4, <1>5, <1>9, <1>14 DEF Fits, Making, Continues
  <1>16. CallHolds(d)'
    BY <1>2, <1>3, <1>4, <1>5, <1>8, <1>9, <1>14
       DEF CallHolds, FoundOwner, FoundWallet, FoundName, LeftAlone, Named, Issuing, Issuance,
           Busy, Continues, IdentitiesOf
  <1>17. \A v \in Users' \ raced' : ~users'[v].active =>
             /\ users'[v].nickname = NoName /\ ~users'[v].wallet
             /\ profiles'[v] = "none" /\ wallets'[v] = "none"
             /\ users'[v].verified => v \in Users \ raced /\ ~users[v].active /\ users[v].verified
    BY <1>4, <1>5, <1>8, <1>9 DEF AccountInv, DeletedStayBare
  <1>18. accountCall[c].pc # "ok"  BY <1>1, <1>4
  <1> QED
    BY <1>9, <1>10, <1>11, <1>13, <1>15, <1>16, <1>17, <1>18, WritingKeeps

LEMMA UpsertWalletKeeps ==
    ASSUME AccountInv, NEW c \in AccountCalls, UpsertWallet(c)
    PROVE  AccountInv'
  <1>1. PICK k : k = accountCall[c]  OBVIOUS
  <1>2. PICK u : u = k.user  OBVIOUS
  <1>3. /\ k \in AccountCallTypes /\ Fits(k) /\ CallHolds(k) /\ k.op = "wallet"
        /\ k.pc = "upserting" /\ Proceed(c, "linking")
        /\ UNCHANGED <<users, identityOf, profiles, chosen, raced>>
        /\ wallets' = [wallets EXCEPT ![u] = IF @ = "none" THEN "registered" ELSE @]
    BY <1>1, <1>2, CallOf DEF UpsertWallet, At, UserOf
  <1>4. u \in Users /\ (u \in raced \/ users[u].active)
    BY <1>2, <1>3 DEF Fits, CallHolds, LeftAlone, FoundWallet, Issuing, Busy
  <1>5. /\ wallets' \in [Users -> {"none", "registered", "issued"}]
        /\ wallets[u] = "none" => wallets'[u] \in {"none", "registered"}
        /\ wallets[u] # "none" => wallets'[u] # "none"
        /\ wallets[u] = "issued" => wallets'[u] = "issued"
        /\ \A v \in Users \ {u} : wallets'[v] = wallets[v]
    BY <1>3, <1>4 DEF AccountInv, AccountTypeOK
  <1>6. wallets'[u] # "none"
    BY <1>3, <1>4 DEF AccountInv, AccountTypeOK
  <1>7. Users' = Users /\ AccountTypeOK'
    BY <1>3, <1>5 DEF AccountInv, AccountTypeOK, Users
  <1>8. BadgesAreBacked' /\ ChosenNicknamesStay'
    BY <1>3, <1>5, <1>7 DEF AccountInv, BadgesAreBacked, ChosenNicknamesStay, IdentitiesOf
  <1>9. \A x \in AccountCalls : StepAllows(accountCall[x])
    BY <1>3, <1>5, <1>7, CallOf DEF StepAllows, Fits
  <1>10. PICK d : d = [k EXCEPT !.pc = "linking"]  OBVIOUS
  <1>11. accountCall' = [accountCall EXCEPT ![c] = d]  BY <1>1, <1>3, <1>10, CallOf
  <1>12. Continues(d, k, "linking") /\ d.user = u /\ d.seen = k.seen
    BY <1>2, <1>3, <1>10, Moved DEF AccountSteps
  <1>13. Fits(d)'
    BY <1>2, <1>3, <1>4, <1>7, <1>12 DEF Fits, Making, Continues
  <1>14. CallHolds(d)'
    BY <1>2, <1>3, <1>4, <1>5, <1>6, <1>7, <1>12
       DEF CallHolds, FoundOwner, FoundWallet, FoundName, LeftAlone, Named, Issuing, Issuance,
           Busy, Continues, IdentitiesOf
  <1>15. \A v \in Users' \ raced' : ~users'[v].active =>
             /\ users'[v].nickname = NoName /\ ~users'[v].wallet
             /\ profiles'[v] = "none" /\ wallets'[v] = "none"
             /\ users'[v].verified => v \in Users \ raced /\ ~users[v].active /\ users[v].verified
    BY <1>3, <1>4, <1>5, <1>7 DEF AccountInv, DeletedStayBare
  <1>16. accountCall[c].pc # "ok"  BY <1>1, <1>3
  <1> QED
    BY <1>7, <1>8, <1>9, <1>11, <1>13, <1>14, <1>15, <1>16, WritingKeeps

LEMMA IssueWalletKeeps ==
    ASSUME AccountInv, NEW c \in AccountCalls, IssueWallet(c)
    PROVE  AccountInv'
  <1>1. PICK k : k = accountCall[c]  OBVIOUS
  <1>2. PICK u : u = k.user  OBVIOUS
  <1>3. /\ k \in AccountCallTypes /\ Fits(k) /\ CallHolds(k) /\ k.op = "wallet"
        /\ k.pc = "issuing" /\ Proceed(c, "linkingIssued")
        /\ UNCHANGED <<users, identityOf, profiles, chosen, raced>>
        /\ wallets' = [wallets EXCEPT ![u] = IF @ = "none" THEN @ ELSE "issued"]
    BY <1>1, <1>2, CallOf DEF IssueWallet, At, UserOf
  <1>4. /\ u \in Users /\ (u \in raced \/ users[u].active)
        /\ wallets[u] # "none" \/ profiles[u] = "none"
    BY <1>2, <1>3 DEF Fits, CallHolds, LeftAlone, FoundWallet, Issuing, Busy
  <1>5. /\ wallets' \in [Users -> {"none", "registered", "issued"}]
        /\ wallets[u] = "none" => wallets'[u] \in {"none", "registered"}
        /\ wallets[u] # "none" => wallets'[u] # "none"
        /\ wallets[u] = "issued" => wallets'[u] = "issued"
        /\ \A v \in Users \ {u} : wallets'[v] = wallets[v]
    BY <1>3, <1>4 DEF AccountInv, AccountTypeOK
  <1>6. wallets[u] # "none" => wallets'[u] = "issued"
    <2>1. u \in DOMAIN wallets  BY <1>4 DEF AccountInv, AccountTypeOK
    <2> QED  BY <1>3, <2>1
  <1>7. Users' = Users /\ AccountTypeOK'
    BY <1>3, <1>5 DEF AccountInv, AccountTypeOK, Users
  <1>8. BadgesAreBacked' /\ ChosenNicknamesStay'
    BY <1>3, <1>5, <1>7 DEF AccountInv, BadgesAreBacked, ChosenNicknamesStay, IdentitiesOf
  <1>9. \A x \in AccountCalls : StepAllows(accountCall[x])
    BY <1>3, <1>5, <1>7, CallOf DEF StepAllows, Fits
  <1>10. PICK d : d = [k EXCEPT !.pc = "linkingIssued"]  OBVIOUS
  <1>11. accountCall' = [accountCall EXCEPT ![c] = d]  BY <1>1, <1>3, <1>10, CallOf
  <1>12. Continues(d, k, "linkingIssued") /\ d.user = u /\ d.seen = k.seen
    BY <1>2, <1>3, <1>10, Moved DEF AccountSteps
  <1>13. Fits(d)'
    BY <1>2, <1>3, <1>4, <1>7, <1>12 DEF Fits, Making, Continues
  <1>14. CallHolds(d)'
    BY <1>2, <1>3, <1>4, <1>5, <1>6, <1>7, <1>12
       DEF CallHolds, FoundOwner, FoundWallet, FoundName, LeftAlone, Named, Issuing, Issuance,
           Busy, Continues, IdentitiesOf
  <1>15. \A v \in Users' \ raced' : ~users'[v].active =>
             /\ users'[v].nickname = NoName /\ ~users'[v].wallet
             /\ profiles'[v] = "none" /\ wallets'[v] = "none"
             /\ users'[v].verified => v \in Users \ raced /\ ~users[v].active /\ users[v].verified
    BY <1>3, <1>4, <1>5, <1>7 DEF AccountInv, DeletedStayBare
  <1>16. accountCall[c].pc # "ok"  BY <1>1, <1>3
  <1> QED
    BY <1>7, <1>8, <1>9, <1>11, <1>13, <1>14, <1>15, <1>16, WritingKeeps

\* The badge is given for the credential that was issued.
LEMMA VerifyProfileKeeps ==
    ASSUME AccountInv, NEW c \in AccountCalls, VerifyProfile(c)
    PROVE  AccountInv'
  <1>1. PICK k : k = accountCall[c]  OBVIOUS
  <1>2. PICK u : u = k.user  OBVIOUS
  <1>3. /\ k \in AccountCallTypes /\ Fits(k) /\ CallHolds(k) /\ k.op = "wallet"
        /\ k.pc = "badging" /\ Proceed(c, "ok")
        /\ UNCHANGED <<users, identityOf, wallets, chosen, raced>>
        /\ profiles' = [profiles EXCEPT ![u] = IF @ = "none" THEN @ ELSE "verified"]
    BY <1>1, <1>2, CallOf DEF VerifyProfile, At, UserOf
  <1>4. /\ u \in Users /\ (u \in raced \/ users[u].active)
        /\ wallets[u] = "issued" \/ profiles[u] = "none"
        /\ IdentitiesOf(u) # {}
    BY <1>2, <1>3 DEF Fits, CallHolds, LeftAlone, FoundWallet, Issuing, Issuance, Busy
  <1>5. u \in DOMAIN profiles  BY <1>4 DEF AccountInv, AccountTypeOK
  <1>6. /\ profiles' \in [Users -> {"none", "plain", "verified"}]
        /\ \A v \in Users \ {u} : profiles'[v] = profiles[v]
    BY <1>3, <1>4 DEF AccountInv, AccountTypeOK
  <1>7. /\ profiles[u] = "none" => profiles'[u] = "none"
        /\ profiles[u] # "none" => profiles'[u] = "verified"
    BY <1>3, <1>5
  <1>8. Users' = Users /\ AccountTypeOK'
    BY <1>3, <1>6 DEF AccountInv, AccountTypeOK, Users
  <1>9. BadgesAreBacked'
    <2>1. \A v : IdentitiesOf(v)' = IdentitiesOf(v)  BY <1>3 DEF IdentitiesOf
    <2> QED  BY <1>3, <1>4, <1>6, <1>7, <1>8, <2>1 DEF AccountInv, BadgesAreBacked
  <1>10. ChosenNicknamesStay'
    BY <1>3, <1>8 DEF AccountInv, ChosenNicknamesStay
  <1>11. \A x \in AccountCalls : StepAllows(accountCall[x])
    BY <1>3, <1>6, <1>7, <1>8, CallOf DEF StepAllows, Fits
  <1>12. PICK d : d = [k EXCEPT !.pc = "ok"]  OBVIOUS
  <1>13. accountCall' = [accountCall EXCEPT ![c] = d]  BY <1>1, <1>3, <1>12, CallOf
  <1>14. Continues(d, k, "ok") /\ d.user = u /\ d.seen = k.seen
    BY <1>2, <1>3, <1>12, Moved DEF AccountSteps
  <1>15. Fits(d)' /\ CallHolds(d)'
    BY <1>2, <1>3, <1>4, <1>8, <1>14
       DEF Fits, CallHolds, FoundOwner, FoundWallet, FoundName, LeftAlone, Named, Issuing,
           Issuance, Making, Busy, Continues
  <1>16. \A v \in Users' \ raced' : ~users'[v].active =>
             /\ users'[v].nickname = NoName /\ ~users'[v].wallet
             /\ profiles'[v] = "none" /\ wallets'[v] = "none"
             /\ users'[v].verified => v \in Users \ raced /\ ~users[v].active /\ users[v].verified
    BY <1>3, <1>4, <1>6, <1>8 DEF AccountInv, DeletedStayBare
  <1>17. accountCall[c].pc # "ok"  BY <1>1, <1>3
  <1> QED
    BY <1>8, <1>9, <1>10, <1>11, <1>13, <1>15, <1>16, <1>17, WritingKeeps

\* A deletion leaves nothing behind but the identity, and notes the requests
\* it was made under.
LEMMA DeleteUserKeeps ==
    ASSUME AccountInv, NEW c \in AccountCalls, DeleteUser(c)
    PROVE  AccountInv'
  <1>1. PICK k : k = accountCall[c]  OBVIOUS
  <1>2. PICK u : u = k.user  OBVIOUS
  <1>3. PICK t : t = Anonymized(users[u])  OBVIOUS
  <1>4. /\ k \in AccountCallTypes /\ Fits(k) /\ CallHolds(k) /\ k.op = "delete"
        /\ k.pc = "idle" /\ Proceed(c, "ok") /\ UNCHANGED <<identityOf, chosen>>
        /\ users' = [users EXCEPT ![u] = t]
        /\ profiles' = [profiles EXCEPT ![u] = "none"]
        /\ wallets' = [wallets EXCEPT ![u] = "none"]
        /\ raced' = IF \E d \in AccountCalls : UserOf(d) = u /\ UnderWay(d)
                      THEN raced \cup {u} ELSE raced
    BY <1>1, <1>2, <1>3, CallOf DEF DeleteUser, At, UserOf
  <1>5. u \in Users  BY <1>2, <1>4 DEF Fits
  <1>6. /\ t \in UserTypes /\ ~t.active /\ ~t.wallet /\ ~t.verified /\ t.nickname = NoName
    BY <1>3 DEF Anonymized, NewUser, UserTypes
  <1>7. /\ users' \in Seq(UserTypes) /\ Len(users') = Len(users) /\ Users' = Users
        /\ users'[u] = t /\ \A v \in Users \ {u} : users'[v] = users[v]
    BY <1>4, <1>5, <1>6, UserWritten
  <1>8. /\ profiles' \in [Users -> {"none", "plain", "verified"}] /\ profiles'[u] = "none"
        /\ \A v \in Users \ {u} : profiles'[v] = profiles[v]
    BY <1>4, <1>5 DEF AccountInv, AccountTypeOK
  <1>9. /\ wallets' \in [Users -> {"none", "registered", "issued"}] /\ wallets'[u] = "none"
        /\ \A v \in Users \ {u} : wallets'[v] = wallets[v]
    BY <1>4, <1>5 DEF AccountInv, AccountTypeOK
  <1>10. raced' \subseteq Users /\ raced \subseteq raced'
    BY <1>4, <1>5 DEF AccountInv, AccountTypeOK
  <1>11. AccountTypeOK'
    BY <1>4, <1>7, <1>8, <1>9, <1>10 DEF AccountInv, AccountTypeOK, UserTypes
  <1>12. BadgesAreBacked'
    <2>1. \A v : IdentitiesOf(v)' = IdentitiesOf(v)  BY <1>4 DEF IdentitiesOf
    <2> QED  BY <1>6, <1>7, <1>8, <1>9, <1>10, <2>1 DEF AccountInv, BadgesAreBacked
  <1>13. ChosenNicknamesStay'
    BY <1>4, <1>6, <1>7, <1>10 DEF AccountInv, ChosenNicknamesStay
  <1>14. ASSUME NEW x \in AccountCalls
         PROVE  StepAllows(accountCall[x])
    <2>1. PICK q : q = accountCall[x]  OBVIOUS
    <2>2. q.op # "register" => q.user \in Users  BY <2>1, CallOf DEF Fits
    <2>3. Busy(q) /\ q.user = u => u \in raced'
      BY <1>4, <2>1 DEF UnderWay, UserOf, Busy
    <2>4. StepAllows(q)
      BY <1>4, <1>6, <1>7, <1>8, <1>9, <1>10, <2>2, <2>3 DEF StepAllows
    <2> QED  BY <2>1, <2>4
  <1>15. PICK d : d = [k EXCEPT !.pc = "ok"]  OBVIOUS
  <1>16. accountCall' = [accountCall EXCEPT ![c] = d]  BY <1>1, <1>4, <1>15, CallOf
  <1>17. Continues(d, k, "ok") /\ d.user = u /\ d.seen = k.seen
    BY <1>2, <1>4, <1>15, Moved DEF AccountSteps
  <1>18. Fits(d)' /\ CallHolds(d)'
    BY <1>2, <1>4, <1>5, <1>7, <1>17
       DEF Fits, CallHolds, FoundOwner, FoundWallet, FoundName, LeftAlone, Named, Issuing,
           Issuance, Making, Busy, Continues
  <1>19. \A v \in Users' \ raced' : ~users'[v].active =>
             /\ users'[v].nickname = NoName /\ ~users'[v].wallet
             /\ profiles'[v] = "none" /\ wallets'[v] = "none"
             /\ users'[v].verified => v \in Users \ raced /\ ~users[v].active /\ users[v].verified
    BY <1>6, <1>7, <1>8, <1>9, <1>10 DEF AccountInv, DeletedStayBare
  <1>20. accountCall[c].pc # "ok"  BY <1>1, <1>4
  <1> QED
    BY <1>7, <1>11, <1>12, <1>13, <1>14, <1>16, <1>18, <1>19, <1>20, WritingKeeps

-----------------------------------------------------------------------------
LEMMA AccountInitHolds == AccountInit => AccountInv
  <1> SUFFICES ASSUME AccountInit  PROVE AccountInv
    OBVIOUS
  <1> DEFINE second == [NewUser EXCEPT !.verified = FALSE]
  <1>1. NewUser \in UserTypes /\ NewUser.active /\ ~NewUser.wallet
    BY DEF NewUser, UserTypes
  <1>2. second \in UserTypes /\ second.active /\ ~second.wallet
    BY DEF NewUser, UserTypes
  <1>3. users = <<NewUser, second>>  BY DEF AccountInit
  <1> HIDE DEF second
  <1>4. /\ users \in Seq(UserTypes) /\ Len(users) = 2 /\ users[1] = NewUser /\ users[2] = second
    BY <1>1, <1>2, <1>3
  <1>5. Users = {1, 2}  BY <1>4, LenProperties DEF Users
  <1>6. identityOf \in [Persons -> 0..2]  BY DEF AccountInit
  <1>7. /\ profiles \in [Users -> {"none", "plain", "verified"}]
        /\ profiles[1] = "plain" /\ profiles[2] = "plain"
    BY <1>5 DEF AccountInit
  <1>8. wallets \in [Users -> {"none", "registered", "issued"}]
    BY <1>5 DEF AccountInit
  <1>9. chosen \in [Users -> Nicknames \cup {NoName}] /\ chosen[1] = NoName /\ chosen[2] = NoName
    BY <1>5 DEF AccountInit
  <1>10. AccountTypeOK
    BY <1>4, <1>6, <1>7, <1>8, <1>9 DEF AccountTypeOK, UserTypes, AccountInit
  <1>11. BadgesAreBacked
    BY <1>1, <1>2, <1>4, <1>5, <1>7 DEF BadgesAreBacked
  <1>12. ChosenNicknamesStay  BY <1>5, <1>9 DEF ChosenNicknamesStay
  <1>13. DeletedStayBare  BY <1>1, <1>2, <1>4, <1>5 DEF DeletedStayBare
  <1>14. PICK mix \in AccountMixes : accountCall = [c \in AccountCalls |-> Asking(mix[c])]
    BY DEF AccountInit
  <1>15. ASSUME NEW c \in AccountCalls
         PROVE  Fits(accountCall[c]) /\ CallHolds(accountCall[c])
    <2>1. PICK ask : ask = mix[c]  OBVIOUS
    <2>2. ask \in AccountAsks  BY <2>1, AccountMixesAssumption
    <2>3. PICK k : k = Asking(ask)  OBVIOUS
    <2>4. accountCall[c] = k  BY <1>14, <2>1, <2>3
    <2>5. /\ k.op = ask[1] /\ k.user = ask[2] /\ k.arg = ask[3] /\ k.pc = "idle"
          /\ k = [op |-> ask[1], user |-> ask[2], arg |-> ask[3], pc |-> "idle",
                  seen |-> NoName, again |-> FALSE, due |-> FALSE]
      BY <2>3 DEF Asking
    <2>6. \/ ask[1] = "register" /\ ask[2] = 0 /\ ask[3] \in Persons
          \/ ask[1] = "bind" /\ ask[2] \in {1, 2} /\ ask[3] \in Persons
          \/ ask[1] = "nickname" /\ ask[2] \in {1, 2} /\ ask[3] \in Nicknames
          \/ ask[1] \in {"profile", "home", "wallet", "delete"} /\ ask[2] \in {1, 2}
             /\ ask[3] = NoName
      BY <2>2 DEF AccountAsks
    <2>7. k \in AccountCallTypes
      BY <2>5, <2>6 DEF AccountCallTypes, AccountSteps
    <2>8. Fits(k)  BY <1>5, <2>5, <2>6, <2>7 DEF Fits, Making
    <2>9. CallHolds(k)
      BY <2>5
         DEF CallHolds, FoundOwner, FoundWallet, FoundName, LeftAlone, Named, Issuing,
             Issuance, Busy
    <2> QED  BY <2>4, <2>8, <2>9
  <1>16. accountCall \in [AccountCalls -> AccountCallTypes]
    BY <1>14, <1>15 DEF Fits
  <1> QED
    BY <1>5, <1>10, <1>11, <1>12, <1>13, <1>15, <1>16 DEF AccountInv, CallsHold

LEMMA AccountStepHolds == AccountInv /\ [AccountNext]_accountVars => AccountInv'
  <1>1. ASSUME AccountInv, UNCHANGED accountVars
        PROVE  AccountInv'
    BY <1>1
       DEF AccountInv, AccountTypeOK, CallsHold, Fits, CallHolds, FoundOwner, FoundWallet,
           FoundName, LeftAlone, Unchosen, BadgesAreBacked, ChosenNicknamesStay,
           DeletedStayBare, IdentitiesOf, Users, UserOf, accountVars, accountRows
  <1>2. ASSUME AccountInv, NEW c \in AccountCalls,
               \/ CompleteRegistration(c) \/ BindVerifiedIdentity(c) \/ GetProfile(c)
               \/ UpdateHomeLocation(c) \/ UpdatePublicNickname(c) \/ IssueWalletCredential(c)
        PROVE  AccountInv'
    BY <1>2, BeginCallKeeps
       DEF CompleteRegistration, BindVerifiedIdentity, GetProfile, UpdateHomeLocation,
           UpdatePublicNickname, IssueWalletCredential, Beginnings
  <1>3. ASSUME AccountInv, NEW c \in AccountCalls, LoadBindingViewer(c) \/ LoadOwner(c)
        PROVE  AccountInv'
    BY <1>3, ReadLevelKeeps DEF LoadBindingViewer, LoadOwner
  <1>4. ASSUME AccountInv, AccountNext
        PROVE  AccountInv'
    BY <1>2, <1>3, <1>4, FindRegisteredKeeps, LoadRegisteredKeeps, InsertUserKeeps,
       InsertProfileKeeps, InsertIdentityKeeps, FindBoundByKeyKeeps, FindBoundByUserKeeps,
       InsertBindingKeeps, ResolveConflictKeeps, UpgradeVerificationKeeps,
       LoadProfileUserKeeps, LoadHomeProfileKeeps, StoreHomeLocationKeeps, DrawNicknameKeeps,
       StoreGeneratedKeeps, CheckNicknameKeeps, StoreChosenKeeps, LoadWalletIdentityKeeps,
       UpsertWalletKeeps, LinkWalletKeeps, LoadWalletProfileKeeps, IssueWalletKeeps,
       VerifyProfileKeeps, DeleteUserKeeps
       DEF AccountNext
  <1> QED  BY <1>1, <1>4

LEMMA AccountInvHolds == AccountSpec => []AccountInv
  BY AccountInitHolds, AccountStepHolds, PTL DEF AccountSpec

\* The rows and calls of accounts keep their types.
THEOREM AccountsAreTyped == AccountSpec => []AccountTypeOK
  <1>1. AccountInv => AccountTypeOK  BY DEF AccountInv
  <1> QED  BY <1>1, AccountInvHolds, PTL

\* authAccountBindingService, verifiedIdentityBindService: whatever overlaps,
\* a registration or a binding answers the user its person has, for ever.
THEOREM AnswersAlwaysNameTheOwner == AccountSpec => []AnswersNameTheOwner
  <1>1. AccountInv => AnswersNameTheOwner
    BY DEF AccountInv, CallsHold, CallHolds, FoundOwner, Named, AnswersNameTheOwner, Person,
           UserOf
  <1> QED  BY <1>1, AccountInvHolds, PTL

\* viewerProfileService: no badge without the credential and the identity it
\* stands for, no wallet of a user without its row.
THEOREM BadgesAreAlwaysBacked == AccountSpec => []BadgesAreBacked
  <1>1. AccountInv => BadgesAreBacked  BY DEF AccountInv
  <1> QED  BY <1>1, AccountInvHolds, PTL

\* ensurePublicNickname replaces no nickname that was chosen, unless the
\* requests overlapped.
THEOREM ChosenNicknamesAlwaysStay == AccountSpec => []ChosenNicknamesStay
  <1>1. AccountInv => ChosenNicknamesStay  BY DEF AccountInv
  <1> QED  BY <1>1, AccountInvHolds, PTL

\* A deleted account gets nothing back, unless a request of its own was under
\* way: deleteAccount and what updates its rows by id.
THEOREM DeletedAccountsAlwaysStayBare == AccountSpec => []DeletedAccountsStayBare
  <1>1. AccountInv => DeletedAccountsStayBare
    BY DEF AccountInv, DeletedStayBare, DeletedAccountsStayBare
  <1> QED  BY <1>1, AccountInvHolds, PTL

-----------------------------------------------------------------------------
(* MediaUploads: the inductive invariant. *)

MediaPcs == {"idle", "checking", "marking", "counting", "deleting", "removing", "selecting",
             "moderating", "attaching", "writing", "done"}
PostPcs == {"moderating", "attaching", "writing"}

MediaCallTypes ==
    [pc : MediaPcs, op : FlagOps \cup ImageOps \cup {"leave"}, user : MediaUsers,
     post : MediaPosts, shows : BOOLEAN, uses : BOOLEAN, overtaken : BOOLEAN]

\* What request k relies on where it stands
MediaCallOK(k) ==
    /\ k \in MediaCallTypes
    /\ k.pc \notin PostPcs => ~k.shows /\ ~k.uses
    /\ k.uses => k.shows
    /\ k.shows /\ ~k.uses => k.op = "edit"
    /\ k.pc \in {"attaching", "writing"} => k.uses
    /\ k.pc \notin {"idle", "done"} /\ k.user \in gone => k.overtaken
    /\ k.op = "completeFlag" /\ k.pc = "marking" => flagFile = "good" \/ flag.status = "deleted"
    /\ k.pc = "removing" => flag.status = "deleted"
    /\ k.pc = "selecting" => k.op = "select" /\ flag.status \in {"active", "deleted"}
    /\ k.op = "completeImage" /\ k.pc = "marking" => imageFile = "good"
    /\ k.shows => k.user = upload.owner /\ imageFile = "good"

\* What is stored was found to be what was announced.
RowsAreFinal ==
    /\ flag.status = "active" => flagFile = "good"
    /\ selected # {} => flag.status = "active"
    /\ upload.status \in {"uploaded", "attached"} => imageFile = "good"
    /\ imageFile # "none" => upload.status # "none"

Shown(p) == posts[p].shows
Shows(c) == mediaCall[c].shows
NothingShows == (\A p \in MediaPosts : ~Shown(p)) /\ (\A c \in MediaCalls : ~Shows(c))

\* Request c has stored its post and has yet to attach the upload.
Backs(c) == mediaCall[c].uses /\ mediaCall[c].pc \in {"attaching", "writing"}
Backed(p) == \E c \in MediaCalls : mediaCall[c].post = p /\ Backs(c)
KeepsImage(c) == mediaCall[c].shows /\ ~mediaCall[c].uses

\* One post shows the image, and only a post that is there; before the upload
\* is completed nothing does, and the post of an edit that keeps the image
\* was there once.  As long as nothing is named in untaken, a request has yet
\* to attach a usable upload to the post that shows it, and to the post that
\* an edit would show it by, unless that post was deleted.
ImagesInOrder ==
    /\ \A p, q \in MediaPosts : Shown(p) /\ Shown(q) => p = q
    /\ \A p \in MediaPosts : Shown(p) => posts[p].status = "stored"
    /\ upload.status \in {"none", "signed"} => NothingShows
    /\ \A c \in MediaCalls : KeepsImage(c) => posts[mediaCall[c].post].status \in {"stored", "deleted"}
    /\ untaken = {} /\ upload.status = "uploaded" =>
         /\ \A p \in MediaPosts : Shown(p) => Backed(p)
         /\ \A c \in MediaCalls : KeepsImage(c) =>
              Backed(mediaCall[c].post) \/ posts[mediaCall[c].post].status = "deleted"

\* The inductive invariant
MediaInv ==
    /\ MediaTypeOK
    /\ mediaCall = [c \in MediaCalls |-> mediaCall[c]]
    /\ \A c \in MediaCalls : MediaCallOK(mediaCall[c])
    /\ RowsAreFinal /\ LeaversSelectNothing /\ ShownImagesAreFinal
    /\ ImagesInOrder

-----------------------------------------------------------------------------
(* MediaUploads: what every step keeps *)

\* What requests rely on is not taken back.
Forward ==
    /\ UNCHANGED gone
    /\ flag.status = "deleted" => flag'.status = "deleted"
    /\ flag.status = "active" => flag'.status \in {"active", "deleted"}
    /\ flagFile = "good" => flagFile' = "good" \/ flag'.status = "deleted"
    /\ imageFile = "good" => imageFile' = "good" /\ upload'.owner = upload.owner

Same(q, r) == q.op = r.op /\ q.user = r.user /\ q.post = r.post /\ q.overtaken = r.overtaken

LEMMA MediaCallOf ==
    ASSUME MediaInv, NEW c \in MediaCalls, NEW r, r = mediaCall[c]
    PROVE  /\ MediaCallOK(r) /\ r \in MediaCallTypes
           /\ mediaCall = [d \in MediaCalls |-> mediaCall[d]]
  BY DEF MediaInv, MediaCallOK

LEMMA MediaCallStays ==
    ASSUME NEW k, MediaCallOK(k), Forward
    PROVE  MediaCallOK(k)'
  BY DEF MediaCallOK, Forward

\* A request that goes on, and what it still has of what it read
LEMMA MediaGoes ==
    ASSUME MediaInv, NEW c \in MediaCalls, NEW r, r = mediaCall[c], NEW pc \in MediaPcs,
           MediaGoTo(c, pc)
    PROVE  \E q \in MediaCallTypes :
              /\ mediaCall' = [mediaCall EXCEPT ![c] = q] /\ Same(q, r) /\ q.pc = pc
              /\ q.shows = (r.shows /\ pc # "done") /\ q.uses = (r.uses /\ pc # "done")
  <1>1. r \in MediaCallTypes  BY MediaCallOf
  <1>2. PICK shows : shows = (r.shows /\ pc # "done") /\ shows \in BOOLEAN
    <2>1. (r.shows /\ pc # "done") \in BOOLEAN  OBVIOUS
    <2> QED  BY <2>1, Zenon
  <1>3. PICK uses : uses = (r.uses /\ pc # "done") /\ uses \in BOOLEAN
    <2>1. (r.uses /\ pc # "done") \in BOOLEAN  OBVIOUS
    <2> QED  BY <2>1, Zenon
  <1>4. PICK q : q = [r EXCEPT !.pc = pc, !.shows = shows, !.uses = uses]  OBVIOUS
  <1>5. q \in MediaCallTypes /\ Same(q, r) /\ q.pc = pc /\ q.shows = shows /\ q.uses = uses
    BY <1>1, <1>2, <1>3, <1>4 DEF MediaCallTypes, Same
  <1>6. mediaCall' = [mediaCall EXCEPT ![c] = q]
    BY <1>2, <1>3, <1>4 DEF MediaGoTo
  <1> QED  BY <1>2, <1>3, <1>5, <1>6

\* The requests after a step of one of them
LEMMA MediaCallsAfter ==
    ASSUME MediaInv, NEW c \in MediaCalls, NEW q, mediaCall' = [mediaCall EXCEPT ![c] = q],
           Forward, MediaCallOK(q)'
    PROVE  /\ mediaCall' = [d \in MediaCalls |-> mediaCall'[d]]
           /\ mediaCall'[c] = q /\ \A d \in MediaCalls \ {c} : mediaCall'[d] = mediaCall[d]
           /\ \A d \in MediaCalls : MediaCallOK(mediaCall[d])'
  <1>1. /\ mediaCall' = [d \in MediaCalls |-> mediaCall'[d]]
        /\ mediaCall'[c] = q /\ \A d \in MediaCalls \ {c} : mediaCall'[d] = mediaCall[d]
    BY DEF MediaInv
  <1>2. ASSUME NEW d \in MediaCalls PROVE MediaCallOK(mediaCall[d])'
    <2>1. CASE d = c  BY <1>1, <2>1
    <2>2. CASE d # c
      <3>1. PICK k : k = mediaCall[d]  OBVIOUS
      <3>2. MediaCallOK(k)'  BY <3>1, MediaCallOf, MediaCallStays
      <3> QED  BY <1>1, <2>2, <3>1, <3>2
    <2> QED  BY <2>1, <2>2
  <1> QED  BY <1>1, <1>2

\* Deleted users that have the flag selected were overtaken.
LEMMA LeaversAfter ==
    ASSUME MediaInv, NEW c \in MediaCalls, NEW r, r = mediaCall[c], NEW q, Same(q, r),
           mediaCall' = [mediaCall EXCEPT ![c] = q], UNCHANGED gone,
           \A u \in selected' \cap gone :
               u \in selected \/ (r.op = "select" /\ r.user = u /\ r.overtaken)
    PROVE  LeaversSelectNothing'
  <1>1. mediaCall'[c] = q /\ \A d \in MediaCalls \ {c} : mediaCall'[d] = mediaCall[d]
    BY DEF MediaInv
  <1>2. \A d \in MediaCalls : Same(mediaCall'[d], mediaCall[d])
    BY <1>1 DEF Same
  <1> SUFFICES ASSUME NEW u \in selected' \cap gone
               PROVE  \E d \in MediaCalls : mediaCall'[d].op = "select" /\ mediaCall'[d].user = u
                                            /\ mediaCall'[d].overtaken
    BY DEF LeaversSelectNothing
  <1>3. CASE u \in selected
    <2>1. PICK d \in MediaCalls : mediaCall[d].op = "select" /\ mediaCall[d].user = u
                                  /\ mediaCall[d].overtaken
      BY <1>3 DEF MediaInv, LeaversSelectNothing
    <2> QED  BY <1>2, <2>1 DEF Same
  <1>4. CASE u \notin selected
    BY <1>2, <1>4 DEF Same
  <1> QED  BY <1>3, <1>4

\* The images after a step: what posts and requests show they showed before,
\* or a request stores a post or reads one, and who has yet to attach the
\* upload still has, unless the post is gone.
LEMMA InOrderAfter ==
    ASSUME MediaInv, untaken \subseteq untaken',
           upload'.status \in {"none", "signed"} => upload.status \in {"none", "signed"},
           upload'.status = "uploaded" /\ untaken' = {} => upload.status \in {"signed", "uploaded"},
           \A p \in MediaPosts :
               /\ posts[p].status = "deleted" => posts'[p].status = "deleted"
               /\ posts[p].status = "stored" => posts'[p].status \in {"stored", "deleted"}
               /\ Shown(p)' => posts'[p].status = "stored"
               /\ Shown(p)' => Shown(p) \/ \E d \in MediaCalls :
                    mediaCall[d].post = p /\ Shows(d) /\ (mediaCall[d].uses => Backs(d)'),
           \A p, p2 \in MediaPosts : Shown(p)' /\ Shown(p2)' => p = p2,
           \A d \in MediaCalls :
               /\ mediaCall'[d].post = mediaCall[d].post
               /\ Shows(d)' => Shows(d) \/ upload.status = "uploaded" \/ Shown(mediaCall[d].post)
               /\ KeepsImage(d)' => KeepsImage(d) \/ Shown(mediaCall[d].post)
               /\ Backs(d) /\ upload'.status = "uploaded" /\ untaken' = {} =>
                    Backs(d)' \/ posts'[mediaCall[d].post].status # "stored"
    PROVE  ImagesInOrder'
  <1>1. ImagesInOrder  BY DEF MediaInv
  <1>2. \A d \in MediaCalls : mediaCall[d].post \in MediaPosts
    <2> TAKE d \in MediaCalls
    <2>1. PICK k : k = mediaCall[d]  OBVIOUS
    <2>2. k \in MediaCallTypes  BY <2>1, MediaCallOf
    <2> QED  BY <2>1, <2>2 DEF MediaCallTypes
  <1>3. ASSUME upload.status \in {"none", "signed"}  PROVE NothingShows'
    <2>1. NothingShows  BY <1>1, <1>3 DEF ImagesInOrder
    <2>2. \A p \in MediaPosts : ~Shown(p)'  BY <2>1 DEF NothingShows
    <2>3. \A d \in MediaCalls : ~Shows(d)'  BY <1>2, <1>3, <2>1 DEF NothingShows
    <2> QED  BY <2>2, <2>3 DEF NothingShows
  <1>4. ASSUME NEW d \in MediaCalls, KeepsImage(d)'
        PROVE  posts'[mediaCall[d].post].status \in {"stored", "deleted"}
    BY <1>1, <1>2, <1>4 DEF ImagesInOrder
  <1>5. ASSUME untaken' = {}, upload'.status = "uploaded"
        PROVE  /\ \A p \in MediaPosts : Shown(p)' => Backed(p)'
               /\ \A d \in MediaCalls : KeepsImage(d)' =>
                    Backed(mediaCall[d].post)' \/ posts'[mediaCall[d].post].status = "deleted"
    <2>1. untaken = {} /\ upload.status \in {"signed", "uploaded"}  BY <1>5
    <2>2. CASE upload.status = "signed"
      <3>1. NothingShows'  BY <1>3, <2>2
      <3> QED  BY <3>1 DEF NothingShows, KeepsImage, Shows
    <2>3. CASE upload.status = "uploaded"
      <3>1. ASSUME NEW p \in MediaPosts, Backed(p), posts'[p].status = "stored"
            PROVE  Backed(p)'
        BY <1>5, <3>1 DEF Backed
      <3>2. /\ \A p \in MediaPosts : Shown(p) => Backed(p)
            /\ \A d \in MediaCalls : KeepsImage(d) =>
                 Backed(mediaCall[d].post) \/ posts[mediaCall[d].post].status = "deleted"
        BY <1>1, <2>1, <2>3 DEF ImagesInOrder
      <3>3. ASSUME NEW p \in MediaPosts, Shown(p)' PROVE Backed(p)'
        <4>1. posts'[p].status = "stored"  BY <3>3
        <4>2. CASE Shown(p)  BY <3>1, <3>2, <4>1, <4>2
        <4>3. CASE ~Shown(p)
          <5>1. PICK d \in MediaCalls :
                  mediaCall[d].post = p /\ Shows(d) /\ (mediaCall[d].uses => Backs(d)')
            BY <3>3, <4>3
          <5>2. CASE mediaCall[d].uses  BY <5>1, <5>2 DEF Backed
          <5>3. CASE ~mediaCall[d].uses
            <6>1. Backed(p)  BY <3>2, <4>1, <5>1, <5>3 DEF KeepsImage, Shows
            <6> QED  BY <3>1, <4>1, <6>1
          <5> QED  BY <5>2, <5>3
        <4> QED  BY <4>2, <4>3
      <3>4. ASSUME NEW d \in MediaCalls, KeepsImage(d)'
            PROVE  Backed(mediaCall[d].post)' \/ posts'[mediaCall[d].post].status = "deleted"
        <4>1. PICK p \in MediaPosts : p = mediaCall[d].post  BY <1>2
        <4>2. mediaCall'[d].post = p  BY <4>1
        <4>3. posts'[p].status \in {"stored", "deleted"}  BY <1>4, <3>4, <4>1
        <4>4. Backed(p) \/ posts[p].status = "deleted"  BY <3>2, <3>4, <4>1
        <4> QED  BY <3>1, <4>1, <4>2, <4>3, <4>4
      <3> QED  BY <3>3, <3>4
    <2> QED  BY <2>1, <2>2, <2>3
  <1> HIDE DEF Shown, Shows, KeepsImage, Backed, Backs, NothingShows
  <1>6. \A d \in MediaCalls : mediaCall'[d].post = mediaCall[d].post  OBVIOUS
  <1>7. upload'.status \in {"none", "signed"} => NothingShows'  BY <1>3
  <1> QED  BY <1>4, <1>5, <1>6, <1>7 DEF ImagesInOrder

\* The posts, the upload and the request, in a step that turns request r into q
PostsGoOn(r, q) ==
    /\ \A p \in MediaPosts :
         /\ posts[p].status = "deleted" => posts'[p].status = "deleted"
         /\ posts[p].status = "stored" => posts'[p].status \in {"stored", "deleted"}
         /\ Shown(p)' => posts'[p].status = "stored"
         /\ Shown(p)' => \/ Shown(p)
                         \/ /\ p = r.post /\ r.shows
                            /\ r.uses => q.uses /\ q.pc \in {"attaching", "writing"}
    /\ \A p, p2 \in MediaPosts : Shown(p)' /\ Shown(p2)' => p = p2

UploadGoesOn ==
    /\ untaken \subseteq untaken'
    /\ upload'.status \in {"none", "signed"} => upload.status \in {"none", "signed"}
    /\ upload'.status = "uploaded" /\ untaken' = {} => upload.status \in {"signed", "uploaded"}

RequestGoesOn(r, q) ==
    /\ q.shows => r.shows \/ upload.status = "uploaded" \/ Shown(r.post)
    /\ q.shows /\ ~q.uses => (r.shows /\ ~r.uses) \/ Shown(r.post)
    /\ /\ r.uses /\ r.pc \in {"attaching", "writing"}
       /\ upload'.status = "uploaded" /\ untaken' = {}
       => \/ q.uses /\ q.pc \in {"attaching", "writing"}
          \/ posts'[r.post].status # "stored"

\* Posts that change no more than to be deleted
LEMMA PostsOnlyGo ==
    ASSUME MediaInv, NEW r, NEW q,
           \A p \in MediaPosts :
               /\ posts'[p].status = posts[p].status \/ posts'[p].status = "deleted"
               /\ posts'[p].shows => posts[p].shows /\ posts'[p].status = posts[p].status
    PROVE  PostsGoOn(r, q)
  <1>1. ImagesInOrder  BY DEF MediaInv
  <1>2. \A p \in MediaPosts :
           /\ posts[p].status = "deleted" => posts'[p].status = "deleted"
           /\ posts[p].status = "stored" => posts'[p].status \in {"stored", "deleted"}
           /\ Shown(p)' => Shown(p) /\ posts'[p].status = "stored"
    BY <1>1 DEF Shown, ImagesInOrder
  <1>3. \A p, p2 \in MediaPosts : Shown(p)' /\ Shown(p2)' => p = p2
    BY <1>1, <1>2 DEF ImagesInOrder
  <1> QED  BY <1>2, <1>3 DEF PostsGoOn

\* The images after a step of one request
LEMMA InOrderStep ==
    ASSUME MediaInv, NEW c \in MediaCalls, NEW r, r = mediaCall[c], NEW q, Same(q, r),
           mediaCall' = [mediaCall EXCEPT ![c] = q],
           PostsGoOn(r, q), UploadGoesOn, RequestGoesOn(r, q)
    PROVE  ImagesInOrder'
  <1> USE DEF PostsGoOn, UploadGoesOn, RequestGoesOn
  <1>1. mediaCall'[c] = q /\ \A d \in MediaCalls \ {c} : mediaCall'[d] = mediaCall[d]
    BY DEF MediaInv
  <1>2. ASSUME NEW d \in MediaCalls
        PROVE  /\ mediaCall'[d].post = mediaCall[d].post
               /\ Shows(d)' => Shows(d) \/ upload.status = "uploaded" \/ Shown(mediaCall[d].post)
               /\ KeepsImage(d)' => KeepsImage(d) \/ Shown(mediaCall[d].post)
               /\ Backs(d) /\ upload'.status = "uploaded" /\ untaken' = {} =>
                    Backs(d)' \/ posts'[mediaCall[d].post].status # "stored"
    <2>1. CASE d = c  BY <1>1, <2>1 DEF Same, Shows, KeepsImage, Backs
    <2>2. CASE d # c  BY <1>1, <2>2 DEF Shows, KeepsImage, Backs
    <2> QED  BY <2>1, <2>2
  <1>3. ASSUME NEW p \in MediaPosts, Shown(p)'
        PROVE  Shown(p) \/ \E d \in MediaCalls :
                 mediaCall[d].post = p /\ Shows(d) /\ (mediaCall[d].uses => Backs(d)')
    BY <1>1, <1>3 DEF Shows, Backs
  <1> QED  BY <1>2, <1>3, InOrderAfter

\* ... after a step of a request that shows nothing, and that stores nothing
LEMMA InOrderKept ==
    ASSUME MediaInv, NEW c \in MediaCalls, NEW r, r = mediaCall[c], NEW q, Same(q, r),
           mediaCall' = [mediaCall EXCEPT ![c] = q], ~r.shows, ~r.uses, ~q.shows, ~q.uses,
           untaken \subseteq untaken',
           \A p \in MediaPosts :
               /\ posts'[p].status = posts[p].status \/ posts'[p].status = "deleted"
               /\ posts'[p].shows => posts[p].shows /\ posts'[p].status = posts[p].status,
           \/ upload'.status = upload.status
           \/ upload.status = "none" /\ upload'.status = "signed"
           \/ upload.status = "signed" /\ upload'.status = "uploaded"
           \/ upload'.status = "uploaded" /\ untaken' # {}
    PROVE  ImagesInOrder'
  <1>1. PostsGoOn(r, q)  BY PostsOnlyGo
  <1>2. UploadGoesOn  BY DEF UploadGoesOn
  <1>3. RequestGoesOn(r, q)  BY DEF RequestGoesOn
  <1> QED  BY <1>1, <1>2, <1>3, InOrderStep

\* Posts that show an image stay in order where only posts are taken away.
LEMMA ShownAfter ==
    ASSUME MediaInv, imageFile' = imageFile \/ imageFile' = "good",
           imageFile = "good" => upload'.owner = upload.owner,
           \A p \in MediaPosts : posts'[p].shows => posts[p].shows /\ posts'[p].author = posts[p].author
    PROVE  ShownImagesAreFinal'
  BY DEF MediaInv, ShownImagesAreFinal

LEMMA MediaInvAfter ==
    ASSUME MediaInv, NEW c \in MediaCalls, NEW q, mediaCall' = [mediaCall EXCEPT ![c] = q],
           Forward, MediaCallOK(q)', MediaTypeOK', RowsAreFinal', LeaversSelectNothing',
           ShownImagesAreFinal', ImagesInOrder'
    PROVE  MediaInv'
  <1>1. /\ mediaCall' = [d \in MediaCalls |-> mediaCall'[d]]
        /\ \A d \in MediaCalls : MediaCallOK(mediaCall[d])'
    BY MediaCallsAfter
  <1> QED  BY <1>1 DEF MediaInv

-----------------------------------------------------------------------------
(* MediaUploads: the flag *)

\* A step of a request for the flag
LEMMA FlagStep ==
    ASSUME MediaInv, NEW c \in MediaCalls, NEW r, r = mediaCall[c], r.pc \notin PostPcs,
           NEW pc \in MediaPcs \ PostPcs, MediaGoTo(c, pc), UNCHANGED <<gone, imageVars>>,
           flag' \in [status : {"none", "signed", "active", "deleted"},
                      creator : MediaUsers \cup {Nobody}],
           flagFile' \in Files, selected' \subseteq MediaUsers,
           flag.status = "deleted" => flag'.status = "deleted",
           flag.status = "active" => flag'.status \in {"active", "deleted"},
           flagFile = "good" => flagFile' = "good" \/ flag'.status = "deleted",
           flag'.status = "active" => flagFile' = "good",
           selected' # {} => flag'.status = "active",
           \A u \in selected' \cap gone :
               u \in selected \/ (r.op = "select" /\ r.user = u /\ r.overtaken),
           pc \notin {"idle", "done"} => r.pc # "done" /\ (r.pc = "idle" => r.user \notin gone),
           r.op = "completeFlag" /\ pc = "marking" => flagFile' = "good" \/ flag'.status = "deleted",
           pc = "removing" => flag'.status = "deleted",
           pc = "selecting" => r.op = "select" /\ flag'.status \in {"active", "deleted"},
           r.op = "completeImage" => pc # "marking"
    PROVE  MediaInv'
  <1>1. MediaCallOK(r) /\ r \in MediaCallTypes  BY MediaCallOf
  <1>2. PICK q \in MediaCallTypes :
              /\ mediaCall' = [mediaCall EXCEPT ![c] = q] /\ Same(q, r) /\ q.pc = pc
              /\ q.shows = (r.shows /\ pc # "done") /\ q.uses = (r.uses /\ pc # "done")
    BY MediaGoes
  <1>3. ~r.shows /\ ~r.uses /\ ~q.shows /\ ~q.uses  BY <1>1, <1>2 DEF MediaCallOK
  <1>4. UNCHANGED <<upload, imageFile, posts, untaken>>  BY DEF imageVars
  <1>5. Forward  BY <1>4 DEF Forward
  <1>6. MediaCallOK(q)'
    <2>1. q.pc \notin {"idle", "done"} /\ q.user \in gone => q.overtaken
      BY <1>1, <1>2 DEF MediaCallOK, Same
    <2> QED  BY <1>2, <1>3, <2>1 DEF MediaCallOK, Same, PostPcs
  <1>7. MediaTypeOK'  BY <1>2, <1>4 DEF MediaInv, MediaTypeOK
  <1>8. RowsAreFinal'  BY <1>4 DEF MediaInv, RowsAreFinal
  <1>9. LeaversSelectNothing'  BY <1>2, LeaversAfter
  <1>10. ShownImagesAreFinal'  BY <1>4 DEF MediaInv, ShownImagesAreFinal
  <1>11. ImagesInOrder'
    <2>1. /\ untaken \subseteq untaken' /\ upload'.status = upload.status
          /\ \A p \in MediaPosts :
               /\ posts'[p].status = posts[p].status \/ posts'[p].status = "deleted"
               /\ posts'[p].shows => posts[p].shows /\ posts'[p].status = posts[p].status
      BY <1>4
    <2> QED  BY <1>2, <1>3, <2>1, InOrderKept
  <1> QED  BY <1>2, <1>5, <1>6, <1>7, <1>8, <1>9, <1>10, <1>11, MediaInvAfter

FlagSteps(c) ==
    \/ CreateFlag(c) \/ ReadFlagForCompletion(c) \/ CheckFlagFile(c) \/ MarkActive(c)
    \/ ReadFlagForDeletion(c) \/ CountSelections(c) \/ DeleteFlagRow(c) \/ RemoveFlagFile(c)
    \/ ReadFlagForSelection(c) \/ SelectFlag(c) \/ UnselectFlag(c)

LEMMA FlagStepsKeep ==
    ASSUME MediaInv, NEW c \in MediaCalls, FlagSteps(c)
    PROVE  MediaInv'
  <1>1. PICK r : r = mediaCall[c]  OBVIOUS
  <1>2. MediaCallOK(r) /\ r.user \in MediaUsers
    BY <1>1, MediaCallOf DEF MediaCallTypes
  <1>3. /\ flag \in [status : {"none", "signed", "active", "deleted"},
                     creator : MediaUsers \cup {Nobody}]
        /\ flagFile \in Files /\ selected \subseteq MediaUsers /\ RowsAreFinal
    BY DEF MediaInv, MediaTypeOK
  <1>4. ASSUME NEW pc \in MediaPcs \ PostPcs, MediaGoTo(c, pc), UNCHANGED <<flagVars, gone, imageVars>>,
               r.pc \notin PostPcs,
               pc \notin {"idle", "done"} => r.pc # "done" /\ (r.pc = "idle" => r.user \notin gone),
               r.op = "completeFlag" /\ pc = "marking" => flagFile = "good" \/ flag.status = "deleted",
               pc = "removing" => flag.status = "deleted",
               pc = "selecting" => r.op = "select" /\ flag.status \in {"active", "deleted"},
               r.op = "completeImage" => pc # "marking"
        PROVE  MediaInv'
    <2>1. flag' = flag /\ flagFile' = flagFile /\ selected' = selected /\ UNCHANGED <<gone, imageVars>>
      BY <1>4 DEF flagVars
    <2> QED  BY <1>1, <1>3, <1>4, <2>1, FlagStep DEF RowsAreFinal
  <1>5. CASE CreateFlag(c)
    <2>1. MediaGoTo(c, "done") /\ r.pc = "idle" /\ UNCHANGED <<flagFile, selected, gone, imageVars>>
      BY <1>1, <1>5 DEF CreateFlag, MediaBegins, MediaAt
    <2>2. \/ UNCHANGED flag
          \/ /\ flag.status = "none"
             /\ flag' = [status |-> "signed", creator |-> r.user]
      BY <1>1, <1>5 DEF CreateFlag
    <2> QED  BY <1>1, <1>2, <1>3, <2>1, <2>2, FlagStep DEF RowsAreFinal, MediaPcs, PostPcs
  <1>6. CASE ReadFlagForCompletion(c)
    <2>1. PICK pc \in {"checking", "done"} : MediaGoTo(c, pc)
      BY <1>6 DEF ReadFlagForCompletion
    <2>2. r.pc = "idle" /\ r.user \notin gone /\ UNCHANGED <<flagVars, gone, imageVars>>
      BY <1>1, <1>6 DEF ReadFlagForCompletion, MediaBegins, MediaAt
    <2> QED  BY <1>4, <2>1, <2>2 DEF MediaPcs, PostPcs
  <1>7. CASE CheckFlagFile(c)
    <2>1. PICK pc \in {"marking", "done"} :
            MediaGoTo(c, pc) /\ (pc = "marking" => flagFile = "good")
      BY <1>7 DEF CheckFlagFile
    <2>2. r.pc = "checking" /\ r.op = "completeFlag" /\ UNCHANGED <<flagVars, gone, imageVars>>
      BY <1>1, <1>7 DEF CheckFlagFile, MediaAt
    <2> QED  BY <1>4, <2>1, <2>2 DEF MediaPcs, PostPcs
  <1>8. CASE MarkActive(c)
    <2>1. /\ MediaGoTo(c, "done") /\ UNCHANGED <<flagFile, selected, gone, imageVars>>
          /\ r.op = "completeFlag" /\ r.pc = "marking"
      BY <1>1, <1>8 DEF MarkActive, MediaAt
    <2>2. flagFile = "good" \/ flag.status = "deleted"  BY <1>2, <2>1 DEF MediaCallOK
    <2>3. PICK status : status = (IF FlagRowExists THEN "active" ELSE flag.status)  OBVIOUS
    <2>4. flag' = [flag EXCEPT !.status = status]
      BY <1>3, <1>8, <2>3 DEF MarkActive
    <2>5. /\ flag' \in [status : {"none", "signed", "active", "deleted"},
                        creator : MediaUsers \cup {Nobody}]
          /\ flag'.status = status
      BY <1>3, <2>3, <2>4
    <2>6. /\ flag.status = "deleted" => status = "deleted"
          /\ flag.status = "active" => status = "active"
          /\ status = "active" => flagFile = "good"
      BY <1>3, <2>2, <2>3 DEF FlagRowExists, RowsAreFinal
    <2> QED  BY <1>1, <1>3, <2>1, <2>5, <2>6, FlagStep DEF RowsAreFinal, MediaPcs, PostPcs
  <1>9. CASE ReadFlagForDeletion(c)
    <2>1. PICK pc \in {"counting", "done"} : MediaGoTo(c, pc)
      BY <1>9 DEF ReadFlagForDeletion
    <2>2. r.pc = "idle" /\ r.user \notin gone /\ UNCHANGED <<flagVars, gone, imageVars>>
      BY <1>1, <1>9 DEF ReadFlagForDeletion, MediaBegins, MediaAt
    <2> QED  BY <1>4, <2>1, <2>2 DEF MediaPcs, PostPcs
  <1>10. CASE CountSelections(c)
    <2>1. PICK pc \in {"deleting", "done"} : MediaGoTo(c, pc)
      BY <1>10 DEF CountSelections
    <2>2. r.pc = "counting" /\ UNCHANGED <<flagVars, gone, imageVars>>
      BY <1>1, <1>10 DEF CountSelections, MediaAt
    <2> QED  BY <1>4, <2>1, <2>2 DEF MediaPcs, PostPcs
  <1>11. CASE DeleteFlagRow(c)
    <2>1. /\ r.pc = "deleting" /\ r.op = "deleteFlag"
          /\ UNCHANGED <<flagFile, selected, gone, imageVars>>
      BY <1>1, <1>11 DEF DeleteFlagRow, MediaAt
    <2>2. CASE FlagRowExists /\ Unreferenced
      <3>1. flag' = [flag EXCEPT !.status = "deleted"] /\ MediaGoTo(c, "removing") /\ selected = {}
        BY <1>11, <2>2 DEF DeleteFlagRow, Unreferenced
      <3>2. /\ flag' \in [status : {"none", "signed", "active", "deleted"},
                          creator : MediaUsers \cup {Nobody}]
            /\ flag'.status = "deleted"
        BY <1>3, <3>1
      <3> QED  BY <1>1, <1>3, <2>1, <3>1, <3>2, FlagStep DEF RowsAreFinal, MediaPcs, PostPcs
    <2>3. CASE ~(FlagRowExists /\ Unreferenced)
      <3>1. UNCHANGED <<flagVars, gone, imageVars>> /\ MediaGoTo(c, "done")
        BY <1>11, <2>1, <2>3 DEF DeleteFlagRow, flagVars
      <3> QED  BY <1>4, <2>1, <3>1 DEF MediaPcs, PostPcs
    <2> QED  BY <2>2, <2>3
  <1>12. CASE RemoveFlagFile(c)
    <2>1. /\ r.pc = "removing" /\ MediaGoTo(c, "done") /\ UNCHANGED <<flag, selected, gone, imageVars>>
          /\ flagFile' \in {flagFile, "none"}
      BY <1>1, <1>12 DEF RemoveFlagFile, MediaAt
    <2>2. flag.status = "deleted"  BY <1>2, <2>1 DEF MediaCallOK
    <2>3. flagFile' \in Files  BY <1>3, <2>1 DEF Files
    <2> QED  BY <1>1, <1>3, <2>1, <2>2, <2>3, FlagStep DEF RowsAreFinal, MediaPcs, PostPcs
  <1>13. CASE ReadFlagForSelection(c)
    <2>1. PICK pc \in {"selecting", "done"} :
            MediaGoTo(c, pc) /\ (pc = "selecting" => flag.status = "active")
      BY <1>13 DEF ReadFlagForSelection
    <2>2. r.pc = "idle" /\ r.op = "select" /\ r.user \notin gone /\ UNCHANGED <<flagVars, gone, imageVars>>
      BY <1>1, <1>13 DEF ReadFlagForSelection, MediaBegins, MediaAt
    <2> QED  BY <1>4, <2>1, <2>2 DEF MediaPcs, PostPcs
  <1>14. CASE SelectFlag(c)
    <2>1. /\ r.pc = "selecting" /\ r.op = "select" /\ MediaGoTo(c, "done")
          /\ UNCHANGED <<flag, flagFile, gone, imageVars>>
          /\ selected' = IF FlagRowExists THEN selected \cup {r.user} ELSE selected
      BY <1>1, <1>14 DEF SelectFlag, MediaAt
    <2>2. flag.status \in {"active", "deleted"} /\ (r.user \in gone => r.overtaken)
      BY <1>2, <2>1 DEF MediaCallOK
    <2>3. selected' # {} => flag.status = "active"
      BY <1>3, <2>1, <2>2 DEF RowsAreFinal, FlagRowExists
    <2>4. selected' \subseteq MediaUsers  BY <1>2, <1>3, <2>1
    <2>5. \A u \in selected' \cap gone :
               u \in selected \/ (r.op = "select" /\ r.user = u /\ r.overtaken)
      BY <2>1, <2>2
    <2> QED  BY <1>1, <1>3, <2>1, <2>3, <2>4, <2>5, FlagStep DEF RowsAreFinal, MediaPcs, PostPcs
  <1>15. CASE UnselectFlag(c)
    <2>1. /\ r.pc = "idle" /\ MediaGoTo(c, "done") /\ UNCHANGED <<flag, flagFile, gone, imageVars>>
          /\ selected' = selected \ {r.user}
      BY <1>1, <1>15 DEF UnselectFlag, MediaBegins, MediaAt
    <2> QED  BY <1>1, <1>3, <2>1, FlagStep DEF RowsAreFinal, MediaPcs, PostPcs
  <1> QED
    BY <1>5, <1>6, <1>7, <1>8, <1>9, <1>10, <1>11, <1>12, <1>13, <1>14, <1>15 DEF FlagSteps

-----------------------------------------------------------------------------
(* MediaUploads: the image *)

\* A step of a request for the image
LEMMA ImageStep ==
    ASSUME MediaInv, NEW c \in MediaCalls, NEW r, r = mediaCall[c], NEW q \in MediaCallTypes,
           mediaCall' = [mediaCall EXCEPT ![c] = q], Same(q, r),
           UNCHANGED <<flagVars, gone, imageFile>>,
           upload' \in [status : {"none", "signed", "uploaded", "attached", "deleted"},
                        owner : MediaUsers \cup {Nobody}, attachedTo : MediaPosts \cup {NoPost}],
           posts' \in [MediaPosts -> [status : {"none", "stored", "deleted"},
                                      author : MediaUsers \cup {Nobody}, shows : BOOLEAN]],
           untaken' \subseteq {"reset", "unattached"},
           imageFile = "good" => upload'.owner = upload.owner,
           upload'.status \in {"uploaded", "attached"} => imageFile = "good",
           imageFile # "none" => upload'.status # "none",
           q.pc \notin {"idle", "done"} => r.pc # "done" /\ (r.pc = "idle" => r.user \notin gone),
           q.pc \notin PostPcs => ~q.shows /\ ~q.uses,
           q.uses => q.shows, q.pc \in {"attaching", "writing"} => q.uses,
           q.shows /\ ~q.uses => r.op = "edit",
           q.shows => r.user = upload.owner /\ imageFile = "good",
           q.pc = "marking" => r.op = "completeImage" /\ imageFile = "good",
           q.pc \notin {"removing", "selecting"},
           \A p \in MediaPosts : posts'[p].shows =>
               \/ posts[p].shows /\ posts'[p].author = posts[p].author
               \/ posts'[p].author = upload.owner /\ imageFile = "good",
           ImagesInOrder'
    PROVE  MediaInv'
  <1>1. MediaCallOK(r) /\ r \in MediaCallTypes  BY MediaCallOf
  <1>2. UNCHANGED <<flag, flagFile, selected, gone, imageFile>>  BY DEF flagVars
  <1>3. Forward  BY <1>2 DEF Forward
  <1>4. MediaCallOK(q)'
    <2>1. q.pc \notin {"idle", "done"} /\ q.user \in gone => q.overtaken
      BY <1>1 DEF MediaCallOK, Same
    <2>2. q.shows => q.user = upload'.owner /\ imageFile = "good"
      BY DEF Same
    <2> QED  BY <1>2, <2>1, <2>2 DEF MediaCallOK, Same
  <1>5. MediaTypeOK'  BY <1>2 DEF MediaInv, MediaTypeOK
  <1>6. RowsAreFinal'  BY <1>2 DEF MediaInv, RowsAreFinal
  <1>7. LeaversSelectNothing'  BY <1>2, LeaversAfter
  <1>8. ShownImagesAreFinal'
    <2> SUFFICES ASSUME NEW p \in MediaPosts, posts'[p].shows
                 PROVE  posts'[p].author = upload'.owner /\ imageFile' = "good"
      BY DEF ShownImagesAreFinal
    <2>1. posts'[p].author = upload.owner /\ imageFile = "good"
      BY DEF MediaInv, ShownImagesAreFinal
    <2> QED  BY <1>2, <2>1
  <1> QED  BY <1>3, <1>4, <1>5, <1>6, <1>7, <1>8, MediaInvAfter

\* A step of such a request that takes nothing that is shown, adds no post
\* and resolves nothing
LEMMA QuietImageStep ==
    ASSUME MediaInv, NEW c \in MediaCalls, NEW r, r = mediaCall[c],
           NEW pc \in MediaPcs \ PostPcs, MediaGoTo(c, pc), r.pc \notin PostPcs,
           UNCHANGED <<flagVars, gone, imageFile>>,
           upload' \in [status : {"none", "signed", "uploaded", "attached", "deleted"},
                        owner : MediaUsers \cup {Nobody}, attachedTo : MediaPosts \cup {NoPost}],
           posts' \in [MediaPosts -> [status : {"none", "stored", "deleted"},
                                      author : MediaUsers \cup {Nobody}, shows : BOOLEAN]],
           untaken' \subseteq {"reset", "unattached"}, untaken \subseteq untaken',
           imageFile = "good" => upload'.owner = upload.owner,
           upload'.status \in {"uploaded", "attached"} => imageFile = "good",
           imageFile # "none" => upload'.status # "none",
           pc \notin {"idle", "done"} => r.pc # "done" /\ (r.pc = "idle" => r.user \notin gone),
           pc = "marking" => r.op = "completeImage" /\ imageFile = "good",
           pc \notin {"removing", "selecting"},
           \A p \in MediaPosts :
               /\ posts'[p].status = posts[p].status \/ posts'[p].status = "deleted"
               /\ posts'[p].shows => /\ posts[p].shows /\ posts'[p].author = posts[p].author
                                     /\ posts'[p].status = posts[p].status,
           \/ upload'.status = upload.status
           \/ upload.status = "none" /\ upload'.status = "signed"
           \/ upload.status = "signed" /\ upload'.status = "uploaded"
           \/ upload'.status = "uploaded" /\ untaken' # {}
    PROVE  MediaInv'
  <1>1. MediaCallOK(r) /\ r \in MediaCallTypes  BY MediaCallOf
  <1>2. PICK q \in MediaCallTypes :
              /\ mediaCall' = [mediaCall EXCEPT ![c] = q] /\ Same(q, r) /\ q.pc = pc
              /\ q.shows = (r.shows /\ pc # "done") /\ q.uses = (r.uses /\ pc # "done")
    BY MediaGoes
  <1>3. ~r.shows /\ ~r.uses /\ ~q.shows /\ ~q.uses  BY <1>1, <1>2 DEF MediaCallOK
  <1>4. ImagesInOrder'  BY <1>2, <1>3, InOrderKept
  <1> QED  BY <1>1, <1>2, <1>3, <1>4, ImageStep DEF PostPcs

ImageSteps(c) ==
    \/ Refuse(c) \/ CreateImage(c) \/ ReadForCompletion(c) \/ CheckImageFile(c)
    \/ MarkUploadCompleted(c) \/ DeletePostWithImage(c)

LEMMA ImageStepsKeep ==
    ASSUME MediaInv, NEW c \in MediaCalls, ImageSteps(c)
    PROVE  MediaInv'
  <1>1. PICK r : r = mediaCall[c]  OBVIOUS
  <1>2. MediaCallOK(r) /\ r.user \in MediaUsers /\ r.post \in MediaPosts
    BY <1>1, MediaCallOf DEF MediaCallTypes
  <1>3. /\ upload \in [status : {"none", "signed", "uploaded", "attached", "deleted"},
                       owner : MediaUsers \cup {Nobody}, attachedTo : MediaPosts \cup {NoPost}]
        /\ posts \in [MediaPosts -> [status : {"none", "stored", "deleted"},
                                     author : MediaUsers \cup {Nobody}, shows : BOOLEAN]]
        /\ untaken \subseteq {"reset", "unattached"} /\ RowsAreFinal
    BY DEF MediaInv, MediaTypeOK
  <1>4. ASSUME NEW pc \in MediaPcs \ PostPcs, MediaGoTo(c, pc), UNCHANGED <<flagVars, gone, imageVars>>,
               r.pc \notin PostPcs, pc \notin {"removing", "selecting"},
               pc \notin {"idle", "done"} => r.pc # "done" /\ (r.pc = "idle" => r.user \notin gone),
               pc = "marking" => r.op = "completeImage" /\ imageFile = "good"
        PROVE  MediaInv'
    <2>1. UNCHANGED <<flagVars, gone, imageFile>> /\ UNCHANGED <<upload, posts, untaken>>
      BY <1>4 DEF imageVars
    <2> QED  BY <1>1, <1>3, <1>4, <2>1, QuietImageStep DEF RowsAreFinal
  <1>5. CASE Refuse(c)
    <2>1. MediaGoTo(c, "done") /\ r.pc = "idle" /\ UNCHANGED <<flagVars, gone, imageVars>>
      BY <1>1, <1>5 DEF Refuse
    <2> QED  BY <1>4, <2>1 DEF MediaPcs, PostPcs
  <1>6. CASE CreateImage(c)
    <2>1. /\ MediaGoTo(c, "done") /\ r.pc = "idle"
          /\ UNCHANGED <<flagVars, gone, imageFile, posts, untaken>>
      BY <1>1, <1>6 DEF CreateImage, MediaBegins, MediaAt
    <2>2. CASE UNCHANGED upload
      BY <1>1, <1>3, <2>1, <2>2, QuietImageStep DEF RowsAreFinal, MediaPcs, PostPcs
    <2>3. CASE upload' # upload
      <3>1. /\ upload.status = "none"
            /\ upload' = [upload EXCEPT !.status = "signed", !.owner = r.user]
        BY <1>1, <1>6, <2>3 DEF CreateImage
      <3>2. /\ upload' \in [status : {"none", "signed", "uploaded", "attached", "deleted"},
                     owner : MediaUsers \cup {Nobody}, attachedTo : MediaPosts \cup {NoPost}]
            /\ upload'.status = "signed"
        BY <1>2, <1>3, <3>1
      <3> QED  BY <1>1, <1>3, <2>1, <3>1, <3>2, QuietImageStep DEF RowsAreFinal, MediaPcs, PostPcs
    <2> QED  BY <2>2, <2>3
  <1>7. CASE ReadForCompletion(c)
    <2>1. PICK pc \in {"checking", "done"} : MediaGoTo(c, pc)
      BY <1>7 DEF ReadForCompletion
    <2>2. r.pc = "idle" /\ r.user \notin gone /\ UNCHANGED <<flagVars, gone, imageVars>>
      BY <1>1, <1>7 DEF ReadForCompletion, MediaBegins, MediaAt
    <2> QED  BY <1>4, <2>1, <2>2 DEF MediaPcs, PostPcs
  <1>8. CASE CheckImageFile(c)
    <2>1. PICK pc \in {"marking", "done"} :
            MediaGoTo(c, pc) /\ (pc = "marking" => imageFile = "good")
      BY <1>8 DEF CheckImageFile
    <2>2. r.pc = "checking" /\ r.op = "completeImage" /\ UNCHANGED <<flagVars, gone, imageVars>>
      BY <1>1, <1>8 DEF CheckImageFile, MediaAt
    <2> QED  BY <1>4, <2>1, <2>2 DEF MediaPcs, PostPcs
  <1>9. CASE MarkUploadCompleted(c)
    <2>1. /\ MediaGoTo(c, "done") /\ r.pc = "marking" /\ r.op = "completeImage"
          /\ UNCHANGED <<flagVars, gone, imageFile, posts>>
      BY <1>1, <1>9 DEF MarkUploadCompleted, MediaAt
    <2>2. imageFile = "good"  BY <1>2, <2>1 DEF MediaCallOK
    <2>3. PICK status : status = (IF UploadRowExists THEN "uploaded" ELSE upload.status)  OBVIOUS
    <2>4. upload' = [upload EXCEPT !.status = status]
      BY <1>3, <1>9, <2>3 DEF MarkUploadCompleted
    <2>5. /\ upload' \in [status : {"none", "signed", "uploaded", "attached", "deleted"},
                     owner : MediaUsers \cup {Nobody}, attachedTo : MediaPosts \cup {NoPost}]
          /\ upload'.status = status /\ upload'.owner = upload.owner
      BY <1>3, <2>3, <2>4
    <2>6. /\ untaken' \subseteq {"reset", "unattached"} /\ untaken \subseteq untaken'
          /\ upload.status = "attached" => untaken' # {}
      BY <1>3, <1>9 DEF MarkUploadCompleted
    <2>7. \/ upload'.status = upload.status
          \/ upload.status = "signed" /\ upload'.status = "uploaded"
          \/ upload'.status = "uploaded" /\ untaken' # {}
      BY <2>3, <2>5, <2>6 DEF UploadRowExists
    <2>8. imageFile # "none" => upload'.status # "none"
      BY <1>3, <2>3, <2>5 DEF RowsAreFinal
    <2> QED  BY <1>1, <1>3, <2>1, <2>2, <2>5, <2>6, <2>7, <2>8, QuietImageStep DEF MediaPcs, PostPcs
  <1>10. CASE DeletePostWithImage(c)
    <2>1. /\ MediaGoTo(c, "done") /\ r.pc = "idle"
          /\ UNCHANGED <<flagVars, gone, imageFile, untaken>>
      BY <1>1, <1>10 DEF DeletePostWithImage, MediaBegins, MediaAt
    <2>2. CASE IsOwnPost(c)
      <3>1. /\ posts' = [posts EXCEPT ![r.post].status = "deleted", ![r.post].shows = FALSE]
            /\ upload' = Detached({r.post})
        BY <1>1, <1>10, <2>2 DEF DeletePostWithImage
      <3>2. PICK k : k = [posts[r.post] EXCEPT !.status = "deleted", !.shows = FALSE]  OBVIOUS
      <3>3. /\ k \in [status : {"none", "stored", "deleted"},
                      author : MediaUsers \cup {Nobody}, shows : BOOLEAN]
            /\ ~k.shows /\ k.status = "deleted"
        <4>1. PICK o : o = posts[r.post]  OBVIOUS
        <4>2. o \in [status : {"none", "stored", "deleted"},
                     author : MediaUsers \cup {Nobody}, shows : BOOLEAN]
          BY <1>2, <1>3, <4>1
        <4>3. k = [o EXCEPT !.status = "deleted", !.shows = FALSE]  BY <3>2, <4>1
        <4> QED  BY <4>2, <4>3
      <3>4. posts' = [posts EXCEPT ![r.post] = k]  BY <1>2, <1>3, <3>1, <3>2
      <3>5. /\ posts' \in [MediaPosts -> [status : {"none", "stored", "deleted"},
                                      author : MediaUsers \cup {Nobody}, shows : BOOLEAN]]
            /\ \A p \in MediaPosts :
                 /\ posts'[p].status = posts[p].status \/ posts'[p].status = "deleted"
                 /\ posts'[p].shows => /\ posts[p].shows /\ posts'[p].author = posts[p].author
                                       /\ posts'[p].status = posts[p].status
        BY <1>2, <1>3, <3>3, <3>4
      <3>6. /\ upload' \in [status : {"none", "signed", "uploaded", "attached", "deleted"},
                     owner : MediaUsers \cup {Nobody}, attachedTo : MediaPosts \cup {NoPost}]
            /\ upload'.status = upload.status /\ upload'.owner = upload.owner
        BY <1>3, <3>1 DEF Detached
      <3> QED  BY <1>1, <1>3, <2>1, <3>5, <3>6, QuietImageStep DEF RowsAreFinal, MediaPcs, PostPcs
    <2>3. CASE ~IsOwnPost(c)
      <3>1. UNCHANGED <<posts, upload>>  BY <1>10, <2>3 DEF DeletePostWithImage
      <3> QED  BY <1>4, <2>1, <3>1 DEF imageVars, MediaPcs, PostPcs
    <2> QED  BY <2>2, <2>3
  <1> QED  BY <1>5, <1>6, <1>7, <1>8, <1>9, <1>10 DEF ImageSteps

-----------------------------------------------------------------------------
(* MediaUploads: the posts *)

\* A step of such a request that changes no row
LEMMA ReadingStep ==
    ASSUME MediaInv, NEW c \in MediaCalls, NEW r, r = mediaCall[c], NEW q \in MediaCallTypes,
           mediaCall' = [mediaCall EXCEPT ![c] = q], Same(q, r),
           UNCHANGED <<flagVars, gone, upload, imageFile, posts>>,
           untaken' \subseteq {"reset", "unattached"},
           q.pc \notin {"idle", "done"} => r.pc # "done" /\ (r.pc = "idle" => r.user \notin gone),
           q.pc \notin PostPcs => ~q.shows /\ ~q.uses,
           q.uses => q.shows, q.pc \in {"attaching", "writing"} => q.uses,
           q.shows /\ ~q.uses => r.op = "edit",
           q.shows => r.user = upload.owner /\ imageFile = "good",
           q.pc \in PostPcs \cup {"done"},
           ImagesInOrder'
    PROVE  MediaInv'
  <1>1. /\ upload \in [status : {"none", "signed", "uploaded", "attached", "deleted"},
                       owner : MediaUsers \cup {Nobody}, attachedTo : MediaPosts \cup {NoPost}]
        /\ posts \in [MediaPosts -> [status : {"none", "stored", "deleted"},
                                     author : MediaUsers \cup {Nobody}, shows : BOOLEAN]]
        /\ RowsAreFinal
    BY DEF MediaInv, MediaTypeOK
  <1>2. UNCHANGED <<flagVars, gone, imageFile>> /\ upload' = upload /\ posts' = posts  OBVIOUS
  <1> QED  BY <1>1, <1>2, ImageStep DEF RowsAreFinal, PostPcs

\* A step of such a request that only reads
LEMMA ReadingKeepsOrder ==
    ASSUME MediaInv, NEW c \in MediaCalls, NEW r, r = mediaCall[c], NEW q, Same(q, r),
           mediaCall' = [mediaCall EXCEPT ![c] = q], UNCHANGED <<upload, posts>>,
           untaken \subseteq untaken',
           q.shows => r.shows \/ upload.status = "uploaded" \/ Shown(r.post),
           q.shows /\ ~q.uses => (r.shows /\ ~r.uses) \/ Shown(r.post),
           r.uses /\ r.pc \in {"attaching", "writing"} /\ upload.status = "uploaded" /\ untaken' = {} =>
                \/ q.uses /\ q.pc \in {"attaching", "writing"}
                \/ posts[r.post].status # "stored"
    PROVE  ImagesInOrder'
  <1>1. upload' = upload /\ posts' = posts  OBVIOUS
  <1>2. PostsGoOn(r, q)  BY <1>1, PostsOnlyGo
  <1>3. UploadGoesOn  BY <1>1 DEF UploadGoesOn
  <1>4. RequestGoesOn(r, q)  BY <1>1 DEF RequestGoesOn
  <1> QED  BY <1>2, <1>3, <1>4, InOrderStep

LEMMA ResolveKeeps ==
    ASSUME MediaInv, NEW c \in MediaCalls, NEW r, r = mediaCall[c], r.pc = "idle",
           r.user \notin gone, Resolve(c), UNCHANGED <<flagVars, gone, imageVars>>
    PROVE  MediaInv'
  <1>1. MediaCallOK(r) /\ r \in MediaCallTypes  BY MediaCallOf
  <1>2. CASE IsResolved(c)
    <2>1. /\ mediaCall' = [mediaCall EXCEPT ![c].pc = "moderating", ![c].shows = TRUE,
                                             ![c].uses = TRUE]
          /\ UNCHANGED <<upload, imageFile, posts, untaken>>
      BY <1>2 DEF Resolve, imageVars
    <2>2. PICK q : q = [r EXCEPT !.pc = "moderating", !.shows = TRUE, !.uses = TRUE]  OBVIOUS
    <2>3. q \in MediaCallTypes /\ Same(q, r) /\ q.pc = "moderating" /\ q.shows /\ q.uses
      BY <1>1, <2>2 DEF MediaCallTypes, MediaPcs, Same
    <2>4. mediaCall' = [mediaCall EXCEPT ![c] = q]  BY <2>1, <2>2
    <2>5. upload.status = "uploaded" /\ upload.owner = r.user
      BY <1>2 DEF IsResolved, IsOwnedUpload
    <2>6. imageFile = "good" /\ untaken' \subseteq {"reset", "unattached"}
      BY <2>1, <2>5 DEF MediaInv, RowsAreFinal, MediaTypeOK
    <2>7. ImagesInOrder'
      BY <2>1, <2>3, <2>4, <2>5, ReadingKeepsOrder
    <2> QED  BY <2>1, <2>3, <2>4, <2>5, <2>6, <2>7, ReadingStep DEF PostPcs
  <1>3. CASE ~IsResolved(c)
    <2>1. MediaGoTo(c, "done")  BY <1>3 DEF Resolve
    <2>2. UNCHANGED <<flagVars, gone, imageVars>>  OBVIOUS
    <2>3. /\ upload \in [status : {"none", "signed", "uploaded", "attached", "deleted"},
                         owner : MediaUsers \cup {Nobody}, attachedTo : MediaPosts \cup {NoPost}]
          /\ posts \in [MediaPosts -> [status : {"none", "stored", "deleted"},
                                     author : MediaUsers \cup {Nobody}, shows : BOOLEAN]]
          /\ untaken \subseteq {"reset", "unattached"} /\ RowsAreFinal
      BY DEF MediaInv, MediaTypeOK
    <2>4. UNCHANGED <<flagVars, gone, imageFile>> /\ UNCHANGED <<upload, posts, untaken>>
      BY <2>2 DEF imageVars
    <2> QED  BY <2>1, <2>3, <2>4, QuietImageStep DEF RowsAreFinal, MediaPcs, PostPcs
  <1> QED  BY <1>2, <1>3

PostSteps(c) ==
    \/ ReadForPost(c) \/ ReadForImageEdit(c) \/ StorePost(c) \/ FailPost(c)
    \/ ReadForAttachment(c) \/ AttachUploadToPost(c) \/ LoseAttachment(c)

LEMMA PostStepsKeep ==
    ASSUME MediaInv, NEW c \in MediaCalls, PostSteps(c)
    PROVE  MediaInv'
  <1>1. PICK r : r = mediaCall[c]  OBVIOUS
  <1>2. /\ MediaCallOK(r) /\ r.user \in MediaUsers /\ r.post \in MediaPosts
        /\ r.shows \in BOOLEAN /\ r.uses \in BOOLEAN
    BY <1>1, MediaCallOf DEF MediaCallTypes
  <1>3. /\ upload \in [status : {"none", "signed", "uploaded", "attached", "deleted"},
                       owner : MediaUsers \cup {Nobody}, attachedTo : MediaPosts \cup {NoPost}]
        /\ posts \in [MediaPosts -> [status : {"none", "stored", "deleted"},
                                     author : MediaUsers \cup {Nobody}, shows : BOOLEAN]]
        /\ untaken \subseteq {"reset", "unattached"} /\ RowsAreFinal
    BY DEF MediaInv, MediaTypeOK
  <1>4. CASE ReadForPost(c)
    <2>1. /\ Resolve(c) /\ r.pc = "idle" /\ r.user \notin gone
          /\ UNCHANGED <<flagVars, gone, imageVars>>
      BY <1>1, <1>4 DEF ReadForPost, MediaBegins, MediaAt
    <2> QED  BY <1>1, <2>1, ResolveKeeps
  <1>5. CASE ReadForImageEdit(c)
    <2>1. /\ r.pc = "idle" /\ r.user \notin gone
          /\ UNCHANGED <<flagVars, gone, imageVars>>
          /\ UNCHANGED <<upload, imageFile, posts, untaken>> /\ r.op = "edit"
      BY <1>1, <1>5 DEF ReadForImageEdit, MediaBegins, MediaAt, imageVars
    <2>2. CASE Resolve(c)  BY <1>1, <2>1, <2>2, ResolveKeeps
    <2>3. CASE /\ IsOwnPost(c)
               /\ \E shows \in {posts[r.post].shows, FALSE} :
                    mediaCall' = [mediaCall EXCEPT ![c].pc = "moderating", ![c].shows = shows]
      <3>1. PICK shows \in {posts[r.post].shows, FALSE} :
              mediaCall' = [mediaCall EXCEPT ![c].pc = "moderating", ![c].shows = shows]
        BY <2>3
      <3>2. shows \in BOOLEAN /\ (shows => Shown(r.post))  BY <1>2, <1>3, <3>1 DEF Shown
      <3>3. PICK q : q = [r EXCEPT !.pc = "moderating", !.shows = shows]  OBVIOUS
      <3>4. /\ q \in MediaCallTypes /\ Same(q, r) /\ q.pc = "moderating"
            /\ q.shows = shows /\ q.uses = r.uses
        BY <1>2, <3>2, <3>3 DEF MediaCallOK, MediaCallTypes, MediaPcs, Same
      <3>5. mediaCall' = [mediaCall EXCEPT ![c] = q]  BY <1>1, <3>1, <3>3
      <3>6. ~q.uses  BY <1>2, <2>1, <3>4 DEF MediaCallOK, PostPcs
      <3>7. q.shows => r.user = upload.owner /\ imageFile = "good"
        <4>1. posts[r.post].author = r.user  BY <1>1, <2>3 DEF IsOwnPost
        <4> QED  BY <1>2, <3>2, <3>4, <4>1 DEF MediaInv, ShownImagesAreFinal, Shown
      <3>8. ImagesInOrder'
        BY <1>1, <1>2, <2>1, <3>2, <3>4, <3>5, <3>6, ReadingKeepsOrder
      <3> QED
        BY <1>1, <1>3, <2>1, <2>3, <3>4, <3>5, <3>6, <3>7, <3>8, ReadingStep DEF PostPcs
    <2>4. CASE MediaGoTo(c, "done")
      <3>1. /\ UNCHANGED <<flagVars, gone, imageFile>> /\ UNCHANGED <<upload, posts, untaken>>
        BY <2>1, <2>4
      <3> QED  BY <1>1, <1>3, <2>1, <2>4, <3>1, QuietImageStep DEF RowsAreFinal, MediaPcs, PostPcs
    <2> QED  BY <1>1, <1>5, <2>2, <2>3, <2>4 DEF ReadForImageEdit
  <1>6. ASSUME NEW pc \in {"writing", "done"}, MediaGoTo(c, pc), r.pc \in PostPcs,
               UNCHANGED <<flagVars, gone, imageVars>>,
               pc = "writing" => r.uses,
               upload.status = "uploaded" /\ r.uses => pc = "writing" \/ r.pc = "moderating"
        PROVE  MediaInv'
    <2>1. PICK q \in MediaCallTypes :
              /\ mediaCall' = [mediaCall EXCEPT ![c] = q] /\ Same(q, r) /\ q.pc = pc
              /\ q.shows = (r.shows /\ pc # "done") /\ q.uses = (r.uses /\ pc # "done")
      BY <1>1, <1>6, MediaGoes DEF MediaPcs
    <2>2. UNCHANGED <<flagVars, gone, upload, imageFile, posts>> /\ UNCHANGED untaken
      BY <1>6 DEF imageVars
    <2>3. ImagesInOrder'
      <3>1. UNCHANGED <<upload, posts>> /\ untaken \subseteq untaken'  BY <2>2
      <3> QED  BY <1>1, <1>2, <1>6, <2>1, <3>1, ReadingKeepsOrder
    <2>4. q.shows => r.user = upload.owner /\ imageFile = "good"
      BY <1>2, <2>1 DEF MediaCallOK
    <2>5. (q.uses => q.shows) /\ (q.shows /\ ~q.uses => r.op = "edit")
      BY <1>2, <2>1 DEF MediaCallOK
    <2> QED  BY <1>1, <1>3, <1>6, <2>1, <2>2, <2>3, <2>4, <2>5, ReadingStep DEF PostPcs
  <1>7. CASE StorePost(c)
    <2>1. r.pc = "moderating" /\ UNCHANGED <<flagVars, gone, upload, imageFile, untaken>>
      BY <1>1, <1>7 DEF StorePost
    <2>2. CASE /\ posts[r.post].status = IF r.op = "post" THEN "none" ELSE "stored"
               /\ ImageMayBeStored(r)
      <3>1. /\ posts' = [posts EXCEPT ![r.post] =
                            [status |-> "stored", author |-> r.user, shows |-> r.shows]]
            /\ MediaGoTo(c, IF r.uses THEN "attaching" ELSE "done")
        BY <1>1, <1>7, <2>2 DEF StorePost
      <3>2. PICK pc \in {"attaching", "done"} :
              MediaGoTo(c, pc) /\ (pc = "attaching" <=> r.uses)
        BY <3>1
      <3>3. PICK q \in MediaCallTypes :
              /\ mediaCall' = [mediaCall EXCEPT ![c] = q] /\ Same(q, r) /\ q.pc = pc
              /\ q.shows = (r.shows /\ pc # "done") /\ q.uses = (r.uses /\ pc # "done")
        BY <1>1, <3>2, MediaGoes DEF MediaPcs
      <3>4. /\ posts' \in [MediaPosts -> [status : {"none", "stored", "deleted"},
                                     author : MediaUsers \cup {Nobody}, shows : BOOLEAN]]
            /\ posts'[r.post].shows = r.shows /\ posts'[r.post].author = r.user
            /\ posts'[r.post].status = "stored"
            /\ \A p \in MediaPosts \ {r.post} : posts'[p] = posts[p]
        BY <1>2, <1>3, <3>1
      <3>5. q.uses <=> r.uses  BY <3>2, <3>3
      <3>6. ImagesInOrder'
        <4>1. ImagesInOrder  BY DEF MediaInv
        <4>2. \A p \in MediaPosts :
                 /\ posts[p].status = "deleted" => posts'[p].status = "deleted"
                 /\ posts[p].status = "stored" => posts'[p].status \in {"stored", "deleted"}
                 /\ Shown(p)' => posts'[p].status = "stored"
                 /\ Shown(p)' => \/ Shown(p)
                                 \/ /\ p = r.post /\ r.shows
                                    /\ r.uses => q.uses /\ q.pc \in {"attaching", "writing"}
          BY <2>2, <3>2, <3>3, <3>4, <3>5, <4>1 DEF Shown, ImagesInOrder
        <4>3. \A p, p2 \in MediaPosts : Shown(p)' /\ Shown(p2)' => p = p2
          BY <2>2, <3>4, <4>1 DEF Shown, ImagesInOrder, ImageMayBeStored
        <4>4. /\ q.shows => r.shows
              /\ q.shows /\ ~q.uses => r.shows /\ ~r.uses
          BY <3>3, <3>5
        <4>5. r.pc \notin {"attaching", "writing"} /\ untaken \subseteq untaken'
              /\ upload'.status = upload.status
          BY <2>1
        <4>6. PostsGoOn(r, q)  BY <4>2, <4>3 DEF PostsGoOn
        <4>7. UploadGoesOn  BY <4>5 DEF UploadGoesOn
        <4>8. RequestGoesOn(r, q)  BY <4>4, <4>5 DEF RequestGoesOn
        <4> QED  BY <1>1, <3>3, <4>6, <4>7, <4>8, InOrderStep
      <3>7. q.shows => r.user = upload.owner /\ imageFile = "good"
        BY <1>2, <3>3 DEF MediaCallOK
      <3>8. (q.uses => q.shows) /\ (q.shows /\ ~q.uses => r.op = "edit")
        BY <1>2, <3>2, <3>3 DEF MediaCallOK
      <3>9. \A p \in MediaPosts : posts'[p].shows =>
               \/ posts[p].shows /\ posts'[p].author = posts[p].author
               \/ posts'[p].author = upload.owner /\ imageFile = "good"
        BY <1>2, <3>4 DEF MediaCallOK
      <3>10. UNCHANGED <<flagVars, gone, imageFile>> /\ upload' = upload /\ untaken' = untaken
        BY <2>1
      <3> QED
        BY <1>1, <1>3, <2>1, <3>2, <3>3, <3>4, <3>5, <3>6, <3>7, <3>8, <3>9, <3>10, ImageStep
        DEF PostPcs, RowsAreFinal
    <2>3. CASE ~(/\ posts[r.post].status = IF r.op = "post" THEN "none" ELSE "stored"
                 /\ ImageMayBeStored(r))
      <3>1. UNCHANGED posts /\ MediaGoTo(c, "done")  BY <1>1, <1>7, <2>3 DEF StorePost
      <3> QED  BY <1>6, <2>1, <3>1 DEF imageVars, PostPcs
    <2> QED  BY <2>2, <2>3
  <1>8. CASE FailPost(c)
    <2>1. r.pc = "moderating" /\ MediaGoTo(c, "done") /\ UNCHANGED <<flagVars, gone, imageVars>>
      BY <1>1, <1>8 DEF FailPost
    <2> QED  BY <1>6, <2>1 DEF PostPcs
  <1>9. CASE ReadForAttachment(c)
    <2>1. r.pc = "attaching" /\ UNCHANGED <<flagVars, gone, imageVars>>
      BY <1>1, <1>9 DEF ReadForAttachment
    <2>2. PICK pc \in {"writing", "done"} : MediaGoTo(c, pc) /\ (IsResolved(c) => pc = "writing")
      BY <1>9 DEF ReadForAttachment
    <2>3. r.uses /\ r.user = upload.owner  BY <1>2, <2>1 DEF MediaCallOK
    <2>4. upload.status = "uploaded" => IsResolved(c)
      BY <1>1, <2>3 DEF IsResolved, IsOwnedUpload, UploadRowExists
    <2> QED  BY <1>6, <2>1, <2>2, <2>3, <2>4 DEF PostPcs
  <1>10. ASSUME MediaGoTo(c, "done"), r.pc \in {"attaching", "writing"},
                UNCHANGED <<flagVars, gone, imageFile, posts>>,
                \/ /\ upload' = upload
                   /\ untaken' = untaken \cup {"unattached"}
                \/ /\ UNCHANGED untaken
                   /\ \/ upload' = [upload EXCEPT !.status = "attached", !.attachedTo = r.post]
                      \/ /\ upload' = upload
                         /\ upload.status = "uploaded" => posts[r.post].status # "stored"
         PROVE  MediaInv'
    <2>1. PICK q \in MediaCallTypes :
              /\ mediaCall' = [mediaCall EXCEPT ![c] = q] /\ Same(q, r) /\ q.pc = "done"
              /\ q.shows = (r.shows /\ "done" # "done") /\ q.uses = (r.uses /\ "done" # "done")
      BY <1>1, <1>10, MediaGoes DEF MediaPcs
    <2>2. ~q.shows /\ ~q.uses /\ imageFile = "good"
      BY <1>2, <1>10, <2>1 DEF MediaCallOK
    <2>3. upload' \in [status : {"none", "signed", "uploaded", "attached", "deleted"},
                       owner : MediaUsers \cup {Nobody}, attachedTo : MediaPosts \cup {NoPost}]
          /\ upload'.owner = upload.owner
          /\ (upload' = upload \/ upload'.status = "attached")
      BY <1>2, <1>3, <1>10
    <2>4. ImagesInOrder'
      <3>1. PostsGoOn(r, q)  BY <1>10, PostsOnlyGo
      <3>2. /\ untaken \subseteq untaken'
            /\ upload'.status = "uploaded" /\ untaken' = {} =>
                 upload.status = "uploaded" /\ posts'[r.post].status # "stored"
            /\ upload'.status \in {"none", "signed"} => upload.status \in {"none", "signed"}
        BY <1>3, <1>10, <2>3
      <3>3. UploadGoesOn  BY <3>2 DEF UploadGoesOn
      <3>4. RequestGoesOn(r, q)  BY <2>2, <3>2 DEF RequestGoesOn
      <3> QED  BY <1>1, <2>1, <3>1, <3>3, <3>4, InOrderStep
    <2>5. untaken' \subseteq {"reset", "unattached"}  BY <1>3, <1>10
    <2>6. imageFile # "none" => upload'.status # "none"  BY <1>3, <2>3 DEF RowsAreFinal
    <2>7. /\ UNCHANGED <<flagVars, gone, imageFile>>
          /\ posts' \in [MediaPosts -> [status : {"none", "stored", "deleted"},
                                     author : MediaUsers \cup {Nobody}, shows : BOOLEAN]]
          /\ \A p \in MediaPosts : posts'[p].shows =>
               posts[p].shows /\ posts'[p].author = posts[p].author
      BY <1>3, <1>10
    <2>8. /\ q.pc = "done" /\ q.pc \notin {"attaching", "writing"}
          /\ ~q.shows /\ ~q.uses
      BY <2>1, <2>2
    <2> QED
      BY <1>1, <2>1, <2>2, <2>3, <2>4, <2>5, <2>6, <2>7, <2>8, ImageStep
  <1>11. CASE AttachUploadToPost(c)
    <2>1. /\ MediaGoTo(c, "done") /\ r.pc = "writing"
          /\ UNCHANGED <<flagVars, gone, imageFile, posts>>
      BY <1>1, <1>11 DEF AttachUploadToPost
    <2>2. /\ UNCHANGED untaken
          /\ \/ upload' = [upload EXCEPT !.status = "attached", !.attachedTo = r.post]
             \/ /\ upload' = upload
                /\ upload.status = "uploaded" => posts[r.post].status # "stored"
      BY <1>1, <1>11 DEF AttachUploadToPost, AttachedUpload, UploadRowExists
    <2> QED  BY <1>10, <2>1, <2>2
  <1>12. CASE LoseAttachment(c)
    <2>1. /\ MediaGoTo(c, "done") /\ r.pc \in {"attaching", "writing"}
          /\ UNCHANGED <<flagVars, gone, imageFile, posts>>
          /\ upload' = upload /\ untaken' = untaken \cup {"unattached"}
      BY <1>1, <1>12 DEF LoseAttachment
    <2> QED  BY <1>10, <2>1
  <1> QED  BY <1>4, <1>5, <1>7, <1>8, <1>9, <1>11, <1>12 DEF PostSteps

-----------------------------------------------------------------------------
(* MediaUploads: the account, the clients and the theorems *)

\* A deletion: the user's requests under way are marked, its rows go.
LEMMA LeavingKeepsMedia ==
    ASSUME MediaInv, NEW c \in MediaCalls, LeaveWithMedia(c)
    PROVE  MediaInv'
  <1>1. PICK u : u = mediaCall[c].user  OBVIOUS
  <1>2. /\ mediaCall[c].pc = "idle" /\ u \notin gone /\ u \in MediaUsers
        /\ gone' = gone \cup {u} /\ selected' = selected \ {u}
        /\ UNCHANGED <<flag, flagFile, imageFile, untaken>>
    <2>1. u \in MediaUsers
      <3>1. PICK r : r = mediaCall[c]  OBVIOUS
      <3> QED  BY <1>1, <3>1, MediaCallOf DEF MediaCallTypes
    <2> QED  BY <1>1, <2>1 DEF LeaveWithMedia, MediaBegins, MediaAt, ClearedSelections
  <1>3. PICK own : own = {p \in MediaPosts : posts[p].status = "stored" /\ posts[p].author = u}
    OBVIOUS
  <1>4. posts' = [p \in MediaPosts |->
          IF p \in own THEN [posts[p] EXCEPT !.status = "deleted", !.shows = FALSE] ELSE posts[p]]
    BY <1>1, <1>3 DEF LeaveWithMedia
  <1>5. upload' = IF IsOwnedUpload(c)
                   THEN [upload EXCEPT !.status = "deleted", !.attachedTo = NoPost]
                   ELSE Detached(own)
    BY <1>1, <1>3 DEF LeaveWithMedia
  <1>6. mediaCall' = [b \in MediaCalls |->
         IF b = c THEN [mediaCall[b] EXCEPT !.pc = "done"]
         ELSE [mediaCall[b] EXCEPT !.overtaken =
                 @ \/ (mediaCall[b].user = u /\ mediaCall[b].pc \notin {"idle", "done"})]]
    BY <1>1 DEF LeaveWithMedia
  <1>7. /\ upload \in [status : {"none", "signed", "uploaded", "attached", "deleted"},
                       owner : MediaUsers \cup {Nobody}, attachedTo : MediaPosts \cup {NoPost}]
        /\ posts \in [MediaPosts -> [status : {"none", "stored", "deleted"},
                                     author : MediaUsers \cup {Nobody}, shows : BOOLEAN]]
        /\ RowsAreFinal
    BY DEF MediaInv, MediaTypeOK
  <1>8. /\ upload' \in [status : {"none", "signed", "uploaded", "attached", "deleted"},
                        owner : MediaUsers \cup {Nobody}, attachedTo : MediaPosts \cup {NoPost}]
        /\ upload'.owner = upload.owner
        /\ (upload'.status = upload.status \/ upload'.status = "deleted")
    <2>1. CASE IsOwnedUpload(c)  BY <1>5, <1>7, <2>1
    <2>2. CASE ~IsOwnedUpload(c)  BY <1>5, <1>7, <2>2 DEF Detached
    <2> QED  BY <2>1, <2>2
  <1>9. ASSUME NEW p \in MediaPosts
        PROVE  /\ posts'[p] \in [status : {"none", "stored", "deleted"},
                                 author : MediaUsers \cup {Nobody}, shows : BOOLEAN]
               /\ posts'[p].shows => /\ posts[p].shows /\ posts'[p].author = posts[p].author
                                     /\ posts'[p].status = posts[p].status
               /\ posts'[p].status = posts[p].status \/ posts'[p].status = "deleted"
    <2>1. PICK o : o = posts[p]  OBVIOUS
    <2>2. o \in [status : {"none", "stored", "deleted"},
                 author : MediaUsers \cup {Nobody}, shows : BOOLEAN]
      BY <1>7, <2>1
    <2>3. posts'[p] = IF p \in own THEN [o EXCEPT !.status = "deleted", !.shows = FALSE] ELSE o
      BY <1>4, <2>1
    <2>4. CASE p \in own  BY <2>1, <2>2, <2>3, <2>4
    <2>5. CASE p \notin own  BY <2>1, <2>2, <2>3, <2>5
    <2> QED  BY <2>4, <2>5
  <1>10. posts' \in [MediaPosts -> [status : {"none", "stored", "deleted"},
                                     author : MediaUsers \cup {Nobody}, shows : BOOLEAN]]
    BY <1>4, <1>9
  <1>11. ASSUME NEW d \in MediaCalls
         PROVE  \E k \in MediaCallTypes :
                  /\ mediaCall'[d] = k /\ k.op = mediaCall[d].op /\ k.user = mediaCall[d].user
                  /\ k.post = mediaCall[d].post /\ k.shows = mediaCall[d].shows
                  /\ k.uses = mediaCall[d].uses
                  /\ mediaCall[d].overtaken => k.overtaken
                  /\ d # c => k.pc = mediaCall[d].pc
                  /\ d = c => k.pc = "done"
                  /\ d # c /\ k.user = u /\ k.pc \notin {"idle", "done"} => k.overtaken
    <2>1. PICK o : o = mediaCall[d]  OBVIOUS
    <2>2. o \in MediaCallTypes  BY <2>1, MediaCallOf
    <2>3. CASE d = c
      <3>1. PICK k : k = [o EXCEPT !.pc = "done"]  OBVIOUS
      <3>2. mediaCall'[d] = k  BY <1>6, <2>1, <2>3, <3>1
      <3> QED  BY <2>1, <2>2, <2>3, <3>1, <3>2 DEF MediaCallTypes, MediaPcs
    <2>4. CASE d # c
      <3>1. PICK over : /\ over = (o.overtaken \/ (o.user = u /\ o.pc \notin {"idle", "done"}))
                        /\ over \in BOOLEAN
        <4>1. (o.overtaken \/ (o.user = u /\ o.pc \notin {"idle", "done"})) \in BOOLEAN  OBVIOUS
        <4> QED  BY <4>1, Zenon
      <3>2. PICK k : k = [o EXCEPT !.overtaken = over]  OBVIOUS
      <3>3. mediaCall'[d] = k  BY <1>6, <2>1, <2>4, <3>1, <3>2
      <3> QED  BY <2>1, <2>2, <2>4, <3>1, <3>2, <3>3 DEF MediaCallTypes
    <2> QED  BY <2>3, <2>4
  <1>12. ASSUME NEW d \in MediaCalls PROVE MediaCallOK(mediaCall[d])'
    <2>1. PICK o : o = mediaCall[d]  OBVIOUS
    <2>2. MediaCallOK(o)  BY <2>1, MediaCallOf
    <2>3. PICK k \in MediaCallTypes :
                  /\ mediaCall'[d] = k /\ k.op = o.op /\ k.user = o.user
                  /\ k.shows = o.shows /\ k.uses = o.uses
                  /\ o.overtaken => k.overtaken
                  /\ d # c => k.pc = o.pc
                  /\ d = c => k.pc = "done"
                  /\ d # c /\ k.user = u /\ k.pc \notin {"idle", "done"} => k.overtaken
      BY <1>11, <2>1
    <2>4. MediaCallOK(k)'
      <3>1. CASE d = c
        <4>1. ~k.shows /\ ~k.uses /\ k.pc = "done"
          BY <1>2, <2>1, <2>2, <2>3, <3>1 DEF MediaCallOK, PostPcs
        <4> QED  BY <2>3, <4>1 DEF MediaCallOK, PostPcs
      <3>2. CASE d # c
        <4>1. k.pc \notin {"idle", "done"} /\ k.user \in gone' => k.overtaken
          BY <1>2, <2>2, <2>3, <3>2 DEF MediaCallOK
        <4>2. k.shows => k.user = upload'.owner /\ imageFile' = "good"
          BY <1>2, <1>8, <2>2, <2>3 DEF MediaCallOK
        <4> QED  BY <1>2, <2>2, <2>3, <3>2, <4>1, <4>2 DEF MediaCallOK
      <3> QED  BY <3>1, <3>2
    <2> QED  BY <2>3, <2>4
  <1>13. MediaTypeOK'
    BY <1>2, <1>6, <1>8, <1>10 DEF MediaInv, MediaTypeOK
  <1>14. mediaCall' = [d \in MediaCalls |-> mediaCall'[d]]  BY <1>6
  <1>15. RowsAreFinal'  BY <1>2, <1>7, <1>8 DEF RowsAreFinal
  <1>16. LeaversSelectNothing'
    <2> SUFFICES ASSUME NEW w \in selected' \cap gone'
                 PROVE  \E d \in MediaCalls : mediaCall'[d].op = "select" /\ mediaCall'[d].user = w
                                              /\ mediaCall'[d].overtaken
      BY DEF LeaversSelectNothing
    <2>1. PICK d \in MediaCalls : mediaCall[d].op = "select" /\ mediaCall[d].user = w
                                  /\ mediaCall[d].overtaken
      BY <1>2 DEF MediaInv, LeaversSelectNothing
    <2> QED  BY <1>11, <2>1
  <1>17. ShownImagesAreFinal'
    BY <1>2, <1>8, <1>9 DEF MediaInv, ShownImagesAreFinal
  <1>18. ImagesInOrder'
    <2>1. ImagesInOrder  BY DEF MediaInv
    <2>2. \A p \in MediaPosts :
             /\ posts[p].status = "deleted" => posts'[p].status = "deleted"
             /\ posts[p].status = "stored" => posts'[p].status \in {"stored", "deleted"}
             /\ Shown(p)' => Shown(p) /\ posts'[p].status = "stored"
      BY <1>9, <2>1 DEF Shown, ImagesInOrder
    <2>3. \A p, p2 \in MediaPosts : Shown(p)' /\ Shown(p2)' => p = p2
      BY <2>1, <2>2 DEF ImagesInOrder
    <2>4. ASSUME NEW d \in MediaCalls
          PROVE  /\ mediaCall'[d].post = mediaCall[d].post
                 /\ Shows(d)' => Shows(d)
                 /\ KeepsImage(d)' => KeepsImage(d)
                 /\ Backs(d) => Backs(d)'
      <3>1. CASE d = c
        <4>1. ~mediaCall[c].uses
          <5>1. PICK r : r = mediaCall[c]  OBVIOUS
          <5> QED  BY <1>2, <5>1, MediaCallOf DEF MediaCallOK, PostPcs
        <4> QED  BY <1>11, <3>1, <4>1 DEF Shows, KeepsImage, Backs
      <3>2. CASE d # c  BY <1>11, <3>2 DEF Shows, KeepsImage, Backs
      <3> QED  BY <3>1, <3>2
    <2>5. /\ untaken \subseteq untaken'
          /\ upload'.status \in {"none", "signed"} => upload.status \in {"none", "signed"}
          /\ upload'.status = "uploaded" => upload.status = "uploaded"
      BY <1>2, <1>8
    <2> QED  BY <2>2, <2>3, <2>4, <2>5, InOrderAfter
  <1> QED  BY <1>12, <1>13, <1>14, <1>15, <1>16, <1>17, <1>18 DEF MediaInv

\* A client stores a file.
LEMMA StoringKeepsMedia ==
    ASSUME MediaInv, StoreFlagFile \/ StoreImageFile
    PROVE  MediaInv'
  <1>1. UNCHANGED <<flag, selected, gone, mediaCall, upload, posts, untaken>>
    BY DEF StoreFlagFile, StoreImageFile, flagVars, imageVars
  <1>2. /\ flagFile' \in Files /\ (flagFile = "good" => flagFile' = "good")
        /\ imageFile' \in Files /\ (imageFile = "good" => imageFile' = "good")
        /\ imageFile' # "none" => upload.status # "none"
    BY DEF StoreFlagFile, StoreImageFile, flagVars, imageVars, MediaInv, MediaTypeOK, RowsAreFinal,
           Files
  <1>3. Forward  BY <1>1, <1>2 DEF Forward
  <1>4. ASSUME NEW d \in MediaCalls PROVE MediaCallOK(mediaCall[d])'
    <2>1. PICK k : k = mediaCall[d]  OBVIOUS
    <2>2. MediaCallOK(k)'  BY <1>3, <2>1, MediaCallOf, MediaCallStays
    <2> QED  BY <1>1, <2>1, <2>2
  <1>5. MediaTypeOK'  BY <1>1, <1>2 DEF MediaInv, MediaTypeOK
  <1>6. RowsAreFinal'  BY <1>1, <1>2 DEF MediaInv, RowsAreFinal
  <1>7. LeaversSelectNothing'  BY <1>1 DEF MediaInv, LeaversSelectNothing
  <1>8. ShownImagesAreFinal'  BY <1>1, <1>2 DEF MediaInv, ShownImagesAreFinal
  <1>9. ImagesInOrder'
    BY <1>1 DEF MediaInv, ImagesInOrder, NothingShows, Shown, Shows, KeepsImage, Backed, Backs
  <1> QED  BY <1>1, <1>4, <1>5, <1>6, <1>7, <1>8, <1>9 DEF MediaInv

LEMMA MediaInvAtInit == MediaInit => MediaInv
  <1> SUFFICES ASSUME MediaInit PROVE MediaInv  OBVIOUS
  <1>1. PICK mix \in MediaMixes : mediaCall = [c \in MediaCalls |-> Uploading(mix[c])]
    BY DEF MediaInit
  <1>2. ASSUME NEW c \in MediaCalls PROVE MediaCallOK(mediaCall[c]) /\ ~Shows(c)
    <2>1. mix[c] \in (FlagOps \cup ImageOps \cup {"leave"}) \X MediaUsers \X MediaPosts
      BY <1>1, MediaMixesAssumption
    <2>2. PICK k : k = mediaCall[c]  OBVIOUS
    <2>3. /\ k \in MediaCallTypes /\ k.pc = "idle" /\ ~k.shows /\ ~k.uses
      BY <1>1, <2>1, <2>2 DEF Uploading, MediaCallTypes, MediaPcs
    <2> QED  BY <2>2, <2>3 DEF MediaCallOK, PostPcs, Shows
  <1>3. MediaTypeOK /\ RowsAreFinal /\ LeaversSelectNothing /\ ShownImagesAreFinal
    BY <1>1 DEF MediaInit, MediaTypeOK, RowsAreFinal, LeaversSelectNothing, ShownImagesAreFinal,
                Files, NoPost, Nobody
  <1>4. ImagesInOrder
    <2>1. NothingShows /\ upload.status = "none"
      BY <1>2 DEF MediaInit, NothingShows, Shown
    <2> QED  BY <2>1 DEF ImagesInOrder, NothingShows, KeepsImage, Shows
  <1> QED  BY <1>1, <1>2, <1>3, <1>4 DEF MediaInv

LEMMA MediaInvNext == MediaInv /\ [MediaNext]_mediaVars => MediaInv'
  <1> SUFFICES ASSUME MediaInv, [MediaNext]_mediaVars PROVE MediaInv'  OBVIOUS
  <1>1. CASE UNCHANGED mediaVars
    <2>1. UNCHANGED <<flag, flagFile, selected, gone, upload, imageFile, posts, untaken, mediaCall>>
      BY <1>1 DEF mediaVars, flagVars, imageVars
    <2> QED
      BY <2>1 DEF MediaInv, MediaTypeOK, MediaCallOK, RowsAreFinal, LeaversSelectNothing,
                  ShownImagesAreFinal, ImagesInOrder, NothingShows, Shown, Shows, KeepsImage,
                  Backed, Backs
  <1>2. CASE StoreFlagFile \/ StoreImageFile  BY <1>2, StoringKeepsMedia
  <1>3. ASSUME NEW c \in MediaCalls, LeaveWithMedia(c) PROVE MediaInv'
    BY <1>3, LeavingKeepsMedia
  <1>4. ASSUME NEW c \in MediaCalls, FlagSteps(c) PROVE MediaInv'
    BY <1>4, FlagStepsKeep
  <1>5. ASSUME NEW c \in MediaCalls, ImageSteps(c) PROVE MediaInv'
    BY <1>5, ImageStepsKeep
  <1>6. ASSUME NEW c \in MediaCalls, PostSteps(c) PROVE MediaInv'
    BY <1>6, PostStepsKeep
  <1>7. CASE MediaNext
    BY <1>2, <1>3, <1>4, <1>5, <1>6, <1>7 DEF MediaNext, FlagSteps, ImageSteps, PostSteps
  <1> QED  BY <1>1, <1>7

\* What the invariant says of the images that are shown
LEMMA MediaInvHolds == MediaInv => MediaHolds
  <1> SUFFICES ASSUME MediaInv PROVE MediaHolds  OBVIOUS
  <1>1. SelectedFlagsAreStored  BY DEF MediaInv, RowsAreFinal, SelectedFlagsAreStored
  <1>2. AnImageIsOfOnePost
    <2> SUFFICES Cardinality({p \in MediaPosts : posts[p].shows}) <= 1
      BY DEF AnImageIsOfOnePost
    <2>1. \A p, q \in MediaPosts : posts[p].shows /\ posts[q].shows => p = q
      BY DEF MediaInv, ImagesInOrder, Shown
    <2>2. PICK S : S = {p \in MediaPosts : posts[p].shows}  OBVIOUS
    <2>3. CASE S = {}  BY <2>2, <2>3, FS_EmptySet
    <2>4. CASE S # {}
      <3>1. PICK p : S = {p}
        <4>1. PICK p \in S : TRUE  BY <2>4
        <4>2. \A q \in S : q = p  BY <2>1, <2>2, <4>1
        <4> QED  BY <4>1, <4>2
      <3>2. Cardinality(S) = 1  BY <3>1, FS_Singleton
      <3> QED  BY <2>2, <3>2
    <2> QED  BY <2>3, <2>4
  <1>3. UsableUploadsAreFree
    BY DEF MediaInv, ImagesInOrder, UsableUploadsAreFree, Shown, Backed, Backs
  <1> QED  BY <1>1, <1>2, <1>3 DEF MediaHolds, MediaInv

\* The rows of uploads, their files, the posts and the requests have the
\* shape the services give them.
THEOREM MediaIsTyped == MediaSpec => []MediaTypeOK
  <1>1. MediaInit => MediaInv  BY MediaInvAtInit
  <1>2. MediaInv /\ [MediaNext]_mediaVars => MediaInv'  BY MediaInvNext
  <1>3. MediaInv => MediaTypeOK  BY DEF MediaInv
  <1> QED  BY <1>1, <1>2, <1>3, PTL DEF MediaSpec

\* A selected flag can be shown, a deleted user selects nothing that it did
\* not ask for before, an image that a post shows is its author's and was
\* found to be what was announced, it is of one post, and an upload that can
\* still be named for a post is the image of none that is not being attached,
\* unless an attachment was lost or a completion was late: over every
\* interleaving of uploads, selections, posts, edits and deletions.
THEOREM MediaAlwaysHolds == MediaSpec => []MediaHolds
  <1>1. MediaInit => MediaInv  BY MediaInvAtInit
  <1>2. MediaInv /\ [MediaNext]_mediaVars => MediaInv'  BY MediaInvNext
  <1>3. MediaInv => MediaHolds  BY MediaInvHolds
  <1> QED  BY <1>1, <1>2, <1>3, PTL DEF MediaSpec

-----------------------------------------------------------------------------
(* What is promised of accounts. *)

\* Whatever of the account's requests, sign-ins and tokens is under way.
THEOREM DeletionIsAlwaysFinal == AuthSpec /\ OidcSpec /\ AccountSpec => []DeletionIsFinal
<1>1. NothingOutlivesDeletion /\ NoTokenOutlivesAccount /\ DeletedAccountsStayBare
      => DeletionIsFinal
  BY DEF DeletionIsFinal
<1> QED
  BY <1>1, DeletionEndsSessions, DeletionEndsAllTokens, DeletedAccountsAlwaysStayBare, PTL

\* Of any number of persons, registrations, bindings, uploads and posts.
THEOREM UsersAreAlwaysShownTheTruth == AccountSpec /\ MediaSpec => []UsersAreShownTheTruth
<1>1. AnswersNameTheOwner /\ BadgesAreBacked /\ ChosenNicknamesStay /\ MediaHolds
      => UsersAreShownTheTruth
  BY DEF UsersAreShownTheTruth
<1> QED
  BY <1>1, AnswersAlwaysNameTheOwner, BadgesAreAlwaysBacked, ChosenNicknamesAlwaysStay,
     MediaAlwaysHolds, PTL

-----------------------------------------------------------------------------
(* The request handlers together. *)

RequestHandlers ==
    /\ RegistrySpec /\ AuthSpec /\ OidcSpec /\ AccountSpec /\ MediaSpec
    /\ DiscussionSpec /\ DraftSpec /\ VotingSpec
    /\ MarkerSpec /\ CommentsSpec

\* Of any number of persons, contents, calls and readers, as long as the
\* likes of a post can be counted.
THEOREM ServicesAreTyped ==
  ASSUME IsFiniteSet(Writers)
  PROVE  RequestHandlers => []ServicesTypesOK
<1>1. /\ RegistryTypeOK /\ AuthTypeOK /\ OidcTypeOK /\ AccountTypeOK /\ MediaTypeOK
      /\ DiscussionTypeOK /\ DraftTypeOK /\ VotingTypeOK
      /\ MarkerTypeOK /\ CommentsTypeOK
      => ServicesTypesOK
  BY DEF ServicesTypesOK
<1> QED
  BY <1>1, RegistryIsTyped, AuthStateIsTyped, OidcStateIsTyped, AccountsAreTyped, MediaIsTyped,
     DiscussionTypesHold, DraftTypeCorrect, VotingIsTyped, MarkersAreTyped, CommentsAreTyped, PTL
  DEF RequestHandlers
=============================================================================
