---------------------------- MODULE WorkerProofs ----------------------------
(***************************************************************************)
(* What holds of the components with workers of their own, for any number  *)
(* of them: reviews implement OneTimeGrant and approvals are spent once,   *)
(* a push goes out twice only after a trouble, and the map forgets only a  *)
(* vote that raced with the count of its poll.                             *)
(***************************************************************************)
EXTENDS BackgroundWorkers, DataLemmas

-----------------------------------------------------------------------------
(* HumanReview: types. *)

ReviewSteps == {"idle", "inserting", "expiring", "media", "loaded", "verifying",
                "submitting", "removing", "deciding", "recording", "enrolling",
                "revalidating", "consuming", "associating", "deleting", "ok", "failed"}

ReviewStatuses == ActiveStatuses \cup SettledStatuses

ReviewCallTypes ==
    [pc : ReviewSteps, op : ReviewOps, device : ReviewDevices, review : Nat,
     read : ReviewStatuses \cup {"none"}, todo : SUBSET MediaKinds]

ReviewTypes == [device : ReviewDevices, status : ReviewStatuses, overdue : BOOLEAN,
                upsert : BOOLEAN, action : {"none", "approved", "rejected"}, spender : Nat]

ImageTypes == [status : {"none", "signed", "uploaded", "deleted"},
               stored : {"none", "declared", "other"}]

MediaTypes == [MediaKinds -> ImageTypes]

ReviewCallsTyped == reviewCall \in [ReviewCalls -> ReviewCallTypes]

ReviewRowsTyped ==
    /\ reviews \in Seq(ReviewTypes)
    /\ media \in Seq(MediaTypes) /\ Len(media) = Len(reviews)
    /\ settledOrder \in Seq(Nat)
    /\ agedCount \in Nat /\ agedCount <= Len(settledOrder)
    /\ enrolled \subseteq ReviewDevices

\* The call c goes on about r, with some images to do.
Goes(c, pc, r, todo) ==
    /\ ReviewCallsTyped'
    /\ \A d \in ReviewCalls : d # c => reviewCall'[d] = reviewCall[d]
    /\ reviewCall'[c].op = reviewCall[c].op /\ reviewCall'[c].device = reviewCall[c].device
    /\ reviewCall'[c].pc = pc /\ reviewCall'[c].review = r /\ reviewCall'[c].todo = todo

LEMMA ReviewCallReplaced ==
  ASSUME NEW c \in ReviewCalls, ReviewCallsTyped, NEW next \in ReviewCallTypes,
         next.op = reviewCall[c].op, next.device = reviewCall[c].device,
         reviewCall' = [reviewCall EXCEPT ![c] = next]
  PROVE  Goes(c, next.pc, next.review, next.todo) /\ reviewCall'[c] = next
  BY DEF ReviewCallsTyped, Goes

\* A step that remembers nothing.
LEMMA ReviewCallSteps ==
  ASSUME NEW c \in ReviewCalls, ReviewCallsTyped, NEW pc \in ReviewSteps, StepTo(c, pc)
  PROVE  Goes(c, pc, reviewCall[c].review, reviewCall[c].todo)
<1> DEFINE next == [reviewCall[c] EXCEPT !.pc = pc, !.read = "none"]
<1>1. next \in ReviewCallTypes /\ next.op = reviewCall[c].op
      /\ next.device = reviewCall[c].device /\ next.pc = pc
      /\ next.review = reviewCall[c].review /\ next.todo = reviewCall[c].todo
  BY DEF ReviewCallTypes, ReviewCallsTyped
<1>2. reviewCall' = [reviewCall EXCEPT ![c] = next]
  BY DEF ReviewCallsTyped, StepTo
<1> HIDE DEF next
<1> QED BY <1>1, <1>2, ReviewCallReplaced

\* The last step of a call.
LEMMA ReviewCallEnds ==
  ASSUME NEW c \in ReviewCalls, ReviewCallsTyped, NEW pc \in ReviewSteps, End(c, pc)
  PROVE  Goes(c, pc, reviewCall[c].review, {})
<1> DEFINE next == [reviewCall[c] EXCEPT !.pc = pc, !.read = "none", !.todo = {}]
<1>1. next \in ReviewCallTypes /\ next.op = reviewCall[c].op
      /\ next.device = reviewCall[c].device /\ next.pc = pc
      /\ next.review = reviewCall[c].review /\ next.todo = {}
  BY DEF ReviewCallTypes, ReviewCallsTyped
<1>2. reviewCall' = [reviewCall EXCEPT ![c] = next]
  BY DEF ReviewCallsTyped, End
<1> HIDE DEF next
<1> QED BY <1>1, <1>2, ReviewCallReplaced

\* A call that remembers the request it is about, what it read of it, or
\* the images it has still to do.
Loads(c, pc, r, read) ==
    reviewCall' = [reviewCall EXCEPT ![c].pc = pc, ![c].review = r, ![c].read = read]
Takes(c, pc, r) == reviewCall' = [reviewCall EXCEPT ![c].pc = pc, ![c].review = r]
Works(c, pc, todo) == reviewCall' = [reviewCall EXCEPT ![c].pc = pc, ![c].todo = todo]
Makes(c, pc, r, todo) ==
    reviewCall' = [reviewCall EXCEPT ![c].pc = pc, ![c].review = r, ![c].todo = todo]

LEMMA ReviewCallLoads ==
  ASSUME NEW c \in ReviewCalls, ReviewCallsTyped, NEW pc \in ReviewSteps, NEW r \in Nat,
         NEW read \in ReviewStatuses, Loads(c, pc, r, read)
  PROVE  Goes(c, pc, r, reviewCall[c].todo) /\ reviewCall'[c].read = read
<1> DEFINE next == [reviewCall[c] EXCEPT !.pc = pc, !.review = r, !.read = read]
<1>1. next \in ReviewCallTypes /\ next.op = reviewCall[c].op
      /\ next.device = reviewCall[c].device /\ next.pc = pc
      /\ next.review = r /\ next.todo = reviewCall[c].todo /\ next.read = read
  BY DEF ReviewCallTypes, ReviewCallsTyped
<1>2. reviewCall' = [reviewCall EXCEPT ![c] = next]
  BY DEF ReviewCallsTyped, Loads
<1> HIDE DEF next
<1>3. Goes(c, next.pc, next.review, next.todo) /\ reviewCall'[c] = next
  BY <1>1, <1>2, ReviewCallReplaced
<1> QED BY <1>1, <1>3

LEMMA ReviewCallTakes ==
  ASSUME NEW c \in ReviewCalls, ReviewCallsTyped, NEW pc \in ReviewSteps, NEW r \in Nat,
         Takes(c, pc, r)
  PROVE  Goes(c, pc, r, reviewCall[c].todo)
<1> DEFINE next == [reviewCall[c] EXCEPT !.pc = pc, !.review = r]
<1>1. next \in ReviewCallTypes /\ next.op = reviewCall[c].op
      /\ next.device = reviewCall[c].device /\ next.pc = pc
      /\ next.review = r /\ next.todo = reviewCall[c].todo
  BY DEF ReviewCallTypes, ReviewCallsTyped
<1>2. reviewCall' = [reviewCall EXCEPT ![c] = next]
  BY DEF ReviewCallsTyped, Takes
<1> HIDE DEF next
<1> QED BY <1>1, <1>2, ReviewCallReplaced

LEMMA ReviewCallWorks ==
  ASSUME NEW c \in ReviewCalls, ReviewCallsTyped, NEW pc \in ReviewSteps,
         NEW todo \in SUBSET MediaKinds, Works(c, pc, todo)
  PROVE  Goes(c, pc, reviewCall[c].review, todo)
<1> DEFINE next == [reviewCall[c] EXCEPT !.pc = pc, !.todo = todo]
<1>1. next \in ReviewCallTypes /\ next.op = reviewCall[c].op
      /\ next.device = reviewCall[c].device /\ next.pc = pc
      /\ next.review = reviewCall[c].review /\ next.todo = todo
  BY DEF ReviewCallTypes, ReviewCallsTyped
<1>2. reviewCall' = [reviewCall EXCEPT ![c] = next]
  BY DEF ReviewCallsTyped, Works
<1> HIDE DEF next
<1> QED BY <1>1, <1>2, ReviewCallReplaced

LEMMA ReviewCallMakes ==
  ASSUME NEW c \in ReviewCalls, ReviewCallsTyped, NEW pc \in ReviewSteps, NEW r \in Nat,
         NEW todo \in SUBSET MediaKinds, Makes(c, pc, r, todo)
  PROVE  Goes(c, pc, r, todo)
<1> DEFINE next == [reviewCall[c] EXCEPT !.pc = pc, !.review = r, !.todo = todo]
<1>1. next \in ReviewCallTypes /\ next.op = reviewCall[c].op
      /\ next.device = reviewCall[c].device /\ next.pc = pc
      /\ next.review = r /\ next.todo = todo
  BY DEF ReviewCallTypes, ReviewCallsTyped
<1>2. reviewCall' = [reviewCall EXCEPT ![c] = next]
  BY DEF ReviewCallsTyped, Makes
<1> HIDE DEF next
<1> QED BY <1>1, <1>2, ReviewCallReplaced

-----------------------------------------------------------------------------
(* HumanReview: the rows. *)

HasImage(r, k) == media[r][k].status = "uploaded" /\ media[r][k].stored # "none"
HasRow(r, k) == media[r][k].status # "none"

\* The settled requests, and no others, are in the order of their update.
ReviewsSettled ==
    /\ \A n \in DOMAIN settledOrder : settledOrder[n] \in Reviews /\ ~Active(settledOrder[n])
    /\ \A r \in Reviews : ~Active(r) => \E n \in DOMAIN settledOrder : settledOrder[n] = r

\* What a status tells of the images and of the decision.
Judged ==
    \A r \in Reviews :
        /\ reviews[r].status \in {"pending", "approved"} => \A k \in MediaKinds : HasImage(r, k)
        /\ reviews[r].status = "consumed" => \A k \in MediaKinds : HasRow(r, k)
        /\ reviews[r].action = "rejected" => reviews[r].status = "rejected"

RowsOK == ReviewRowsTyped /\ ReviewsSettled /\ Judged

\* What no step undoes.
Lasting ==
    /\ \A r \in Reviews :
         /\ r \in Reviews' /\ reviews'[r].device = reviews[r].device
         /\ ~Active(r) => reviews'[r].status = reviews[r].status
         /\ reviews'[r].status = "uploading" => reviews[r].status = "uploading"
    /\ \A r \in Reviews : \A k \in MediaKinds :
         /\ HasRow(r, k) => HasRow(r, k)'
         /\ reviews'[r].status = "uploading" /\ HasImage(r, k) => HasImage(r, k)'

Unmarked == \A r \in Reviews : \A k \in MediaKinds : ~HasRow(r, k) => ~HasRow(r, k)'

\* How the statuses change: not at all, or that of one request.
StatusesStay ==
    /\ Reviews' = Reviews
    /\ \A r \in Reviews : /\ reviews'[r].device = reviews[r].device
                          /\ reviews'[r].status = reviews[r].status

Allowed(from, to) ==
    \/ from = "uploading" /\ to = "pending"
    \/ from = "pending" /\ to \in {"approved", "rejected"}
    \/ from = "approved" /\ to = "consumed"
    \/ from \in {"uploading", "pending"} /\ to = "cancelled"
    \/ from \in ActiveStatuses /\ to = "expired"

StatusMoves(r) ==
    /\ Reviews' = Reviews /\ r \in Reviews
    /\ Allowed(reviews[r].status, reviews'[r].status)
    /\ \A s \in Reviews : /\ reviews'[s].device = reviews[s].device
                          /\ s # r => reviews'[s].status = reviews[s].status

\* A request and its images have the same number.
LEMMA RequestNumbers ==
  ASSUME ReviewRowsTyped
  PROVE  /\ Reviews = 1..Len(reviews) /\ DOMAIN media = Reviews /\ Len(reviews) \in Nat
         /\ Reviews \subseteq Nat
         /\ \A r \in Reviews : reviews[r] \in ReviewTypes /\ media[r] \in MediaTypes
<1>1. /\ Len(reviews) \in Nat /\ DOMAIN reviews = 1..Len(reviews)
      /\ \A n \in DOMAIN reviews : reviews[n] \in ReviewTypes /\ n \in Nat
  BY RowOfTable DEF ReviewRowsTyped
<1>2. /\ DOMAIN media = 1..Len(media) /\ Len(media) = Len(reviews)
      /\ \A n \in DOMAIN media : media[n] \in MediaTypes
  BY RowOfTable DEF ReviewRowsTyped
<1> QED BY <1>1, <1>2 DEF Reviews

\* Nothing happens to the rows.
LEMMA RowsStay ==
  ASSUME RowsOK, UNCHANGED reviewRows
  PROVE  RowsOK' /\ Lasting /\ Unmarked /\ StatusesStay
  BY DEF reviewRows, RowsOK, ReviewRowsTyped, ReviewsSettled, Judged, HasImage, HasRow, Lasting,
     Unmarked, StatusesStay, Reviews, Active

\* A request goes to its next status.
LEMMA RequestMoves ==
  ASSUME RowsOK, NEW r \in Reviews, NEW next, Allowed(reviews[r].status, next),
         next = "pending" => \A k \in MediaKinds : HasImage(r, k),
         Transition(r, next), UNCHANGED <<media, agedCount, enrolled>>
  PROVE  RowsOK' /\ Lasting /\ Unmarked /\ StatusMoves(r) /\ reviews'[r].status = next
<1>1. /\ r \in Nat /\ reviews[r] \in ReviewTypes /\ DOMAIN media = Reviews
      /\ next \in ReviewStatuses /\ reviews[r].status \in ActiveStatuses
      /\ Reviews \subseteq Nat
  BY RequestNumbers DEF RowsOK, Allowed, ReviewStatuses, ActiveStatuses, SettledStatuses
<1> DEFINE row == [reviews[r] EXCEPT !.status = next]
<1>2. /\ reviews' = [reviews EXCEPT ![r] = row] /\ row \in ReviewTypes
      /\ row.status = next /\ row.device = reviews[r].device /\ row.action = reviews[r].action
  BY <1>1 DEF Transition, ReviewTypes
<1> HIDE DEF row
<1>3. /\ reviews' \in Seq(ReviewTypes) /\ Reviews' = Reviews /\ Len(reviews') = Len(reviews)
      /\ reviews'[r] = row /\ \A s \in Reviews : s # r => reviews'[s] = reviews[s]
  <2>1. PICK old, new, e : old = reviews /\ new = reviews' /\ e = row
    OBVIOUS
  <2>2. old \in Seq(ReviewTypes) /\ r \in DOMAIN old /\ e \in ReviewTypes
        /\ new = [old EXCEPT ![r] = e]
    BY <1>2, <2>1 DEF RowsOK, ReviewRowsTyped, Reviews
  <2> QED BY <2>1, <2>2, RowUpdated DEF Reviews
<1>4. /\ \A s \in Reviews : reviews'[s].status = IF s = r THEN next ELSE reviews[s].status
      /\ \A s \in Reviews : reviews'[s].device = reviews[s].device
                            /\ reviews'[s].action = reviews[s].action
  BY <1>2, <1>3
<1>5. /\ settledOrder' \in Seq(Nat) /\ Len(settledOrder) <= Len(settledOrder')
      /\ next \notin SettledStatuses => settledOrder' = settledOrder
      /\ next \in SettledStatuses =>
           \E n : /\ DOMAIN settledOrder' = DOMAIN settledOrder \cup {n} /\ settledOrder'[n] = r
                  /\ n \notin DOMAIN settledOrder
                  /\ \A m \in DOMAIN settledOrder : settledOrder'[m] = settledOrder[m]
  <2>1. settledOrder \in Seq(Nat)
    BY DEF RowsOK, ReviewRowsTyped
  <2>2. CASE next \notin SettledStatuses
    <3>1. settledOrder' = settledOrder
      BY <2>2 DEF Transition
    <3> QED BY <2>1, <2>2, <3>1, LenProperties
  <2>3. CASE next \in SettledStatuses
    <3>1. PICK old, new : old = settledOrder /\ new = settledOrder'
      OBVIOUS
    <3>2. old \in Seq(Nat) /\ new = Append(old, r)
      BY <2>1, <2>3, <3>1 DEF Transition
    <3>3. PICK n : n = Len(old) + 1
      OBVIOUS
    <3>4. /\ new \in Seq(Nat) /\ Len(new) = Len(old) + 1
          /\ DOMAIN new = DOMAIN old \cup {n} /\ new[n] = r /\ n \notin DOMAIN old
          /\ \A m \in DOMAIN old : new[m] = old[m]
      BY <1>1, <3>2, <3>3, RowInserted
    <3>5. Len(old) \in Nat
      BY <3>2, LenProperties
    <3>6. Len(old) <= Len(new)
      BY <3>4, <3>5
    <3> QED BY <2>3, <3>1, <3>4, <3>6
  <2> QED BY <2>2, <2>3
<1>6. ReviewRowsTyped'
  <2>1. agedCount <= Len(settledOrder') /\ agedCount \in Nat
    <3>1. Len(settledOrder) \in Nat /\ Len(settledOrder') \in Nat
      BY <1>5, LenProperties DEF RowsOK, ReviewRowsTyped
    <3> QED BY <1>5, <3>1 DEF RowsOK, ReviewRowsTyped
  <2> QED BY <1>3, <1>5, <2>1 DEF RowsOK, ReviewRowsTyped
<1>7. Active(r) /\ (next \in SettledStatuses <=> next \notin ActiveStatuses)
  BY <1>1 DEF Active, ReviewStatuses, ActiveStatuses, SettledStatuses
<1>8. \A s \in Reviews : Active(s)' <=> IF s = r THEN next \notin SettledStatuses ELSE Active(s)
  BY <1>4, <1>7 DEF Active
<1>9. ReviewsSettled'
  BY <1>3, <1>5, <1>7, <1>8 DEF RowsOK, ReviewsSettled
<1>10. media' = media
  OBVIOUS
<1>11. Judged'
  <2>1. reviews[r].action # "rejected"
    BY <1>1 DEF RowsOK, Judged, ActiveStatuses
  <2>2. next = "consumed" => \A k \in MediaKinds : HasRow(r, k)
    BY DEF Allowed, RowsOK, Judged, HasImage, HasRow, SettledStatuses, ActiveStatuses
  <2>3. next = "approved" => \A k \in MediaKinds : HasImage(r, k)
    BY DEF Allowed, RowsOK, Judged, SettledStatuses, ActiveStatuses
  <2> QED BY <1>3, <1>4, <1>10, <2>1, <2>2, <2>3 DEF RowsOK, Judged, HasImage, HasRow
<1>12. Lasting /\ Unmarked
  <2>1. next = "uploading" => FALSE
    BY DEF Allowed
  <2> QED BY <1>3, <1>4, <1>7, <1>10, <2>1 DEF Lasting, Unmarked, HasImage, HasRow
<1>13. StatusMoves(r) /\ reviews'[r].status = next
  BY <1>3, <1>4 DEF StatusMoves
<1> QED BY <1>6, <1>9, <1>11, <1>12, <1>13 DEF RowsOK

\* A settled request that is updated comes last, the others stay in order.
LEMMA TouchedKeeps ==
  ASSUME NEW r \in Nat, settledOrder \in Seq(Nat),
         \E n \in DOMAIN settledOrder : settledOrder[n] = r
  PROVE  /\ Touched(r) \in Seq(Nat) /\ Len(Touched(r)) = Len(settledOrder)
         /\ \A m \in DOMAIN Touched(r) : \E n \in DOMAIN settledOrder :
              Touched(r)[m] = settledOrder[n]
         /\ \A n \in DOMAIN settledOrder : \E m \in DOMAIN Touched(r) :
              Touched(r)[m] = settledOrder[n]
<1>1. PICK s, p, l : /\ s = settledOrder /\ s \in Seq(Nat)
                     /\ p = PlaceOf(r) /\ l = Len(settledOrder)
  OBVIOUS
<1>2. DOMAIN s = 1..l /\ l \in Nat /\ \A n \in 1..l : s[n] \in Nat
  BY <1>1, LenProperties, ElementOfSeq
<1>3. p \in 1..l /\ s[p] = r
  BY <1>1, <1>2 DEF PlaceOf
<1>4. PICK a, b : a = SubSeq(s, 1, p - 1) /\ b = SubSeq(s, p + 1, l)
  OBVIOUS
<1>5. /\ a \in Seq(Nat) /\ Len(a) = p - 1
      /\ \A i \in 1..(p - 1) : a[i] = s[i]
  <2>1. 1 \in Int /\ p - 1 \in Int /\ \A i \in 1..(p - 1) : s[i] \in Nat
    BY <1>2, <1>3
  <2>2. /\ a \in Seq(Nat) /\ Len(a) = IF 1 <= p - 1 THEN p - 1 - 1 + 1 ELSE 0
        /\ \A i \in 1..(p - 1 - 1 + 1) : a[i] = s[1 + i - 1]
    BY <1>4, <2>1, SubSeqProperties
  <2> QED BY <1>2, <1>3, <2>2
<1>6. /\ b \in Seq(Nat) /\ Len(b) = l - p
      /\ \A i \in 1..(l - p) : b[i] = s[p + i]
  <2>1. p + 1 \in Int /\ l \in Int /\ \A i \in (p + 1)..l : s[i] \in Nat
    BY <1>2, <1>3
  <2>2. /\ b \in Seq(Nat) /\ Len(b) = IF p + 1 <= l THEN l - (p + 1) + 1 ELSE 0
        /\ \A i \in 1..(l - (p + 1) + 1) : b[i] = s[p + 1 + i - 1]
    BY <1>4, <2>1, SubSeqProperties
  <2> QED BY <1>2, <1>3, <2>2
<1>7. PICK t : t = a \o b
  OBVIOUS
<1>8. /\ t \in Seq(Nat) /\ Len(t) = l - 1
      /\ \A i \in 1..(l - 1) : t[i] = IF i <= p - 1 THEN a[i] ELSE b[i - (p - 1)]
  <2>1. /\ t \in Seq(Nat) /\ Len(t) = Len(a) + Len(b)
        /\ \A i \in 1..(Len(a) + Len(b)) : t[i] = IF i <= Len(a) THEN a[i] ELSE b[i - Len(a)]
    BY <1>5, <1>6, <1>7, ConcatProperties
  <2>2. Len(a) + Len(b) = l - 1
    BY <1>2, <1>3, <1>5, <1>6
  <2> QED BY <1>5, <2>1, <2>2
<1>9. \A i \in 1..(l - 1) : t[i] = IF i <= p - 1 THEN s[i] ELSE s[i + 1]
  <2> TAKE i \in 1..(l - 1)
  <2>1. CASE i <= p - 1
    BY <1>2, <1>3, <1>5, <1>8, <2>1
  <2>2. CASE ~(i <= p - 1)
    <3>1. i - (p - 1) \in 1..(l - p) /\ p + (i - (p - 1)) = i + 1
      BY <1>2, <1>3, <2>2
    <3>2. b[i - (p - 1)] = s[p + (i - (p - 1))]
      BY <1>6, <3>1
    <3> QED BY <1>8, <2>2, <3>1, <3>2
  <2> QED BY <2>1, <2>2
<1>10. PICK u : u = Touched(r)
  OBVIOUS
<1>11. u = Append(t, r)
  BY <1>1, <1>4, <1>7, <1>10 DEF Touched, RemoveAt
<1>12. /\ u \in Seq(Nat) /\ Len(u) = l /\ DOMAIN u = 1..l /\ u[l] = r
       /\ \A i \in 1..(l - 1) : u[i] = t[i]
  <2>1. /\ u \in Seq(Nat) /\ Len(u) = Len(t) + 1 /\ u[Len(t) + 1] = r
        /\ \A i \in 1..Len(t) : u[i] = t[i]
    BY <1>8, <1>11, AppendProperties
  <2>2. Len(t) + 1 = l
    BY <1>2, <1>8
  <2> QED BY <1>8, <2>1, <2>2, LenProperties
<1>13. \A m \in DOMAIN u : \E n \in DOMAIN s : u[m] = s[n]
  <2> TAKE m \in DOMAIN u
  <2>1. CASE m = l
    <3>1. u[m] = r
      BY <1>12, <2>1
    <3>2. p \in DOMAIN s
      BY <1>2, <1>3
    <3> QED BY <1>3, <3>1, <3>2
  <2>2. CASE m # l
    <3>1. m \in 1..(l - 1) /\ m \in 1..l /\ m + 1 \in 1..l
      <4>1. m \in 1..l /\ l \in Nat
        BY <1>2, <1>12
      <4> QED BY <2>2, <4>1
    <3>2. u[m] = s[m] \/ u[m] = s[m + 1]
      BY <1>9, <1>12, <3>1
    <3> QED BY <1>2, <3>1, <3>2
  <2> QED BY <2>1, <2>2
<1>14. \A n \in DOMAIN s : \E m \in DOMAIN u : u[m] = s[n]
  <2> TAKE n \in DOMAIN s
  <2>1. CASE n = p
    <3>1. u[l] = s[n]
      BY <1>3, <1>12, <2>1
    <3>2. l \in DOMAIN u
      BY <1>2, <1>3, <1>12
    <3> QED BY <3>1, <3>2
  <2>2. CASE n # p /\ n <= p - 1
    <3>1. n \in 1..(l - 1) /\ n \in 1..l
      BY <1>2, <1>3, <2>2
    <3>2. u[n] = s[n]
      BY <1>9, <1>12, <2>2, <3>1
    <3> QED BY <1>12, <3>1, <3>2
  <2>3. CASE n # p /\ ~(n <= p - 1)
    <3>1. PICK m : m = n - 1
      OBVIOUS
    <3>2. m \in 1..(l - 1) /\ m \in 1..l /\ ~(m <= p - 1) /\ m + 1 = n
      BY <1>2, <1>3, <2>3, <3>1
    <3>3. u[m] = s[n]
      BY <1>9, <1>12, <3>2
    <3> QED BY <1>12, <3>2, <3>3
  <2> QED BY <2>1, <2>2, <2>3
<1> QED BY <1>1, <1>2, <1>10, <1>12, <1>13, <1>14

\* A request changes, its status does not; a settled one may come last.
LEMMA RequestChanges ==
  ASSUME RowsOK, NEW r \in Reviews, NEW row \in ReviewTypes,
         reviews' = [reviews EXCEPT ![r] = row],
         row.status = reviews[r].status, row.device = reviews[r].device,
         row.action = "rejected" => row.status = "rejected",
         settledOrder' = settledOrder \/ (~Active(r) /\ settledOrder' = Touched(r)),
         UNCHANGED <<media, agedCount, enrolled>>
  PROVE  RowsOK' /\ Lasting /\ Unmarked /\ StatusesStay
<1>1. /\ r \in Nat /\ DOMAIN media = Reviews /\ Reviews \subseteq Nat
      /\ settledOrder \in Seq(Nat) /\ agedCount <= Len(settledOrder)
  BY RequestNumbers DEF RowsOK, ReviewRowsTyped
<1>2. /\ reviews' \in Seq(ReviewTypes) /\ Reviews' = Reviews /\ Len(reviews') = Len(reviews)
      /\ reviews'[r] = row /\ \A s \in Reviews : s # r => reviews'[s] = reviews[s]
  <2>1. PICK old, new : old = reviews /\ new = reviews'
    OBVIOUS
  <2>2. old \in Seq(ReviewTypes) /\ r \in DOMAIN old /\ new = [old EXCEPT ![r] = row]
    BY <2>1 DEF RowsOK, ReviewRowsTyped, Reviews
  <2> QED BY <2>1, <2>2, RowUpdated DEF Reviews
<1>3. \A s \in Reviews :
        /\ reviews'[s].status = reviews[s].status /\ reviews'[s].device = reviews[s].device
        /\ reviews'[s].action = "rejected" =>
             reviews[s].action = "rejected" \/ reviews[s].status = "rejected"
  BY <1>2
<1>4. /\ settledOrder' \in Seq(Nat) /\ Len(settledOrder') = Len(settledOrder)
      /\ \A m \in DOMAIN settledOrder' : \E n \in DOMAIN settledOrder :
           settledOrder'[m] = settledOrder[n]
      /\ \A n \in DOMAIN settledOrder : \E m \in DOMAIN settledOrder' :
           settledOrder'[m] = settledOrder[n]
  <2>1. CASE settledOrder' = settledOrder
    BY <1>1, <2>1
  <2>2. CASE ~Active(r) /\ settledOrder' = Touched(r)
    <3>1. \E n \in DOMAIN settledOrder : settledOrder[n] = r
      BY <2>2 DEF RowsOK, ReviewsSettled
    <3>2. /\ Touched(r) \in Seq(Nat) /\ Len(Touched(r)) = Len(settledOrder)
          /\ \A m \in DOMAIN Touched(r) : \E n \in DOMAIN settledOrder :
               Touched(r)[m] = settledOrder[n]
          /\ \A n \in DOMAIN settledOrder : \E m \in DOMAIN Touched(r) :
               Touched(r)[m] = settledOrder[n]
      BY <1>1, <3>1, TouchedKeeps
    <3> QED BY <2>2, <3>2
  <2> QED BY <2>1, <2>2
<1>5. ReviewRowsTyped'
  BY <1>2, <1>4 DEF RowsOK, ReviewRowsTyped
<1>6. \A s \in Reviews : Active(s)' <=> Active(s)
  BY <1>3 DEF Active
<1>7. ReviewsSettled'
  BY <1>2, <1>4, <1>6 DEF RowsOK, ReviewsSettled
<1>8. Judged'
  BY <1>2, <1>3 DEF RowsOK, Judged, HasImage, HasRow
<1>9. Lasting /\ Unmarked
  BY <1>2, <1>3 DEF Lasting, Unmarked, HasImage, HasRow
<1>10. StatusesStay
  BY <1>2, <1>3 DEF StatusesStay
<1> QED BY <1>5, <1>7, <1>8, <1>9, <1>10 DEF RowsOK

\* The images of a request change.  Those of one that is under review, or
\* is about to be, stay.
KeepsImages(r, images) ==
    /\ \A k \in MediaKinds : HasRow(r, k) => images[k].status # "none"
    /\ Active(r) => \A k \in MediaKinds : HasImage(r, k) =>
         images[k].status = "uploaded" /\ images[k].stored # "none"
MakesNoRow(r, images) ==
    \A k \in MediaKinds : ~HasRow(r, k) => images[k].status = "none"

LEMMA ImagesChange ==
  ASSUME RowsOK, NEW r \in Reviews, NEW images \in MediaTypes,
         media' = [media EXCEPT ![r] = images],
         KeepsImages(r, images),
         UNCHANGED <<reviews, settledOrder, agedCount, enrolled>>
  PROVE  /\ RowsOK' /\ Lasting /\ StatusesStay
         /\ media'[r] = images
         /\ \A s \in Reviews : s # r => media'[s] = media[s]
         /\ MakesNoRow(r, images) => Unmarked
<1>1. DOMAIN media = Reviews
  BY RequestNumbers DEF RowsOK
<1>2. /\ media' \in Seq(MediaTypes) /\ Len(media') = Len(media)
      /\ media'[r] = images /\ \A s \in Reviews : s # r => media'[s] = media[s]
  <2>1. PICK old, new : old = media /\ new = media'
    OBVIOUS
  <2>2. old \in Seq(MediaTypes) /\ r \in DOMAIN old /\ new = [old EXCEPT ![r] = images]
    BY <1>1, <2>1 DEF RowsOK, ReviewRowsTyped
  <2>3. /\ new \in Seq(MediaTypes) /\ Len(new) = Len(old)
        /\ new[r] = images /\ \A s \in DOMAIN old : s # r => new[s] = old[s]
    BY <2>2, RowUpdated
  <2> QED BY <1>1, <2>1, <2>3
<1>3. \A s \in Reviews : \A k \in MediaKinds :
        /\ media[s][k].status # "none" => media'[s][k].status # "none"
        /\ reviews[s].status \in {"uploading", "pending", "approved"} =>
             (media[s][k].status = "uploaded" /\ media[s][k].stored # "none" =>
                media'[s][k].status = "uploaded" /\ media'[s][k].stored # "none")
  BY <1>2 DEF KeepsImages, HasImage, HasRow, Active, ActiveStatuses
<1>4. Reviews' = Reviews /\ \A s \in Reviews : Active(s)' <=> Active(s)
  BY DEF Reviews, Active
<1>5. ReviewRowsTyped' /\ ReviewsSettled' /\ StatusesStay
  BY <1>2, <1>4 DEF RowsOK, ReviewRowsTyped, ReviewsSettled, StatusesStay
<1>6. Judged'
  BY <1>3, <1>4 DEF RowsOK, Judged, HasImage, HasRow
<1>7. Lasting
  BY <1>3, <1>4 DEF Lasting, HasImage, HasRow
<1>8. MakesNoRow(r, images) => Unmarked
  BY <1>2 DEF MakesNoRow, Unmarked, HasRow
<1> QED BY <1>2, <1>5, <1>6, <1>7, <1>8 DEF RowsOK

\* A new request is the last, and has no images.
LEMMA RequestInserted ==
  ASSUME RowsOK, NEW row \in ReviewTypes, row.status = "uploading", row.action = "none",
         NEW new, new = Len(reviews) + 1,
         reviews' = Append(reviews, row), media' = Append(media, NoMedia),
         UNCHANGED <<settledOrder, agedCount, enrolled>>
  PROVE  /\ RowsOK' /\ Lasting /\ Unmarked
         /\ new \in Nat /\ new \notin Reviews /\ Reviews' = Reviews \cup {new}
         /\ reviews'[new] = row /\ \A s \in Reviews : reviews'[s] = reviews[s]
         /\ \A k \in MediaKinds : ~HasRow(new, k)'
<1>1. DOMAIN media = Reviews /\ Len(reviews) \in Nat
  BY RequestNumbers DEF RowsOK
<1>2. /\ reviews' \in Seq(ReviewTypes) /\ Len(reviews') = Len(reviews) + 1
      /\ Reviews' = Reviews \cup {new} /\ new \notin Reviews
      /\ reviews'[new] = row /\ \A s \in Reviews : reviews'[s] = reviews[s]
  <2>1. PICK old, next : old = reviews /\ next = reviews'
    OBVIOUS
  <2>2. old \in Seq(ReviewTypes) /\ next = Append(old, row) /\ new = Len(old) + 1
    BY <2>1 DEF RowsOK, ReviewRowsTyped
  <2>3. /\ next \in Seq(ReviewTypes) /\ Len(next) = Len(old) + 1
        /\ DOMAIN next = DOMAIN old \cup {new} /\ new \notin DOMAIN old
        /\ next[new] = row /\ \A n \in DOMAIN old : next[n] = old[n]
    BY <2>2, RowInserted
  <2> QED BY <2>1, <2>3 DEF Reviews
<1>3. NoMedia \in MediaTypes /\ \A k \in MediaKinds : NoMedia[k].status = "none"
  BY DEF NoMedia, MediaTypes, ImageTypes
<1>4. /\ media' \in Seq(MediaTypes) /\ Len(media') = Len(media) + 1
      /\ media'[new] = NoMedia /\ \A s \in Reviews : media'[s] = media[s]
  <2>1. PICK old, next, e : old = media /\ next = media' /\ e = NoMedia
    OBVIOUS
  <2>2. /\ old \in Seq(MediaTypes) /\ e \in MediaTypes /\ next = Append(old, e)
        /\ new = Len(old) + 1
    BY <1>3, <2>1 DEF RowsOK, ReviewRowsTyped
  <2>3. /\ next \in Seq(MediaTypes) /\ Len(next) = Len(old) + 1
        /\ next[new] = e /\ \A n \in DOMAIN old : next[n] = old[n]
    BY <2>2, RowInserted
  <2> QED BY <1>1, <2>1, <2>3
<1>5. ReviewRowsTyped'
  BY <1>2, <1>4 DEF RowsOK, ReviewRowsTyped
<1>6. Active(new)' /\ \A s \in Reviews : Active(s)' <=> Active(s)
  BY <1>2 DEF Active, ActiveStatuses
<1>7. ReviewsSettled'
  <2>1. \A n \in DOMAIN settledOrder : settledOrder[n] \in Reviews /\ ~Active(settledOrder[n])
    BY DEF RowsOK, ReviewsSettled
  <2>2. \A n \in DOMAIN settledOrder : settledOrder[n] \in Reviews' /\ ~Active(settledOrder[n])'
    BY <1>2, <1>6, <2>1 DEF Active
  <2>3. \A r \in Reviews' : ~Active(r)' => \E n \in DOMAIN settledOrder : settledOrder[n] = r
    BY <1>2, <1>6 DEF RowsOK, ReviewsSettled, Active
  <2> QED BY <2>2, <2>3 DEF ReviewsSettled, Active
<1>8. Judged'
  <2>1. \A r \in Reviews :
          /\ reviews'[r].status = reviews[r].status /\ reviews'[r].action = reviews[r].action
          /\ media'[r] = media[r]
    BY <1>2, <1>4
  <2>2. reviews'[new].status = "uploading" /\ reviews'[new].action = "none"
    BY <1>2
  <2>3. ASSUME NEW r \in Reviews'
        PROVE  /\ reviews'[r].status \in {"pending", "approved"} =>
                    \A k \in MediaKinds : media'[r][k].status = "uploaded"
                                          /\ media'[r][k].stored # "none"
               /\ reviews'[r].status = "consumed" =>
                    \A k \in MediaKinds : media'[r][k].status # "none"
               /\ reviews'[r].action = "rejected" => reviews'[r].status = "rejected"
    <3>1. CASE r = new
      BY <2>2, <3>1
    <3>2. CASE r \in Reviews
      <4>1. /\ reviews[r].status \in {"pending", "approved"} =>
                 \A k \in MediaKinds : media[r][k].status = "uploaded"
                                       /\ media[r][k].stored # "none"
            /\ reviews[r].status = "consumed" => \A k \in MediaKinds : media[r][k].status # "none"
            /\ reviews[r].action = "rejected" => reviews[r].status = "rejected"
        BY <3>2 DEF RowsOK, Judged, HasImage, HasRow
      <4> QED BY <2>1, <3>2, <4>1
    <3> QED BY <1>2, <3>1, <3>2
  <2> QED BY <2>3 DEF Judged, HasImage, HasRow
<1>9. Lasting /\ Unmarked
  BY <1>2, <1>4 DEF Lasting, Unmarked, HasImage, HasRow
<1>10. \A k \in MediaKinds : ~HasRow(new, k)'
  BY <1>3, <1>4 DEF HasRow
<1>11. new \in Nat
  BY <1>1
<1> QED BY <1>2, <1>5, <1>7, <1>8, <1>9, <1>10, <1>11 DEF RowsOK

\* The retention time of one more settled request is over.
LEMMA RetentionPasses ==
  ASSUME RowsOK, agedCount < Len(settledOrder), agedCount' = agedCount + 1,
         UNCHANGED <<reviews, media, settledOrder, enrolled>>
  PROVE  RowsOK' /\ Lasting /\ Unmarked /\ StatusesStay
<1>1. Len(settledOrder) \in Nat
  BY LenProperties DEF RowsOK, ReviewRowsTyped
<1>2. ReviewRowsTyped'
  BY <1>1 DEF RowsOK, ReviewRowsTyped
<1> QED
  BY <1>2 DEF RowsOK, ReviewsSettled, Judged, HasImage, HasRow, Lasting,
     Unmarked, StatusesStay, Reviews, Active

-----------------------------------------------------------------------------
(* HumanReview: what a call relies on where it stands. *)

\* The steps an operation has.
StepOf(op) ==
    {"idle", "ok", "failed"} \cup
    (CASE op = "create" -> {"expiring", "inserting", "media"}
       [] op = "complete" -> {"expiring", "loaded", "verifying", "submitting"}
       [] op = "refreshUrls" -> {"expiring", "loaded"}
       [] op = "cancel" -> {"expiring", "loaded", "removing"}
       [] op = "queue" -> {"expiring"}
       [] op \in {"approve", "reject"} -> {"expiring", "deciding", "recording"}
       [] op = "register" -> {"enrolling", "revalidating", "consuming", "associating",
                              "deleting"})

\* A creation has a request of its own, a consumption a consumed one.
IsCreator(c) == reviewCall[c].op = "create" /\ reviewCall[c].pc \in {"media", "ok"}
IsConsumer(c) ==
    reviewCall[c].op = "register" /\ reviewCall[c].pc \in {"associating", "deleting", "ok"}

HoldsRequest(c) ==
    /\ reviewCall[c].pc \in StepOf(reviewCall[c].op)
    /\ reviewCall[c].pc \notin {"idle", "inserting", "ok", "failed"} =>
         reviewCall[c].review \in Reviews
    /\ IsCreator(c) \/ IsConsumer(c) => reviewCall[c].review \in Reviews
    /\ reviewCall[c].op \in {"create", "complete", "refreshUrls", "cancel"}
       /\ reviewCall[c].pc = "expiring" => reviewCall[c].read \in ActiveStatuses

\* Images to be made have no row yet; those verified are there as long as
\* the request is being uploaded.
HoldsImages(c) ==
    /\ reviewCall[c].pc \in {"media", "verifying", "deleting"} => reviewCall[c].todo # {}
    /\ reviewCall[c].pc = "submitting" => reviewCall[c].todo = {}
    /\ reviewCall[c].pc = "media" =>
         \A k \in reviewCall[c].todo : ~HasRow(reviewCall[c].review, k)
    /\ reviewCall[c].pc \in {"verifying", "submitting"} =>
         \A k \in MediaKinds :
           /\ HasRow(reviewCall[c].review, k)
           /\ reviews[reviewCall[c].review].status = "uploading" /\ k \notin reviewCall[c].todo
                => HasImage(reviewCall[c].review, k)

\* What has been decided stays decided.
HoldsDecision(c) ==
    /\ reviewCall[c].pc = "removing" => reviews[reviewCall[c].review].status = "cancelled"
    /\ reviewCall[c].pc = "recording" /\ reviewCall[c].op = "reject" =>
         reviews[reviewCall[c].review].status = "rejected"
    /\ reviewCall[c].op = "register" /\ reviewCall[c].pc \notin {"idle", "failed"} =>
         reviews[reviewCall[c].review].device = reviewCall[c].device
    /\ IsConsumer(c) => reviews[reviewCall[c].review].status = "consumed"

ReviewCallOK(c) == HoldsRequest(c) /\ HoldsImages(c) /\ HoldsDecision(c)

\* Requests and their creators, consumed requests and their registrations
\* go in pairs.
OwnRequests ==
    /\ \A b, c \in ReviewCalls : IsCreator(b) /\ IsCreator(c) /\ b # c =>
         reviewCall[b].review # reviewCall[c].review
    /\ \A b, c \in ReviewCalls : IsConsumer(b) /\ IsConsumer(c) /\ b # c =>
         reviewCall[b].review # reviewCall[c].review
    /\ \A r \in Reviews : \E c \in ReviewCalls : IsCreator(c) /\ reviewCall[c].review = r

ReviewCallsOK == ReviewCallsTyped /\ OwnRequests /\ \A c \in ReviewCalls : ReviewCallOK(c)

\* Of a step of the call c: its place among creators and registrations.
OwnMoves(c) ==
    /\ IsCreator(c) => IsCreator(c)' /\ reviewCall'[c].review = reviewCall[c].review
    /\ IsCreator(c)' => \/ IsCreator(c) /\ reviewCall'[c].review = reviewCall[c].review
                        \/ reviewCall'[c].review \notin Reviews
    /\ IsConsumer(c)' => \/ IsConsumer(c) /\ reviewCall'[c].review = reviewCall[c].review
                         \/ reviews[reviewCall'[c].review].status = "approved"
    /\ Reviews' = Reviews \/ (IsCreator(c)' /\ Reviews' = Reviews \cup {reviewCall'[c].review})

\* A request is added for a device that has no active one.
RequestAdded ==
    \E d \in ReviewDevices, new \in Nat :
        /\ ActiveOf(d) = {} /\ new \notin Reviews /\ Reviews' = Reviews \cup {new}
        /\ reviews'[new].device = d /\ reviews'[new].status = "uploading"
        /\ \A s \in Reviews : /\ reviews'[s].device = reviews[s].device
                              /\ reviews'[s].status = reviews[s].status

StatusesChange ==
    StatusesStay \/ RequestAdded \/ \E r \in Reviews : StatusMoves(r)

\* Of any step: what it leaves to those who are not part of it.
ReviewStep == RowsOK' /\ Lasting /\ StatusesChange

\* Of a step of the call c.
CallStep(c) ==
    /\ ReviewStep /\ OwnMoves(c)
    /\ \/ Unmarked
       \/ IsCreator(c) /\ \A s \in Reviews : s # reviewCall[c].review => media'[s] = media[s]
    /\ ReviewCallsTyped' /\ \A b \in ReviewCalls : b # c => reviewCall'[b] = reviewCall[b]
    /\ ReviewCallOK(c)'
    /\ cleanup' = cleanup

\* What is lasting keeps a call that does not step.
LEMMA ReviewCallStays ==
  ASSUME NEW c \in ReviewCalls, ReviewCallsTyped, ReviewCallOK(c), Lasting,
         reviewCall'[c] = reviewCall[c],
         \/ Unmarked
         \/ reviewCall[c].pc # "media"
         \/ media'[reviewCall[c].review] = media[reviewCall[c].review]
  PROVE  ReviewCallOK(c)'
<1>1. /\ reviewCall[c].todo \subseteq MediaKinds /\ reviewCall[c].op \in ReviewOps
      /\ reviewCall[c].pc \in ReviewSteps
  BY DEF ReviewCallsTyped, ReviewCallTypes
<1>2. (IsCreator(c)' <=> IsCreator(c)) /\ (IsConsumer(c)' <=> IsConsumer(c))
  BY DEF IsCreator, IsConsumer
<1>3. Reviews \subseteq Reviews'
  BY DEF Lasting
<1>5. HoldsRequest(c)'
  BY <1>2, <1>3 DEF ReviewCallOK, HoldsRequest, StepOf
<1>6. HoldsDecision(c)'
  <2>1. \A r \in Reviews : /\ reviews'[r].device = reviews[r].device
                           /\ reviews[r].status \in {"cancelled", "rejected", "consumed"} =>
                                reviews'[r].status = reviews[r].status
    BY DEF Lasting, Active, ActiveStatuses
  <2>2. /\ reviewCall[c].pc \in {"removing", "recording"} => reviewCall[c].review \in Reviews
        /\ IsConsumer(c) => reviewCall[c].review \in Reviews
        /\ reviewCall[c].op = "register" /\ reviewCall[c].pc \notin {"idle", "failed"} =>
             reviewCall[c].review \in Reviews
    BY DEF ReviewCallOK, HoldsRequest, IsConsumer, StepOf
  <2> QED BY <1>2, <2>1, <2>2 DEF ReviewCallOK, HoldsDecision
<1>4. HoldsImages(c)'
  <2>1. reviewCall[c].pc = "media" =>
          \A k \in reviewCall[c].todo : media'[reviewCall[c].review][k].status = "none"
    BY <1>1 DEF ReviewCallOK, HoldsRequest, HoldsImages, Unmarked, HasRow
  <2>2. reviewCall[c].pc \in {"verifying", "submitting"} =>
          /\ reviewCall[c].review \in Reviews
          /\ \A k \in MediaKinds :
               /\ media[reviewCall[c].review][k].status # "none"
               /\ reviews[reviewCall[c].review].status = "uploading"
                  /\ k \notin reviewCall[c].todo =>
                    /\ media[reviewCall[c].review][k].status = "uploaded"
                    /\ media[reviewCall[c].review][k].stored # "none"
    BY DEF ReviewCallOK, HoldsRequest, HoldsImages, HasRow, HasImage
  <2>3. \A r \in Reviews : \A k \in MediaKinds :
          /\ media[r][k].status # "none" => media'[r][k].status # "none"
          /\ reviews'[r].status = "uploading" => reviews[r].status = "uploading"
          /\ reviews'[r].status = "uploading" /\ media[r][k].status = "uploaded"
             /\ media[r][k].stored # "none" =>
               media'[r][k].status = "uploaded" /\ media'[r][k].stored # "none"
    BY DEF Lasting, HasRow, HasImage
  <2>4. reviewCall[c].pc \in {"verifying", "submitting"} =>
          \A k \in MediaKinds :
               /\ media'[reviewCall[c].review][k].status # "none"
               /\ reviews'[reviewCall[c].review].status = "uploading"
                  /\ k \notin reviewCall[c].todo =>
                    /\ media'[reviewCall[c].review][k].status = "uploaded"
                    /\ media'[reviewCall[c].review][k].stored # "none"
    BY <2>2, <2>3
  <2> QED BY <2>1, <2>4 DEF ReviewCallOK, HoldsImages, HasRow, HasImage
<1> QED BY <1>4, <1>5, <1>6 DEF ReviewCallOK

\* The calls after a step of one of them.
LEMMA CallsAfterCall ==
  ASSUME ReviewCallsOK, NEW c \in ReviewCalls, CallStep(c)
  PROVE  ReviewCallsOK'
<1>1. /\ Lasting /\ OwnMoves(c) /\ ReviewCallOK(c)'
      /\ \A b \in ReviewCalls : b # c => reviewCall'[b] = reviewCall[b]
      /\ \A r \in Reviews : /\ r \in Reviews'
                            /\ ~Active(r) => reviews'[r].status = reviews[r].status
  BY DEF CallStep, ReviewStep, Lasting
<1>2. \A b \in ReviewCalls : b # c =>
        /\ IsCreator(b)' <=> IsCreator(b)
        /\ IsConsumer(b)' <=> IsConsumer(b)
        /\ reviewCall'[b].review = reviewCall[b].review
  BY <1>1 DEF IsCreator, IsConsumer
<1>3. \A b \in ReviewCalls :
        /\ IsCreator(b) \/ IsConsumer(b) => reviewCall[b].review \in Reviews
        /\ IsConsumer(b) => reviews[reviewCall[b].review].status = "consumed"
  BY DEF ReviewCallsOK, ReviewCallOK, HoldsRequest, HoldsDecision
<1>4. ASSUME NEW b \in ReviewCalls PROVE ReviewCallOK(b)'
  <2>1. CASE b = c
    BY <1>1, <2>1
  <2>2. CASE b # c
    <3>1. \/ Unmarked
          \/ reviewCall[b].pc # "media"
          \/ media'[reviewCall[b].review] = media[reviewCall[b].review]
      <4>1. SUFFICES ASSUME ~Unmarked, reviewCall[b].pc = "media"
                     PROVE  media'[reviewCall[b].review] = media[reviewCall[b].review]
        OBVIOUS
      <4>2. IsCreator(b)
        BY <4>1 DEF ReviewCallsOK, ReviewCallOK, HoldsRequest, StepOf, IsCreator, ReviewCallsTyped,
           ReviewCallTypes, ReviewOps
      <4>3. IsCreator(c) /\ \A s \in Reviews : s # reviewCall[c].review => media'[s] = media[s]
        BY <4>1 DEF CallStep
      <4>4. reviewCall[b].review # reviewCall[c].review
        BY <2>2, <4>2, <4>3 DEF ReviewCallsOK, OwnRequests
      <4> QED BY <1>3, <4>2, <4>3, <4>4
    <3>2. ReviewCallsTyped /\ ReviewCallOK(b) /\ Lasting /\ reviewCall'[b] = reviewCall[b]
      BY <1>1, <2>2 DEF ReviewCallsOK
    <3> QED BY <3>1, <3>2, ReviewCallStays
  <2> QED BY <2>1, <2>2
<1>5. ASSUME NEW a \in ReviewCalls, NEW b \in ReviewCalls, IsCreator(a)', IsCreator(b)', a # b
      PROVE  reviewCall'[a].review # reviewCall'[b].review
  <2>1. \A d \in ReviewCalls : IsCreator(d)' =>
          \/ IsCreator(d) /\ reviewCall'[d].review = reviewCall[d].review
          \/ d = c /\ reviewCall'[d].review \notin Reviews
    BY <1>1, <1>2 DEF OwnMoves
  <2> QED BY <1>3, <1>5, <2>1 DEF ReviewCallsOK, OwnRequests
<1>6. ASSUME NEW a \in ReviewCalls, NEW b \in ReviewCalls, IsConsumer(a)', IsConsumer(b)', a # b
      PROVE  reviewCall'[a].review # reviewCall'[b].review
  <2>1. \A d \in ReviewCalls : IsConsumer(d)' =>
          \/ IsConsumer(d) /\ reviewCall'[d].review = reviewCall[d].review
          \/ d = c /\ reviews[reviewCall'[d].review].status = "approved"
    BY <1>1, <1>2 DEF OwnMoves
  <2> QED BY <1>3, <1>6, <2>1 DEF ReviewCallsOK, OwnRequests
<1>7. ASSUME NEW r \in Reviews'
      PROVE  \E d \in ReviewCalls : IsCreator(d)' /\ reviewCall'[d].review = r
  <2>1. CASE r \in Reviews
    <3>1. PICK d \in ReviewCalls : IsCreator(d) /\ reviewCall[d].review = r
      BY <2>1 DEF ReviewCallsOK, OwnRequests
    <3>2. IsCreator(d)' /\ reviewCall'[d].review = r
      BY <1>1, <1>2, <3>1 DEF OwnMoves
    <3> QED BY <3>2
  <2>2. CASE r \notin Reviews
    <3>1. IsCreator(c)' /\ reviewCall'[c].review = r
      BY <1>1, <1>7, <2>2 DEF OwnMoves
    <3> QED BY <3>1
  <2> QED BY <2>1, <2>2
<1>8. OwnRequests'
  BY <1>5, <1>6, <1>7 DEF OwnRequests, IsCreator, IsConsumer
<1>9. ReviewCallsTyped'
  BY DEF CallStep
<1>10. \A b \in ReviewCalls : ReviewCallOK(b)'
  BY <1>4
<1> QED
  <2> DEFINE Fine(b) == ReviewCallOK(b)
  <2>1. \A b \in ReviewCalls : Fine(b)'
    BY <1>10
  <2> HIDE DEF Fine
  <2>2. (\A b \in ReviewCalls : Fine(b))'
    BY <2>1
  <2>3. (\A b \in ReviewCalls : ReviewCallOK(b))'
    BY <2>2 DEF Fine
  <2> QED BY <1>8, <1>9, <2>3 DEF ReviewCallsOK

\* The calls after a step that is none of theirs.
LEMMA CallsAfterOther ==
  ASSUME ReviewCallsOK, Lasting, Unmarked, Reviews' = Reviews, reviewCall' = reviewCall
  PROVE  ReviewCallsOK'
<1>1. ASSUME NEW b \in ReviewCalls PROVE ReviewCallOK(b)'
  BY ReviewCallStays DEF ReviewCallsOK
<1>2. ReviewCallsTyped' /\ OwnRequests'
  BY DEF ReviewCallsOK, ReviewCallsTyped, OwnRequests, IsCreator, IsConsumer
<1>3. (\A b \in ReviewCalls : ReviewCallOK(b))'
  BY <1>1 DEF ReviewCallOK, HoldsRequest, HoldsImages, HoldsDecision
<1> QED BY <1>2, <1>3 DEF ReviewCallsOK

\* The steps by which a call changes the status of its request.
LEMMA CallTransitions ==
  ASSUME NEW c \in ReviewCalls, RowsOK, ReviewCallsTyped, reviewCall[c].review \in Reviews,
         NEW expected, NEW next, NEW pc \in ReviewSteps, NEW otherwise \in ReviewSteps,
         Allowed(expected, next),
         next = "pending" /\ reviews[reviewCall[c].review].status = expected =>
           \A k \in MediaKinds : HasImage(reviewCall[c].review, k),
         TransitionOr(c, reviewCall[c].review, expected, next, pc, otherwise),
         UNCHANGED <<media, agedCount, enrolled>>
  PROVE  /\ ReviewStep /\ Unmarked /\ Reviews' = Reviews
         /\ \/ /\ reviews[reviewCall[c].review].status = expected
               /\ reviews'[reviewCall[c].review].status = next
               /\ Goes(c, pc, reviewCall[c].review, reviewCall[c].todo)
            \/ Goes(c, otherwise, reviewCall[c].review, reviewCall[c].todo)
<1>1. PICK r \in Reviews : r = reviewCall[c].review
  OBVIOUS
<1>2. CASE reviews[r].status = expected
  <2>1. Transition(r, next) /\ StepTo(c, pc)
    BY <1>1, <1>2 DEF TransitionOr, StatusMatches
  <2>2. RowsOK' /\ Lasting /\ Unmarked /\ StatusMoves(r) /\ reviews'[r].status = next
    <3>1. next = "pending" => \A k \in MediaKinds : HasImage(r, k)
      BY <1>1, <1>2
    <3>2. Allowed(reviews[r].status, next)
      BY <1>2
    <3> QED BY <2>1, <3>1, <3>2, RequestMoves
  <2>3. Goes(c, pc, reviewCall[c].review, reviewCall[c].todo)
    BY <2>1, ReviewCallSteps
  <2> QED BY <1>1, <1>2, <2>2, <2>3 DEF ReviewStep, StatusesChange, StatusMoves
<1>3. CASE reviews[r].status # expected
  <2>1. StepTo(c, otherwise) /\ UNCHANGED reviewRows
    BY <1>1, <1>3 DEF TransitionOr, StatusMatches, reviewRows
  <2>2. RowsOK' /\ Lasting /\ Unmarked /\ StatusesStay
    BY <2>1, RowsStay
  <2>3. Goes(c, otherwise, reviewCall[c].review, reviewCall[c].todo)
    BY <2>1, ReviewCallSteps
  <2> QED BY <2>2, <2>3 DEF ReviewStep, StatusesChange, StatusesStay
<1> QED BY <1>2, <1>3

-----------------------------------------------------------------------------
(* HumanReview: every step of a call keeps what the calls rely on. *)

\* The steps that leave a call where it holds little.
LEMMA PlainStep ==
  ASSUME NEW c \in ReviewCalls, ReviewStep, Unmarked, Reviews' = Reviews, cleanup' = cleanup,
         NEW pc \in StepOf(reviewCall[c].op), NEW r, NEW todo, Goes(c, pc, r, todo),
         ~IsCreator(c),
         pc \notin {"media", "verifying", "submitting", "associating", "deleting"},
         pc = "ok" => reviewCall[c].op \notin {"create", "register"},
         pc \notin {"idle", "inserting", "ok", "failed"} => r \in Reviews,
         pc = "expiring" => reviewCall'[c].read \in ActiveStatuses
                            \/ reviewCall[c].op \in {"queue", "approve", "reject"},
         pc = "removing" => reviews'[r].status = "cancelled",
         pc = "recording" /\ reviewCall[c].op = "reject" => reviews'[r].status = "rejected",
         reviewCall[c].op = "register" /\ pc \notin {"idle", "failed"} =>
           reviews'[r].device = reviewCall[c].device
  PROVE  CallStep(c)
<1>1. ~IsCreator(c)' /\ ~IsConsumer(c)'
  BY DEF Goes, IsCreator, IsConsumer
<1>2. HoldsRequest(c)'
  BY <1>1 DEF Goes, HoldsRequest, StepOf
<1>3. HoldsImages(c)'
  BY DEF Goes, HoldsImages
<1>4. HoldsDecision(c)'
  BY <1>1 DEF Goes, HoldsDecision
<1>5. OwnMoves(c)
  BY <1>1 DEF OwnMoves
<1> QED BY <1>2, <1>3, <1>4, <1>5 DEF CallStep, ReviewCallOK, Goes

LEMMA FindActiveKeeps ==
  ASSUME RowsOK, ReviewCallsOK, NEW c \in ReviewCalls, FindActive(c)
  PROVE  CallStep(c)
<1>1. ReviewStep /\ Unmarked /\ Reviews' = Reviews /\ cleanup' = cleanup
  BY RowsStay DEF FindActive, ReviewStep, StatusesChange, StatusesStay
<1>2. ~IsCreator(c) /\ reviewCall[c].op = "create" /\ ReviewCallsTyped /\ Reviews \subseteq Nat
  BY RequestNumbers DEF FindActive, At, IsCreator, ReviewCallsOK, RowsOK
<1>3. {"inserting", "expiring", "failed"} \subseteq StepOf("create")
      /\ {"inserting", "expiring", "failed"} \subseteq ReviewSteps
  BY DEF StepOf, ReviewSteps
<1>4. \/ StepTo(c, "inserting") \/ End(c, "failed")
      \/ \E r \in Reviews : Loads(c, "expiring", r, reviews[r].status) /\ Active(r)
  BY DEF FindActive, Loads, ActiveOf
<1>5. CASE StepTo(c, "inserting")
  <2>1. PICK r, todo : r = reviewCall[c].review /\ todo = reviewCall[c].todo
    OBVIOUS
  <2>2. Goes(c, "inserting", r, todo)
    BY <1>2, <1>3, <1>5, <2>1, ReviewCallSteps
  <2> QED BY <1>1, <1>2, <1>3, <2>2, PlainStep
<1>6. CASE End(c, "failed")
  <2>1. PICK r : r = reviewCall[c].review
    OBVIOUS
  <2>2. Goes(c, "failed", r, {})
    BY <1>2, <1>3, <1>6, <2>1, ReviewCallEnds
  <2> QED BY <1>1, <1>2, <1>3, <2>2, PlainStep
<1>7. CASE \E r \in Reviews : Loads(c, "expiring", r, reviews[r].status) /\ Active(r)
  <2>1. PICK r \in Reviews : Loads(c, "expiring", r, reviews[r].status) /\ Active(r)
    BY <1>7
  <2>2. PICK read, todo : read = reviews[r].status /\ todo = reviewCall[c].todo
    OBVIOUS
  <2>3. read \in ActiveStatuses /\ read \in ReviewStatuses /\ r \in Nat
    BY <1>2, <2>1, <2>2 DEF Active, ReviewStatuses
  <2>4. Goes(c, "expiring", r, todo) /\ reviewCall'[c].read = read
    BY <1>2, <1>3, <2>1, <2>2, <2>3, ReviewCallLoads
  <2> QED BY <1>1, <1>2, <1>3, <2>3, <2>4, PlainStep
<1> QED BY <1>4, <1>5, <1>6, <1>7

\* A status change of its own request takes a call to one of two steps.
LEMMA PlainTransition ==
  ASSUME RowsOK, ReviewCallsOK, NEW c \in ReviewCalls, ~IsCreator(c),
         NEW expected, NEW next,
         NEW pc \in StepOf(reviewCall[c].op), NEW otherwise \in {"inserting", "failed"},
         otherwise \in StepOf(reviewCall[c].op),
         pc \in {"inserting", "failed", "ok", "removing", "recording"},
         pc = "ok" => reviewCall[c].op \notin {"create", "register"},
         reviewCall[c].op # "register",
         reviewCall[c].review \in Reviews, Allowed(expected, next),
         next = "pending" /\ reviews[reviewCall[c].review].status = expected =>
           \A k \in MediaKinds : HasImage(reviewCall[c].review, k),
         pc = "removing" => next = "cancelled",
         pc = "recording" /\ reviewCall[c].op = "reject" => next = "rejected",
         TransitionOr(c, reviewCall[c].review, expected, next, pc, otherwise),
         UNCHANGED <<media, agedCount, enrolled, cleanup>>
  PROVE  CallStep(c)
<1>1. PICK r, todo : r = reviewCall[c].review /\ todo = reviewCall[c].todo
  OBVIOUS
<1>2. pc \in ReviewSteps /\ otherwise \in ReviewSteps
  BY DEF ReviewSteps
<1>3. /\ ReviewStep /\ Unmarked /\ Reviews' = Reviews
      /\ \/ reviews'[r].status = next /\ Goes(c, pc, r, todo)
         \/ Goes(c, otherwise, r, todo)
  BY <1>1, <1>2, CallTransitions DEF ReviewCallsOK
<1>4. CASE reviews'[r].status = next /\ Goes(c, pc, r, todo)
  BY <1>1, <1>3, <1>4, PlainStep
<1>5. CASE Goes(c, otherwise, r, todo)
  BY <1>1, <1>3, <1>5, PlainStep
<1> QED BY <1>3, <1>4, <1>5

LEMMA ExpireOldKeeps ==
  ASSUME RowsOK, ReviewCallsOK, NEW c \in ReviewCalls, ExpireOld(c)
  PROVE  CallStep(c)
<1>1. PICK expected : expected = reviewCall[c].read
  OBVIOUS
<1>2. /\ reviewCall[c].op = "create" /\ ~IsCreator(c)
      /\ reviewCall[c].review \in Reviews /\ expected \in ActiveStatuses
  BY <1>1 DEF ExpireOld, At, IsCreator, ReviewCallsOK, ReviewCallOK, HoldsRequest
<1>3. "inserting" \in StepOf("create") /\ Allowed(expected, "expired")
  BY <1>2 DEF StepOf, Allowed
<1>4. TransitionOr(c, reviewCall[c].review, expected, "expired", "inserting", "inserting")
      /\ UNCHANGED <<media, agedCount, enrolled, cleanup>>
  BY <1>1 DEF ExpireOld
<1> QED BY <1>2, <1>3, <1>4, PlainTransition

LEMMA ExpireLoadedKeeps ==
  ASSUME RowsOK, ReviewCallsOK, NEW c \in ReviewCalls, ExpireLoaded(c)
  PROVE  CallStep(c)
<1>1. PICK expected : expected = reviewCall[c].read
  OBVIOUS
<1>2. /\ reviewCall[c].op # "register" /\ ~IsCreator(c)
      /\ reviewCall[c].review \in Reviews /\ expected \in ActiveStatuses
  BY <1>1 DEF ExpireLoaded, IsCreator, ReviewCallsOK, ReviewCallOK, HoldsRequest
<1>3. "failed" \in StepOf(reviewCall[c].op) /\ Allowed(expected, "expired")
  BY <1>2 DEF StepOf, Allowed
<1>4. TransitionOr(c, reviewCall[c].review, expected, "expired", "failed", "failed")
      /\ UNCHANGED <<media, agedCount, enrolled, cleanup>>
  BY <1>1 DEF ExpireLoaded
<1> QED BY <1>2, <1>3, <1>4, PlainTransition

LEMMA SubmitRequestKeeps ==
  ASSUME RowsOK, ReviewCallsOK, NEW c \in ReviewCalls, SubmitRequest(c)
  PROVE  CallStep(c)
<1>1. /\ reviewCall[c].op = "complete" /\ reviewCall[c].pc = "submitting" /\ ~IsCreator(c)
      /\ HoldsRequest(c) /\ HoldsImages(c)
  BY DEF SubmitRequest, At, IsCreator, ReviewCallsOK, ReviewCallOK
<1>2. reviewCall[c].review \in Reviews
  BY <1>1 DEF HoldsRequest
<1>3. ASSUME reviews[reviewCall[c].review].status = "uploading"
      PROVE  \A k \in MediaKinds : HasImage(reviewCall[c].review, k)
  BY <1>1, <1>3 DEF HoldsImages
<1>4. /\ "ok" \in StepOf(reviewCall[c].op) /\ "failed" \in StepOf(reviewCall[c].op)
      /\ Allowed("uploading", "pending")
  BY <1>1 DEF StepOf, Allowed
<1>5. TransitionOr(c, reviewCall[c].review, "uploading", "pending", "ok", "failed")
      /\ UNCHANGED <<media, agedCount, enrolled, cleanup>>
  BY DEF SubmitRequest
<1> QED BY <1>1, <1>2, <1>3, <1>4, <1>5, PlainTransition

LEMMA ExpirePendingKeeps ==
  ASSUME RowsOK, ReviewCallsOK, NEW c \in ReviewCalls, ExpirePending(c)
  PROVE  CallStep(c)
<1>1. reviewCall[c].op # "register" /\ ~IsCreator(c) /\ reviewCall[c].review \in Reviews
  BY DEF ExpirePending, IsCreator, ReviewCallsOK, ReviewCallOK, HoldsRequest
<1>2. "failed" \in StepOf(reviewCall[c].op) /\ Allowed("pending", "expired")
  BY DEF StepOf, Allowed, ActiveStatuses
<1>3. TransitionOr(c, reviewCall[c].review, "pending", "expired", "failed", "failed")
      /\ UNCHANGED <<media, agedCount, enrolled, cleanup>>
  BY DEF ExpirePending
<1> QED BY <1>1, <1>2, <1>3, PlainTransition

LEMMA DecideKeeps ==
  ASSUME RowsOK, ReviewCallsOK, NEW c \in ReviewCalls, Decide(c)
  PROVE  CallStep(c)
<1>1. /\ reviewCall[c].pc = "deciding" /\ reviewCall[c].pc \in StepOf(reviewCall[c].op)
      /\ reviewCall[c].op \in ReviewOps /\ reviewCall[c].review \in Reviews
  BY DEF Decide, ReviewCallsOK, ReviewCallOK, HoldsRequest, ReviewCallsTyped, ReviewCallTypes
<1>2. reviewCall[c].op \in {"approve", "reject"} /\ ~IsCreator(c)
  BY <1>1 DEF StepOf, ReviewOps, IsCreator
<1>3. {"recording", "failed"} \subseteq StepOf(reviewCall[c].op)
  BY <1>2 DEF StepOf
<1>4. PICK next : next = Decision(c)
  OBVIOUS
<1>5. /\ Allowed("pending", next) /\ next # "pending"
      /\ reviewCall[c].op = "reject" => next = "rejected"
  BY <1>2, <1>4 DEF Decision, Allowed
<1>6. TransitionOr(c, reviewCall[c].review, "pending", next, "recording", "failed")
      /\ UNCHANGED <<media, agedCount, enrolled, cleanup>>
  BY <1>4 DEF Decide
<1> QED BY <1>1, <1>2, <1>3, <1>5, <1>6, PlainTransition

\* A step that leaves the rows alone.
LEMMA RowsUntouched ==
  ASSUME RowsOK, UNCHANGED reviewRows
  PROVE  ReviewStep /\ Unmarked /\ Reviews' = Reviews
  BY RowsStay DEF ReviewStep, StatusesChange, StatusesStay

\* A call that only ends.
LEMMA PlainEnd ==
  ASSUME ReviewCallsOK, NEW c \in ReviewCalls, ReviewStep, Unmarked, Reviews' = Reviews,
         cleanup' = cleanup, ~IsCreator(c), NEW pc \in {"ok", "failed"}, End(c, pc),
         pc = "ok" => reviewCall[c].op \notin {"create", "register"}
  PROVE  CallStep(c)
<1>1. PICK r : r = reviewCall[c].review
  OBVIOUS
<1>2. pc \in ReviewSteps /\ pc \in StepOf(reviewCall[c].op)
  BY DEF ReviewSteps, StepOf
<1>3. Goes(c, pc, r, {})
  BY <1>1, <1>2, ReviewCallEnds DEF ReviewCallsOK
<1> QED BY <1>2, <1>3, PlainStep

LEMMA RequireReviewKeeps ==
  ASSUME RowsOK, ReviewCallsOK, NEW c \in ReviewCalls, RequireReview(c)
  PROVE  CallStep(c)
<1>1. ReviewStep /\ Unmarked /\ Reviews' = Reviews /\ cleanup' = cleanup
  BY RowsUntouched DEF RequireReview
<1>2. ~IsCreator(c) /\ reviewCall[c].op \in {"complete", "refreshUrls", "cancel"}
      /\ ReviewCallsTyped
  BY DEF RequireReview, IsCreator, ReviewCallsOK
<1>3. PICK r \in Reviews, pc \in {"expiring", "loaded"} :
        Loads(c, pc, r, reviews[r].status) /\ (pc = "expiring" => Active(r))
  <2>1. PICK r \in Reviews :
          reviewCall' = [reviewCall EXCEPT
              ![c].review = r, ![c].read = reviews[r].status,
              ![c].pc = IF reviews[r].overdue /\ Active(r) THEN "expiring" ELSE "loaded"]
    BY DEF RequireReview
  <2>2. PICK pc : pc = IF reviews[r].overdue /\ Active(r) THEN "expiring" ELSE "loaded"
    OBVIOUS
  <2>3. Loads(c, pc, r, reviews[r].status)
    BY <2>1, <2>2 DEF Loads
  <2> QED BY <2>2, <2>3
<1>4. PICK read, todo : read = reviews[r].status /\ todo = reviewCall[c].todo
  OBVIOUS
<1>5. read \in ReviewStatuses /\ r \in Nat /\ (pc = "expiring" => read \in ActiveStatuses)
  BY <1>3, <1>4, RequestNumbers DEF Active, RowsOK, ReviewTypes
<1>6. pc \in ReviewSteps /\ pc \in StepOf(reviewCall[c].op)
  BY <1>2 DEF ReviewSteps, StepOf
<1>7. Goes(c, pc, r, todo) /\ reviewCall'[c].read = read
  BY <1>2, <1>3, <1>4, <1>5, <1>6, ReviewCallLoads
<1> QED BY <1>1, <1>2, <1>5, <1>6, <1>7, PlainStep

LEMMA StartVerifyingKeeps ==
  ASSUME RowsOK, ReviewCallsOK, NEW c \in ReviewCalls, StartVerifying(c)
  PROVE  CallStep(c)
<1>1. ReviewStep /\ Unmarked /\ Reviews' = Reviews /\ cleanup' = cleanup
  BY RowsUntouched DEF StartVerifying
<1>2. ~IsCreator(c) /\ reviewCall[c].op = "complete" /\ reviewCall[c].pc = "loaded"
      /\ ReviewCallsTyped /\ reviewCall[c].review \in Reviews
  BY DEF StartVerifying, At, IsCreator, ReviewCallsOK, ReviewCallOK, HoldsRequest
<1>3. \/ End(c, "ok") \/ End(c, "failed")
      \/ /\ Works(c, "verifying", MediaKinds)
         /\ \A k \in MediaKinds : media[reviewCall[c].review][k].status # "none"
  <2>1. CASE reviewCall[c].read = "pending"
    BY <2>1 DEF StartVerifying
  <2>2. CASE reviewCall[c].read = "uploading"
             /\ \A k \in MediaKinds : media[reviewCall[c].review][k].status # "none"
    BY <2>2 DEF StartVerifying, Works
  <2>3. CASE /\ reviewCall[c].read # "pending"
             /\ ~(reviewCall[c].read = "uploading"
                  /\ \A k \in MediaKinds : media[reviewCall[c].review][k].status # "none")
    BY <2>3 DEF StartVerifying
  <2> QED BY <2>1, <2>2, <2>3
<1>4. CASE End(c, "ok") \/ End(c, "failed")
  BY <1>1, <1>2, <1>4, PlainEnd
<1>5. CASE /\ Works(c, "verifying", MediaKinds)
           /\ \A k \in MediaKinds : media[reviewCall[c].review][k].status # "none"
  <2>1. PICK r : r = reviewCall[c].review
    OBVIOUS
  <2>2. Goes(c, "verifying", r, MediaKinds)
    BY <1>2, <1>5, <2>1, ReviewCallWorks DEF ReviewSteps
  <2>3. ~IsCreator(c)' /\ ~IsConsumer(c)'
    BY <1>2, <2>2 DEF Goes, IsCreator, IsConsumer
  <2>4. HoldsRequest(c)' /\ HoldsDecision(c)' /\ OwnMoves(c)
    BY <1>1, <1>2, <2>1, <2>2, <2>3 DEF Goes, HoldsRequest, HoldsDecision, OwnMoves, StepOf
  <2>5. HoldsImages(c)'
    <3>1. media' = media
      BY DEF StartVerifying, reviewRows
    <3> QED BY <1>5, <2>1, <2>2, <3>1, MediaKindsAssumption DEF Goes, HoldsImages, HasRow
  <2> QED BY <1>1, <2>2, <2>4, <2>5 DEF CallStep, ReviewCallOK, Goes
<1> QED BY <1>3, <1>4, <1>5

LEMMA VerifyMediaKeeps ==
  ASSUME RowsOK, ReviewCallsOK, NEW c \in ReviewCalls, VerifyMedia(c)
  PROVE  CallStep(c)
<1>1. /\ ~IsCreator(c) /\ reviewCall[c].op = "complete" /\ reviewCall[c].pc = "verifying"
      /\ ReviewCallsTyped /\ reviewCall[c].review \in Reviews
      /\ HoldsImages(c) /\ reviewCall[c].todo # {} /\ reviewCall[c].todo \subseteq MediaKinds
  BY DEF VerifyMedia, At, IsCreator, ReviewCallsOK, ReviewCallOK, HoldsRequest, HoldsImages,
     ReviewCallsTyped, ReviewCallTypes
<1>2. PICK r, k, left : /\ r = reviewCall[c].review
                        /\ k = CHOOSE i \in reviewCall[c].todo : TRUE
                        /\ left = reviewCall[c].todo \ {k}
  OBVIOUS
<1>3. /\ k \in MediaKinds /\ k \in reviewCall[c].todo /\ r \in Reviews
      /\ media[r] \in MediaTypes /\ left \in SUBSET MediaKinds
  BY <1>1, <1>2, RequestNumbers DEF RowsOK
<1>4. CASE ~BytesMatch(r, k)
  <2>1. End(c, "failed") /\ UNCHANGED reviewRows /\ cleanup' = cleanup
    BY <1>2, <1>4 DEF VerifyMedia, reviewRows
  <2> QED BY <1>1, <2>1, RowsUntouched, PlainEnd
<1>5. CASE BytesMatch(r, k)
  <2> DEFINE images == [media[r] EXCEPT ![k].status = "uploaded"]
             pc == IF left = {} THEN "submitting" ELSE "verifying"
  <2>1. /\ media' = [media EXCEPT ![r] = images]
        /\ Works(c, pc, left) /\ cleanup' = cleanup
        /\ UNCHANGED <<reviews, settledOrder, agedCount, enrolled>>
    <3>1. /\ media' = [media EXCEPT ![r][k].status = "uploaded"]
          /\ reviewCall' = [reviewCall EXCEPT ![c].todo = left,
                              ![c].pc = IF left = {} THEN "submitting" ELSE @]
          /\ UNCHANGED <<reviews, settledOrder, agedCount, enrolled, cleanup>>
      BY <1>2, <1>5 DEF VerifyMedia
    <3> QED BY <1>1, <3>1 DEF Works, ReviewCallsTyped, ReviewCallTypes
  <2>2. /\ images \in MediaTypes
        /\ \A i \in MediaKinds : images[i].stored = media[r][i].stored
        /\ \A i \in MediaKinds :
             images[i].status = IF i = k THEN "uploaded" ELSE media[r][i].status
    BY <1>3 DEF MediaTypes, ImageTypes
  <2>3. media[r][k].stored = "declared" /\ HasRow(r, k)
    BY <1>1, <1>2, <1>3, <1>5 DEF BytesMatch, HoldsImages
  <2> HIDE DEF images
  <2>4. /\ RowsOK' /\ Lasting /\ StatusesStay /\ media'[r] = images /\ Unmarked
    <3>1. KeepsImages(r, images) /\ MakesNoRow(r, images)
      BY <2>2, <2>3 DEF HasRow, HasImage, KeepsImages, MakesNoRow
    <3> QED BY <1>3, <2>1, <2>2, <3>1, ImagesChange
  <2>5. Goes(c, pc, r, left) /\ pc \in {"submitting", "verifying"}
    <3>1. pc \in ReviewSteps /\ pc \in {"submitting", "verifying"}
      BY DEF ReviewSteps
    <3> HIDE DEF pc
    <3> QED BY <1>1, <1>2, <1>3, <2>1, <3>1, ReviewCallWorks
  <2>6. ~IsCreator(c)' /\ ~IsConsumer(c)'
    BY <1>1, <2>5 DEF Goes, IsCreator, IsConsumer
  <2>7. HoldsRequest(c)' /\ HoldsDecision(c)' /\ OwnMoves(c)
    <3>1. Reviews' = Reviews
      BY <2>4 DEF StatusesStay
    <3>2. pc \in StepOf("complete")
      BY DEF StepOf
    <3> HIDE DEF pc
    <3> QED BY <1>1, <1>3, <2>5, <2>6, <3>1, <3>2 DEF Goes, HoldsRequest, HoldsDecision, OwnMoves
  <2>8. HoldsImages(c)'
    <3>1. reviews' = reviews /\ (pc = "submitting" => left = {}) /\ (pc = "verifying" => left # {})
      BY <2>1
    <3>2. \A i \in MediaKinds :
            /\ media'[r][i].status # "none"
            /\ reviews[r].status = "uploading" /\ i \notin left =>
                 media'[r][i].status = "uploaded" /\ media'[r][i].stored # "none"
      <4>1. \A i \in MediaKinds :
              /\ media[r][i].status # "none"
              /\ reviews[r].status = "uploading" /\ i \notin reviewCall[c].todo =>
                   media[r][i].status = "uploaded" /\ media[r][i].stored # "none"
        BY <1>1, <1>2 DEF HoldsImages, HasRow, HasImage
      <4>2. \A i \in MediaKinds :
              /\ media'[r][i].stored = media[r][i].stored
              /\ media'[r][i].status = IF i = k THEN "uploaded" ELSE media[r][i].status
        BY <2>2, <2>4
      <4>3. \A i \in MediaKinds : i \notin left => i = k \/ i \notin reviewCall[c].todo
        BY <1>2
      <4> QED BY <2>3, <4>1, <4>2, <4>3
    <3> HIDE DEF pc
    <3> QED BY <2>5, <3>1, <3>2 DEF Goes, HoldsImages, HasRow, HasImage
  <2> QED BY <2>1, <2>4, <2>5, <2>7, <2>8 DEF CallStep, ReviewStep, StatusesChange, ReviewCallOK, Goes
<1> QED BY <1>4, <1>5

LEMMA RefreshUploadUrlsKeeps ==
  ASSUME RowsOK, ReviewCallsOK, NEW c \in ReviewCalls, RefreshUploadUrls(c)
  PROVE  CallStep(c)
<1>1. /\ ~IsCreator(c) /\ reviewCall[c].op = "refreshUrls" /\ reviewCall[c].review \in Reviews
  BY DEF RefreshUploadUrls, At, IsCreator, ReviewCallsOK, ReviewCallOK, HoldsRequest
<1>2. PICK r \in Reviews : r = reviewCall[c].review
  BY <1>1
<1> DEFINE row == [reviews[r] EXCEPT !.upsert = TRUE]
<1>3. \/ End(c, "failed") /\ UNCHANGED reviewRows
      \/ /\ End(c, "ok") /\ reviews' = [reviews EXCEPT ![r] = row]
         /\ UNCHANGED <<settledOrder, media, agedCount, enrolled>>
  BY <1>2 DEF RefreshUploadUrls, reviewRows
<1>4. /\ row \in ReviewTypes /\ row.status = reviews[r].status /\ row.device = reviews[r].device
      /\ row.action = "rejected" => row.status = "rejected"
  BY RequestNumbers DEF RowsOK, Judged, ReviewTypes
<1>5. cleanup' = cleanup
  BY DEF RefreshUploadUrls
<1> HIDE DEF row
<1>6. CASE End(c, "failed") /\ UNCHANGED reviewRows
  BY <1>1, <1>5, <1>6, RowsUntouched, PlainEnd
<1>7. CASE /\ End(c, "ok") /\ reviews' = [reviews EXCEPT ![r] = row]
           /\ UNCHANGED <<settledOrder, media, agedCount, enrolled>>
  <2>1. RowsOK' /\ Lasting /\ Unmarked /\ StatusesStay
    BY <1>4, <1>7, RequestChanges
  <2>2. ReviewStep /\ Reviews' = Reviews
    BY <2>1 DEF ReviewStep, StatusesChange, StatusesStay
  <2> QED BY <1>1, <1>5, <1>7, <2>1, <2>2, PlainEnd
<1> QED BY <1>3, <1>6, <1>7

LEMMA CancelRequestKeeps ==
  ASSUME RowsOK, ReviewCallsOK, NEW c \in ReviewCalls, CancelRequest(c)
  PROVE  CallStep(c)
<1>1. /\ ~IsCreator(c) /\ reviewCall[c].op = "cancel" /\ reviewCall[c].review \in Reviews
      /\ cleanup' = cleanup
  BY DEF CancelRequest, At, IsCreator, ReviewCallsOK, ReviewCallOK, HoldsRequest
<1>2. PICK expected : expected = reviewCall[c].read
  OBVIOUS
<1>3. CASE expected \in {"uploading", "pending"}
  <2>1. TransitionOr(c, reviewCall[c].review, expected, "cancelled", "removing", "failed")
        /\ UNCHANGED <<media, agedCount, enrolled, cleanup>>
    BY <1>2, <1>3 DEF CancelRequest
  <2>2. /\ "removing" \in StepOf(reviewCall[c].op) /\ "failed" \in StepOf(reviewCall[c].op)
        /\ Allowed(expected, "cancelled")
    BY <1>1, <1>3 DEF StepOf, Allowed
  <2> QED BY <1>1, <2>1, <2>2, PlainTransition
<1>4. CASE expected \notin {"uploading", "pending"}
  <2>1. End(c, "failed") /\ UNCHANGED reviewRows
    BY <1>2, <1>4 DEF CancelRequest, reviewRows
  <2> QED BY <1>1, <2>1, RowsUntouched, PlainEnd
<1> QED BY <1>3, <1>4

LEMMA RemoveCancelledKeeps ==
  ASSUME RowsOK, ReviewCallsOK, NEW c \in ReviewCalls, RemoveCancelled(c)
  PROVE  CallStep(c)
<1>1. /\ ~IsCreator(c) /\ reviewCall[c].op = "cancel" /\ reviewCall[c].review \in Reviews
      /\ reviews[reviewCall[c].review].status = "cancelled" /\ cleanup' = cleanup
  BY DEF RemoveCancelled, At, IsCreator, ReviewCallsOK, ReviewCallOK, HoldsRequest, HoldsDecision
<1>2. PICK r \in Reviews : r = reviewCall[c].review
  BY <1>1
<1> DEFINE images == [k \in MediaKinds |-> [media[r][k] EXCEPT !.stored = "none"]]
<1>3. media' = [media EXCEPT ![r] = images]
  BY <1>2 DEF RemoveCancelled
<1>4. media[r] \in MediaTypes
  BY RequestNumbers DEF RowsOK
<1>5. images \in MediaTypes /\ \A k \in MediaKinds : images[k].status = media[r][k].status
  BY <1>4 DEF MediaTypes, ImageTypes
<1> HIDE DEF images
<1>6. KeepsImages(r, images) /\ MakesNoRow(r, images)
  BY <1>1, <1>2, <1>5 DEF KeepsImages, MakesNoRow, HasRow, Active, ActiveStatuses
<1>7. RowsOK' /\ Lasting /\ StatusesStay /\ Unmarked
  BY <1>3, <1>5, <1>6, ImagesChange DEF RemoveCancelled
<1>8. ReviewStep /\ Reviews' = Reviews
  BY <1>7 DEF ReviewStep, StatusesChange, StatusesStay
<1> QED BY <1>1, <1>7, <1>8, PlainEnd DEF RemoveCancelled

\* A call takes up a request, whose rows it leaves alone.
LEMMA PlainTake ==
  ASSUME RowsOK, ReviewCallsOK, NEW c \in ReviewCalls, ~IsCreator(c), cleanup' = cleanup,
         UNCHANGED reviewRows, NEW r \in Reviews,
         NEW pc \in {"expiring", "deciding", "enrolling"},
         pc \in StepOf(reviewCall[c].op),
         Takes(c, pc, r),
         pc = "expiring" => reviewCall[c].op \in {"queue", "approve", "reject"},
         reviewCall[c].op = "register" => reviews[r].device = reviewCall[c].device
  PROVE  CallStep(c)
<1>1. PICK todo : todo = reviewCall[c].todo
  OBVIOUS
<1>2. ReviewStep /\ Unmarked /\ Reviews' = Reviews /\ reviews' = reviews
  BY RowsUntouched DEF reviewRows
<1>3. pc \in ReviewSteps /\ r \in Nat
  BY RequestNumbers DEF ReviewSteps, RowsOK
<1>4. Goes(c, pc, r, todo)
  BY <1>1, <1>3, ReviewCallTakes DEF ReviewCallsOK
<1> QED BY <1>2, <1>4, PlainStep

LEMMA ExpireQueuedKeeps ==
  ASSUME RowsOK, ReviewCallsOK, NEW c \in ReviewCalls, ExpireQueued(c)
  PROVE  CallStep(c)
<1>1. PICK r \in Reviews : Takes(c, "expiring", r)
  BY DEF ExpireQueued, Takes
<1>2. /\ ~IsCreator(c) /\ reviewCall[c].op = "queue" /\ cleanup' = cleanup
      /\ UNCHANGED reviewRows /\ "expiring" \in StepOf(reviewCall[c].op)
  BY DEF ExpireQueued, At, IsCreator, StepOf
<1> QED BY <1>1, <1>2, PlainTake

LEMMA LoadForDecisionKeeps ==
  ASSUME RowsOK, ReviewCallsOK, NEW c \in ReviewCalls, LoadForDecision(c)
  PROVE  CallStep(c)
<1>1. PICK r \in Reviews, pc \in {"expiring", "deciding"} : Takes(c, pc, r)
  <2>1. PICK r \in Reviews :
          reviewCall' = [reviewCall EXCEPT ![c].review = r,
              ![c].pc = IF reviews[r].overdue THEN "expiring" ELSE "deciding"]
    BY DEF LoadForDecision
  <2>2. PICK pc : pc = IF reviews[r].overdue THEN "expiring" ELSE "deciding"
    OBVIOUS
  <2>3. Takes(c, pc, r)
    BY <2>1, <2>2 DEF Takes
  <2> QED BY <2>2, <2>3
<1>2. /\ ~IsCreator(c) /\ reviewCall[c].op \in {"approve", "reject"} /\ cleanup' = cleanup
      /\ UNCHANGED reviewRows
  BY DEF LoadForDecision, IsCreator
<1>3. pc \in StepOf(reviewCall[c].op)
  BY <1>2 DEF StepOf
<1> QED BY <1>1, <1>2, <1>3, PlainTake

LEMMA ValidateApprovalKeeps ==
  ASSUME RowsOK, ReviewCallsOK, NEW c \in ReviewCalls, ValidateApproval(c)
  PROVE  CallStep(c)
<1>1. PICK r \in Reviews : Takes(c, "enrolling", r) /\ reviews[r].device = reviewCall[c].device
  BY DEF ValidateApproval, Takes, Usable
<1>2. /\ ~IsCreator(c) /\ reviewCall[c].op = "register" /\ cleanup' = cleanup
      /\ UNCHANGED reviewRows /\ "enrolling" \in StepOf(reviewCall[c].op)
  BY DEF ValidateApproval, At, IsCreator, StepOf
<1> QED BY <1>1, <1>2, PlainTake

LEMMA RecordActionKeeps ==
  ASSUME RowsOK, ReviewCallsOK, NEW c \in ReviewCalls, RecordAction(c)
  PROVE  CallStep(c)
<1>1. /\ reviewCall[c].pc = "recording" /\ reviewCall[c].pc \in StepOf(reviewCall[c].op)
      /\ reviewCall[c].op \in ReviewOps /\ reviewCall[c].review \in Reviews
      /\ reviewCall[c].op = "reject" => reviews[reviewCall[c].review].status = "rejected"
  BY DEF RecordAction, ReviewCallsOK, ReviewCallOK, HoldsRequest, HoldsDecision, ReviewCallsTyped,
     ReviewCallTypes
<1>2. reviewCall[c].op \in {"approve", "reject"} /\ ~IsCreator(c)
  BY <1>1 DEF StepOf, ReviewOps, IsCreator
<1>3. PICK r, action : r \in Reviews /\ r = reviewCall[c].review /\ action = Decision(c)
  BY <1>1
<1> DEFINE row == [reviews[r] EXCEPT !.action = action]
<1>4. /\ reviews' = [reviews EXCEPT ![r] = row] /\ End(c, "ok")
      /\ UNCHANGED <<settledOrder, media, agedCount, enrolled, cleanup>>
  BY <1>3 DEF RecordAction
<1>5. /\ action \in {"approved", "rejected"}
      /\ action = "rejected" => reviews[r].status = "rejected"
  BY <1>1, <1>2, <1>3 DEF Decision
<1>6. /\ row \in ReviewTypes /\ row.status = reviews[r].status /\ row.device = reviews[r].device
      /\ row.action = "rejected" => row.status = "rejected"
  BY <1>3, <1>5, RequestNumbers DEF RowsOK, ReviewTypes
<1> HIDE DEF row
<1>7. RowsOK' /\ Lasting /\ Unmarked /\ StatusesStay
  BY <1>3, <1>4, <1>6, RequestChanges
<1>8. ReviewStep /\ Reviews' = Reviews
  BY <1>7 DEF ReviewStep, StatusesChange, StatusesStay
<1> QED BY <1>2, <1>4, <1>7, <1>8, PlainEnd

LEMMA EnrolDeviceKeeps ==
  ASSUME RowsOK, ReviewCallsOK, NEW c \in ReviewCalls, EnrolDevice(c)
  PROVE  CallStep(c)
<1>1. /\ ~IsCreator(c) /\ reviewCall[c].op = "register" /\ reviewCall[c].pc = "enrolling"
      /\ reviewCall[c].review \in Reviews /\ reviewCall[c].device \in ReviewDevices
      /\ reviews[reviewCall[c].review].device = reviewCall[c].device /\ ReviewCallsTyped
  BY DEF EnrolDevice, At, IsCreator, ReviewCallsOK, ReviewCallOK, HoldsRequest, HoldsDecision,
     ReviewCallsTyped, ReviewCallTypes
<1>2. /\ enrolled' = enrolled \cup {reviewCall[c].device} /\ StepTo(c, "revalidating")
      /\ UNCHANGED <<reviews, media, settledOrder, agedCount, cleanup>>
  BY DEF EnrolDevice
<1>3. ReviewRowsTyped'
  BY <1>1, <1>2 DEF RowsOK, ReviewRowsTyped
<1>4. RowsOK' /\ Lasting /\ Unmarked /\ StatusesStay
  BY <1>2, <1>3 DEF RowsOK, ReviewsSettled, Judged, HasImage, HasRow, Lasting,
     Unmarked, StatusesStay, Reviews, Active
<1>5. ReviewStep /\ Reviews' = Reviews
  BY <1>4 DEF ReviewStep, StatusesChange, StatusesStay
<1>6. PICK r, todo : r = reviewCall[c].review /\ todo = reviewCall[c].todo
  OBVIOUS
<1>7. Goes(c, "revalidating", r, todo) /\ "revalidating" \in StepOf(reviewCall[c].op)
  BY <1>1, <1>2, <1>6, ReviewCallSteps DEF ReviewSteps, StepOf
<1> QED BY <1>1, <1>2, <1>4, <1>5, <1>6, <1>7, PlainStep

LEMMA RevalidateKeeps ==
  ASSUME RowsOK, ReviewCallsOK, NEW c \in ReviewCalls, Revalidate(c)
  PROVE  CallStep(c)
<1>1. /\ ~IsCreator(c) /\ reviewCall[c].op = "register" /\ reviewCall[c].pc = "revalidating"
      /\ reviewCall[c].review \in Reviews
      /\ reviews[reviewCall[c].review].device = reviewCall[c].device /\ ReviewCallsTyped
  BY DEF Revalidate, At, IsCreator, ReviewCallsOK, ReviewCallOK, HoldsRequest, HoldsDecision
<1>2. ReviewStep /\ Unmarked /\ Reviews' = Reviews /\ reviews' = reviews /\ cleanup' = cleanup
  BY RowsUntouched DEF Revalidate, reviewRows
<1>3. PICK pc \in {"consuming", "failed"} : StepTo(c, pc)
  BY DEF Revalidate
<1>4. PICK r, todo : r = reviewCall[c].review /\ todo = reviewCall[c].todo
  OBVIOUS
<1>5. pc \in ReviewSteps /\ pc \in StepOf(reviewCall[c].op)
  BY <1>1, <1>3 DEF ReviewSteps, StepOf
<1>6. Goes(c, pc, r, todo)
  BY <1>1, <1>3, <1>4, <1>5, ReviewCallSteps
<1> QED BY <1>1, <1>2, <1>3, <1>4, <1>5, <1>6, PlainStep

LEMMA ConsumeApprovalKeeps ==
  ASSUME RowsOK, ReviewCallsOK, NEW c \in ReviewCalls, ConsumeApproval(c)
  PROVE  CallStep(c)
<1>1. /\ ~IsCreator(c) /\ reviewCall[c].op = "register" /\ reviewCall[c].pc = "consuming"
      /\ reviewCall[c].review \in Reviews
      /\ reviews[reviewCall[c].review].device = reviewCall[c].device /\ ReviewCallsTyped
  BY DEF ConsumeApproval, At, IsCreator, ReviewCallsOK, ReviewCallOK, HoldsRequest, HoldsDecision
<1>2. PICK r, todo : r \in Reviews /\ r = reviewCall[c].review /\ todo = reviewCall[c].todo
  BY <1>1
<1>3. /\ ReviewStep /\ Unmarked /\ Reviews' = Reviews
      /\ \/ /\ reviews[r].status = "approved" /\ reviews'[r].status = "consumed"
            /\ Goes(c, "associating", r, todo)
         \/ Goes(c, "failed", r, todo)
  <2>1. TransitionOr(c, reviewCall[c].review, "approved", "consumed", "associating", "failed")
        /\ UNCHANGED <<media, agedCount, enrolled>>
    BY DEF ConsumeApproval
  <2>2. Allowed("approved", "consumed") /\ "associating" \in ReviewSteps /\ "failed" \in ReviewSteps
    BY DEF Allowed, ReviewSteps
  <2> QED BY <1>1, <1>2, <2>1, <2>2, CallTransitions DEF ReviewCallsOK
<1>4. cleanup' = cleanup
  BY DEF ConsumeApproval
<1>5. CASE Goes(c, "failed", r, todo)
  <2>1. "failed" \in StepOf(reviewCall[c].op)
    BY DEF StepOf
  <2> QED BY <1>1, <1>3, <1>4, <1>5, <2>1, PlainStep
<1>6. CASE /\ reviews[r].status = "approved" /\ reviews'[r].status = "consumed"
           /\ Goes(c, "associating", r, todo)
  <2>1. ~IsCreator(c)' /\ IsConsumer(c)'
    BY <1>1, <1>6 DEF Goes, IsCreator, IsConsumer
  <2>2. HoldsRequest(c)' /\ HoldsImages(c)' /\ OwnMoves(c)
    BY <1>1, <1>2, <1>3, <1>6, <2>1 DEF Goes, HoldsRequest, HoldsImages, OwnMoves, StepOf
  <2>3. reviews'[r].device = reviews[r].device
    BY <1>2, <1>3 DEF ReviewStep, Lasting
  <2>4. HoldsDecision(c)'
    BY <1>1, <1>2, <1>6, <2>1, <2>3 DEF Goes, HoldsDecision
  <2> QED BY <1>3, <1>4, <1>6, <2>2, <2>4 DEF CallStep, ReviewCallOK, Goes
<1> QED BY <1>3, <1>5, <1>6

\* A call that has consumed an approval goes on with it.
LEMMA ConsumerStep ==
  ASSUME ReviewCallsOK, NEW c \in ReviewCalls, IsConsumer(c), ReviewStep, Unmarked,
         Reviews' = Reviews, cleanup' = cleanup, NEW todo \in SUBSET MediaKinds,
         NEW pc \in {"deleting", "ok"}, pc = "deleting" => todo # {},
         Works(c, pc, todo)
  PROVE  CallStep(c)
<1>1. PICK r : r = reviewCall[c].review
  OBVIOUS
<1>2. Goes(c, pc, r, todo)
  BY <1>1, ReviewCallWorks DEF ReviewSteps, ReviewCallsOK
<1>3. /\ r \in Reviews /\ reviews[r].status = "consumed"
      /\ reviews[r].device = reviewCall[c].device /\ reviewCall[c].op = "register"
  BY <1>1 DEF IsConsumer, ReviewCallsOK, ReviewCallOK, HoldsRequest, HoldsDecision
<1>4. reviews'[r].status = "consumed" /\ reviews'[r].device = reviewCall[c].device
  BY <1>3 DEF ReviewStep, Lasting, Active, ActiveStatuses
<1>5. ~IsCreator(c)' /\ IsConsumer(c)' /\ ~IsCreator(c)
  BY <1>2, <1>3 DEF Goes, IsCreator, IsConsumer
<1>6. HoldsRequest(c)' /\ HoldsImages(c)' /\ OwnMoves(c)
  BY <1>1, <1>2, <1>3, <1>5 DEF Goes, HoldsRequest, HoldsImages, OwnMoves, StepOf
<1>7. HoldsDecision(c)'
  BY <1>2, <1>3, <1>4, <1>5 DEF Goes, HoldsDecision
<1> QED BY <1>2, <1>6, <1>7 DEF CallStep, ReviewCallOK, Goes

LEMMA AssociateUserKeeps ==
  ASSUME RowsOK, ReviewCallsOK, NEW c \in ReviewCalls, AssociateUser(c)
  PROVE  CallStep(c)
<1>1. /\ ~IsCreator(c) /\ IsConsumer(c) /\ reviewCall[c].op = "register"
      /\ reviewCall[c].review \in Reviews
      /\ reviews[reviewCall[c].review].status = "consumed"
  BY DEF AssociateUser, At, IsCreator, IsConsumer, ReviewCallsOK, ReviewCallOK, HoldsRequest,
     HoldsDecision
<1>2. PICK r \in Reviews : r = reviewCall[c].review
  BY <1>1
<1> DEFINE row == [reviews[r] EXCEPT !.spender = @ + 1]
<1>3. /\ reviews' = [reviews EXCEPT ![r] = row] /\ settledOrder' = Touched(r)
      /\ UNCHANGED <<media, agedCount, enrolled, cleanup>>
  BY <1>1, <1>2 DEF AssociateUser
<1>4. /\ row \in ReviewTypes /\ row.status = reviews[r].status /\ row.device = reviews[r].device
      /\ row.action = "rejected" => row.status = "rejected"
  <2>1. reviews[r] \in ReviewTypes
        /\ (reviews[r].action = "rejected" => reviews[r].status = "rejected")
    BY RequestNumbers DEF RowsOK, Judged
  <2>2. PICK e : e = reviews[r]
    OBVIOUS
  <2>3. e.spender + 1 \in Nat
    BY <2>1, <2>2 DEF ReviewTypes
  <2> QED BY <2>1, <2>2, <2>3 DEF ReviewTypes
<1> HIDE DEF row
<1>5. ~Active(r)
  BY <1>1, <1>2 DEF Active, ActiveStatuses
<1>6. RowsOK' /\ Lasting /\ Unmarked /\ StatusesStay
  BY <1>3, <1>4, <1>5, RequestChanges
<1>7. ReviewStep /\ Reviews' = Reviews /\ cleanup' = cleanup
  BY <1>3, <1>6 DEF ReviewStep, StatusesChange, StatusesStay
<1>8. Works(c, "deleting", MediaKinds) \/ End(c, "failed")
  BY DEF AssociateUser, Works
<1>9. CASE End(c, "failed")
  BY <1>1, <1>6, <1>7, <1>9, PlainEnd
<1>10. CASE Works(c, "deleting", MediaKinds)
  BY <1>1, <1>6, <1>7, <1>10, ConsumerStep, MediaKindsAssumption
<1> QED BY <1>8, <1>9, <1>10

LEMMA DeleteConsumedMediaKeeps ==
  ASSUME RowsOK, ReviewCallsOK, NEW c \in ReviewCalls, DeleteConsumedMedia(c)
  PROVE  CallStep(c)
<1>1. /\ IsConsumer(c) /\ reviewCall[c].op = "register"
      /\ reviewCall[c].review \in Reviews /\ reviewCall[c].pc = "deleting"
      /\ reviews[reviewCall[c].review].status = "consumed"
      /\ reviewCall[c].todo # {} /\ reviewCall[c].todo \subseteq MediaKinds
      /\ ReviewCallsTyped
  BY DEF DeleteConsumedMedia, At, IsConsumer, ReviewCallsOK, ReviewCallOK, HoldsRequest,
     HoldsDecision, HoldsImages, ReviewCallsTyped, ReviewCallTypes
<1>2. PICK r, k, left : /\ r = reviewCall[c].review
                        /\ k = CHOOSE i \in reviewCall[c].todo : TRUE
                        /\ left = reviewCall[c].todo \ {k}
  OBVIOUS
<1>3. /\ k \in MediaKinds /\ r \in Reviews /\ media[r] \in MediaTypes
      /\ left \in SUBSET MediaKinds /\ ~Active(r) /\ HasRow(r, k)
  BY <1>1, <1>2, RequestNumbers DEF RowsOK, Judged, Active, ActiveStatuses
<1> DEFINE images == [media[r] EXCEPT ![k] = Erased(media[r][k])]
           pc == IF left = {} THEN "ok" ELSE "deleting"
<1>4. /\ media' = media \/ media' = [media EXCEPT ![r] = images]
      /\ UNCHANGED <<reviews, settledOrder, agedCount, enrolled, cleanup>>
  BY <1>2 DEF DeleteConsumedMedia
<1>5. Works(c, pc, left)
  <2>1. reviewCall' = [reviewCall EXCEPT ![c].todo = left,
                               ![c].pc = IF left = {} THEN "ok" ELSE @]
    BY <1>2 DEF DeleteConsumedMedia
  <2> QED BY <1>1, <2>1 DEF Works, ReviewCallsTyped, ReviewCallTypes
<1>6. images \in MediaTypes /\ KeepsImages(r, images) /\ MakesNoRow(r, images)
  <2>1. Erased(media[r][k]) \in ImageTypes /\ Erased(media[r][k]).status = "deleted"
    BY <1>3 DEF Erased, MediaTypes, ImageTypes
  <2> QED BY <1>3, <2>1 DEF MediaTypes, KeepsImages, MakesNoRow, HasRow
<1> HIDE DEF images
<1>7. RowsOK' /\ Lasting /\ StatusesStay /\ Unmarked
  <2>1. CASE media' = media
    BY <1>4, <2>1, RowsStay DEF reviewRows
  <2>2. CASE media' = [media EXCEPT ![r] = images]
    BY <1>3, <1>4, <1>6, <2>2, ImagesChange
  <2> QED BY <1>4, <2>1, <2>2
<1>8. ReviewStep /\ Reviews' = Reviews /\ cleanup' = cleanup
  BY <1>4, <1>7 DEF ReviewStep, StatusesChange, StatusesStay
<1>9. pc \in {"deleting", "ok"} /\ (pc = "deleting" => left # {})
  OBVIOUS
<1> HIDE DEF pc
<1> QED BY <1>1, <1>3, <1>5, <1>7, <1>8, <1>9, ConsumerStep

LEMMA InsertRequestKeeps ==
  ASSUME RowsOK, ReviewCallsOK, NEW c \in ReviewCalls, InsertRequest(c)
  PROVE  CallStep(c)
<1>1. /\ ~IsCreator(c) /\ ~IsConsumer(c) /\ reviewCall[c].op = "create" /\ ReviewCallsTyped
      /\ reviewCall[c].device \in ReviewDevices /\ cleanup' = cleanup
  BY DEF InsertRequest, At, IsCreator, IsConsumer, ReviewCallsOK, ReviewCallsTyped, ReviewCallTypes
<1>2. PICK d, new : d \in ReviewDevices /\ d = reviewCall[c].device /\ new = Len(reviews) + 1
  BY <1>1
<1> DEFINE row == [device |-> d, status |-> "uploading", overdue |-> FALSE,
                   upsert |-> FALSE, action |-> "none", spender |-> 0]
<1>3. CASE ~MayInsert(d)
  <2>1. End(c, "failed") /\ UNCHANGED reviewRows
    BY <1>2, <1>3 DEF InsertRequest, reviewRows
  <2> QED BY <1>1, <2>1, RowsUntouched, PlainEnd
<1>4. CASE MayInsert(d)
  <2>1. /\ reviews' = Append(reviews, row) /\ media' = Append(media, NoMedia)
        /\ Makes(c, "media", new, MediaKinds)
        /\ UNCHANGED <<settledOrder, agedCount, enrolled>>
    BY <1>2, <1>4 DEF InsertRequest, Makes
  <2>2. /\ row \in ReviewTypes /\ row.status = "uploading" /\ row.action = "none"
        /\ row.device = d
    BY <1>2 DEF ReviewTypes, ReviewStatuses, ActiveStatuses
  <2> HIDE DEF row
  <2>3. /\ RowsOK' /\ Lasting /\ Unmarked
        /\ new \in Nat /\ new \notin Reviews /\ Reviews' = Reviews \cup {new}
        /\ reviews'[new] = row /\ \A s \in Reviews : reviews'[s] = reviews[s]
        /\ \A k \in MediaKinds : ~HasRow(new, k)'
    BY <1>2, <2>1, <2>2, RequestInserted
  <2>4. RequestAdded
    BY <1>2, <1>4, <2>2, <2>3 DEF RequestAdded, MayInsert
  <2>5. Goes(c, "media", new, MediaKinds)
    BY <1>1, <2>1, <2>3, ReviewCallMakes DEF ReviewSteps
  <2>6. IsCreator(c)' /\ ~IsConsumer(c)'
    BY <1>1, <2>5 DEF Goes, IsCreator, IsConsumer
  <2>7. HoldsRequest(c)' /\ HoldsDecision(c)' /\ OwnMoves(c)
    BY <1>1, <2>3, <2>5, <2>6 DEF Goes, HoldsRequest, HoldsDecision, OwnMoves, StepOf
  <2>8. HoldsImages(c)'
    BY <2>3, <2>5, MediaKindsAssumption DEF Goes, HoldsImages, HasRow
  <2> QED BY <1>1, <2>3, <2>4, <2>5, <2>7, <2>8
        DEF CallStep, ReviewStep, StatusesChange, ReviewCallOK, Goes
<1> QED BY <1>3, <1>4

LEMMA InsertMediaKeeps ==
  ASSUME RowsOK, ReviewCallsOK, NEW c \in ReviewCalls, InsertMedia(c)
  PROVE  CallStep(c)
<1>1. /\ IsCreator(c) /\ ~IsConsumer(c) /\ reviewCall[c].op = "create"
      /\ reviewCall[c].pc = "media"
      /\ reviewCall[c].review \in Reviews
      /\ reviewCall[c].todo # {} /\ reviewCall[c].todo \subseteq MediaKinds
      /\ \A k \in reviewCall[c].todo : media[reviewCall[c].review][k].status = "none"
      /\ ReviewCallsTyped
  BY DEF InsertMedia, At, IsCreator, IsConsumer, ReviewCallsOK, ReviewCallOK, HoldsRequest,
     HoldsImages, HasRow, ReviewCallsTyped, ReviewCallTypes
<1>2. PICK r, k, left : /\ r = reviewCall[c].review
                        /\ k = CHOOSE i \in reviewCall[c].todo : TRUE
                        /\ left = reviewCall[c].todo \ {k}
  OBVIOUS
<1>3. /\ k \in MediaKinds /\ k \in reviewCall[c].todo /\ k \notin left /\ r \in Reviews
      /\ media[r] \in MediaTypes /\ left \in SUBSET MediaKinds
      /\ \A i \in reviewCall[c].todo : media[r][i].status = "none"
  BY <1>1, <1>2, RequestNumbers DEF RowsOK
<1> DEFINE images == [media[r] EXCEPT ![k].status = "signed"]
           pc == IF left = {} THEN "ok" ELSE "media"
<1>4. /\ media' = [media EXCEPT ![r] = images]
      /\ UNCHANGED <<reviews, settledOrder, agedCount, enrolled, cleanup>>
  BY <1>2 DEF InsertMedia
<1>5. Works(c, pc, left)
  <2>1. reviewCall' = [reviewCall EXCEPT ![c].todo = left,
                               ![c].pc = IF left = {} THEN "ok" ELSE @]
    BY <1>2 DEF InsertMedia
  <2> QED BY <1>1, <2>1 DEF Works, ReviewCallsTyped, ReviewCallTypes
<1>6. /\ images \in MediaTypes /\ images[k].status = "signed"
      /\ \A i \in MediaKinds : i # k => images[i] = media[r][i]
  BY <1>3 DEF MediaTypes, ImageTypes
<1> HIDE DEF images
<1>7. KeepsImages(r, images)
  BY <1>3, <1>6 DEF KeepsImages, HasRow, HasImage
<1>8. /\ RowsOK' /\ Lasting /\ StatusesStay /\ media'[r] = images
      /\ \A s \in Reviews : s # r => media'[s] = media[s]
  BY <1>3, <1>4, <1>6, <1>7, ImagesChange
<1>9. ReviewStep /\ Reviews' = Reviews /\ cleanup' = cleanup
  BY <1>4, <1>8 DEF ReviewStep, StatusesChange, StatusesStay
<1>10. pc \in {"media", "ok"} /\ (pc = "media" => left # {}) /\ pc \in ReviewSteps
       /\ pc \in StepOf("create")
  BY DEF ReviewSteps, StepOf
<1> HIDE DEF pc
<1>11. Goes(c, pc, r, left)
  BY <1>1, <1>2, <1>3, <1>5, <1>10, ReviewCallWorks
<1>12. IsCreator(c)' /\ ~IsConsumer(c)'
  BY <1>1, <1>10, <1>11 DEF Goes, IsCreator, IsConsumer
<1>13. HoldsRequest(c)' /\ HoldsDecision(c)' /\ OwnMoves(c)
  BY <1>1, <1>2, <1>3, <1>9, <1>10, <1>11, <1>12
     DEF Goes, HoldsRequest, HoldsDecision, OwnMoves
<1>14. HoldsImages(c)'
  <2>1. \A i \in left : media'[r][i].status = "none"
    BY <1>2, <1>3, <1>6, <1>8
  <2> QED BY <1>10, <1>11, <2>1 DEF Goes, HoldsImages, HasRow
<1>15. IsCreator(c) /\ \A s \in Reviews : s # reviewCall[c].review => media'[s] = media[s]
  BY <1>1, <1>2, <1>8
<1> QED BY <1>9, <1>11, <1>13, <1>14, <1>15 DEF CallStep, ReviewCallOK, Goes

-----------------------------------------------------------------------------
(* HumanReview: the retention worker and the passing of time. *)

Overdue == [review : Reviews, read : ActiveStatuses]
SettledReviews == {r \in Reviews : ~Active(r)}

\* What the worker holds: requests that were overdue, settled requests.
CleanupOK ==
    /\ cleanup = [pc |-> cleanup.pc, todo |-> cleanup.todo, kinds |-> cleanup.kinds]
    /\ cleanup.pc \in {"idle", "expiring", "deleting"}
    /\ cleanup.pc = "expiring" => cleanup.todo \in Seq(Overdue)
    /\ cleanup.pc = "deleting" => /\ cleanup.todo \in Seq(SettledReviews)
                                  /\ cleanup.kinds \subseteq MediaKinds /\ cleanup.kinds # {}

\* Of a step that is not of a call.
OtherStep ==
    /\ ReviewStep /\ Unmarked /\ Reviews' = Reviews
    /\ reviewCall' = reviewCall /\ CleanupOK'

\* Requests are there to stay, and settled ones stay settled.
LEMMA CleanupStays ==
  ASSUME CleanupOK, Lasting, cleanup' = cleanup
  PROVE  CleanupOK'
<1>1. Overdue \subseteq Overdue' /\ SettledReviews \subseteq SettledReviews'
  BY DEF Lasting, Overdue, SettledReviews, Active
<1>2. PICK todo, old, new, aged, more : /\ todo = cleanup.todo /\ old = Overdue /\ new = Overdue'
                                        /\ aged = SettledReviews /\ more = SettledReviews'
  OBVIOUS
<1>3. todo \in Seq(old) => todo \in Seq(new)
  BY <1>1, <1>2, SeqMonotonic
<1>4. todo \in Seq(aged) => todo \in Seq(more)
  BY <1>1, <1>2, SeqMonotonic
<1> QED BY <1>2, <1>3, <1>4 DEF CleanupOK

\* The overdue requests are finitely many, so that some of them can be listed.
LEMMA OverdueAreListed ==
  ASSUME RowsOK, NEW S \in SUBSET OverdueRows
  PROVE  SetToSeq(S) \in Seq(Overdue)
<1> DEFINE Late == {s \in Reviews : Active(s) /\ reviews[s].overdue}
           Pair(r) == [review |-> r, read |-> reviews[r].status]
           List == {Pair(r) : r \in Late}
           f == [r \in Late |-> Pair(r)]
<1>1. IsFiniteSet(Late)
  <2>1. PICK n \in Nat : Reviews = 1..n
    BY RequestNumbers DEF RowsOK
  <2>2. IsFiniteSet(1..n)
    BY FS_Interval
  <2>3. Late \in SUBSET (1..n)
    BY <2>1
  <2> HIDE DEF Late
  <2> QED BY <2>2, <2>3, FS_Subset
<1>2. f \in Surjection(Late, List)
  BY DEF Surjection
<1>3. List \subseteq Overdue
  BY DEF Overdue, Active
<1>4. IsFiniteSet(List)
  <2> HIDE DEF f, List, Late
  <2> QED BY <1>1, <1>2, FS_Surjection
<1> HIDE DEF f, Late
<1>5. S \subseteq List
  BY DEF OverdueRows, Late
<1> HIDE DEF List
<1>6. Cardinality(S) \in Nat /\ ExistsBijection(1..Cardinality(S), S)
  BY <1>4, <1>5, FS_Subset, FS_CardinalityType
<1>7. PICK n \in Nat : n = Cardinality(S)
  BY <1>6
<1>8. \E g \in [1..n -> S] : IsInjective(g)
  BY <1>6, <1>7 DEF ExistsBijection, Bijection, Injection
<1>9. SetToSeq(S) \in [1..n -> S]
  BY <1>7, <1>8 DEF SetToSeq
<1>10. [1..n -> S] \subseteq Seq(S)
  BY SeqDef
<1>11. PICK s, T : s = SetToSeq(S) /\ T = Overdue
  OBVIOUS
<1>12. s \in Seq(S) /\ S \subseteq T
  BY <1>3, <1>5, <1>9, <1>10, <1>11
<1> QED BY <1>11, <1>12, SeqMonotonic

LEMMA ListOverdueKeeps ==
  ASSUME RowsOK, CleanupOK, ListOverdue
  PROVE  OtherStep
<1>1. PICK rows \in SUBSET OverdueRows :
             cleanup' = [cleanup EXCEPT !.pc = "expiring", !.todo = SetToSeq(rows)]
  BY DEF ListOverdue
<1> PICK todo : todo = SetToSeq(rows)
  OBVIOUS
<1>2. /\ cleanup' = [cleanup EXCEPT !.pc = "expiring", !.todo = todo]
      /\ UNCHANGED <<reviewRows, reviewCall>>
  BY <1>1 DEF ListOverdue
<1>3. todo \in Seq(Overdue)
  BY <1>1, OverdueAreListed
<1>4. ReviewStep /\ Unmarked /\ Reviews' = Reviews /\ Overdue' = Overdue
  BY <1>2, RowsUntouched DEF Overdue
<1>5. cleanup' = [pc |-> "expiring", todo |-> todo, kinds |-> cleanup.kinds]
  BY <1>2 DEF CleanupOK
<1> QED BY <1>2, <1>3, <1>4, <1>5 DEF OtherStep, CleanupOK

LEMMA ExpireOverdueKeeps ==
  ASSUME RowsOK, CleanupOK, ExpireOverdue
  PROVE  OtherStep
<1>1. /\ cleanup.pc = "expiring" /\ cleanup.todo \in Seq(Overdue) /\ cleanup.todo # <<>>
      /\ cleanup' = [cleanup EXCEPT !.todo = Tail(cleanup.todo)]
      /\ UNCHANGED <<media, agedCount, enrolled, reviewCall>>
  BY DEF ExpireOverdue, CleanupOK
<1>2. PICK todo, T : todo = cleanup.todo /\ T = Overdue
  OBVIOUS
<1>3. todo \in Seq(T) /\ todo # <<>>
  BY <1>1, <1>2
<1>4. Head(todo) \in T /\ Tail(todo) \in Seq(T)
  BY <1>3, HeadTailProperties
<1>5. PICK row, left : row = Head(todo) /\ left = Tail(todo)
  OBVIOUS
<1>6. row \in Overdue /\ left \in Seq(Overdue)
  BY <1>2, <1>4, <1>5
<1>7. PICK r \in Reviews : r = row.review
  BY <1>6 DEF Overdue
<1>8. RowsOK' /\ Lasting /\ Unmarked /\ (StatusesStay \/ StatusMoves(r))
  <2>1. CASE reviews[r].status = row.read
    <3>1. Transition(r, "expired")
      BY <1>2, <1>5, <1>7, <2>1 DEF ExpireOverdue, StatusMatches
    <3>2. Allowed(reviews[r].status, "expired")
      BY <1>6, <2>1 DEF Overdue, Allowed
    <3> QED BY <1>1, <3>1, <3>2, RequestMoves
  <2>2. CASE reviews[r].status # row.read
    <3>1. UNCHANGED reviewRows
      BY <1>2, <1>5, <1>7, <2>2 DEF ExpireOverdue, StatusMatches, reviewRows
    <3> QED BY <3>1, RowsStay
  <2> QED BY <2>1, <2>2
<1>9. ReviewStep /\ Reviews' = Reviews /\ Overdue' = Overdue
  BY <1>8 DEF ReviewStep, StatusesChange, StatusesStay, StatusMoves, Overdue
<1>10. cleanup' = [pc |-> "expiring", todo |-> left, kinds |-> cleanup.kinds]
  BY <1>1, <1>2, <1>5 DEF CleanupOK
<1>11. CleanupOK'
  BY <1>6, <1>9, <1>10 DEF CleanupOK
<1> QED BY <1>1, <1>8, <1>9, <1>11 DEF OtherStep

LEMMA ListCandidatesKeeps ==
  ASSUME RowsOK, CleanupOK, ListCandidates
  PROVE  OtherStep
<1>1. PICK s, n, m, T : /\ s = settledOrder /\ T = SettledReviews /\ n = agedCount
                        /\ m = IF agedCount < CleanupLimit THEN agedCount ELSE CleanupLimit
  OBVIOUS
<1>2. m \in Nat /\ m <= n /\ n \in Nat /\ n <= Len(settledOrder)
  BY <1>1, CleanupLimitAssumption DEF RowsOK, ReviewRowsTyped
<1>3. DOMAIN settledOrder = 1..Len(settledOrder) /\ Len(settledOrder) \in Nat
  BY LenProperties DEF RowsOK, ReviewRowsTyped
<1>4. \A i \in 1..m : s[i] \in T
  <2>1. \A i \in 1..m : i \in DOMAIN settledOrder
    BY <1>2, <1>3
  <2> QED BY <1>1, <2>1 DEF RowsOK, ReviewsSettled, SettledReviews
<1>5. SubSeq(s, 1, m) \in Seq(T)
  BY <1>2, <1>4, SubSeqProperties
<1>6. OldestAged \in Seq(SettledReviews)
  BY <1>1, <1>5 DEF OldestAged
<1>7. /\ cleanup' = [pc |-> "deleting", todo |-> OldestAged, kinds |-> MediaKinds]
      /\ UNCHANGED <<reviewRows, reviewCall>>
  BY DEF ListCandidates
<1>8. ReviewStep /\ Unmarked /\ Reviews' = Reviews /\ SettledReviews' = SettledReviews
  BY <1>7, RowsUntouched DEF SettledReviews, Active, Reviews, reviewRows
<1> QED BY <1>6, <1>7, <1>8, MediaKindsAssumption DEF OtherStep, CleanupOK

\* The image the worker is at, of a settled request
LEMMA ImageInHand ==
  ASSUME RowsOK, CleanupOK, AtImage
  PROVE  /\ Head(cleanup.todo) \in Reviews /\ ~Active(Head(cleanup.todo))
         /\ NextImage \in MediaKinds /\ media[Head(cleanup.todo)] \in MediaTypes
<1>1. /\ cleanup.todo \in Seq(SettledReviews) /\ cleanup.todo # <<>>
      /\ cleanup.kinds \subseteq MediaKinds /\ cleanup.kinds # {}
  BY DEF AtImage, CleanupOK
<1>2. PICK todo, T : todo = cleanup.todo /\ T = SettledReviews
  OBVIOUS
<1>3. Head(todo) \in T
  BY <1>1, <1>2, HeadTailProperties
<1> QED BY <1>1, <1>2, <1>3, RequestNumbers DEF NextImage, RowsOK, SettledReviews

LEMMA NextImageIsListed ==
  ASSUME CleanupOK, AtImage, GoToNextImage, SettledReviews' = SettledReviews
  PROVE  CleanupOK'
<1>1. /\ cleanup.pc = "deleting" /\ cleanup.todo \in Seq(SettledReviews) /\ cleanup.todo # <<>>
      /\ cleanup.kinds \subseteq MediaKinds /\ cleanup.kinds # {}
  BY DEF AtImage, CleanupOK
<1>2. PICK todo, T : todo = cleanup.todo /\ T = SettledReviews
  OBVIOUS
<1>3. Tail(todo) \in Seq(T)
  BY <1>1, <1>2, HeadTailProperties
<1>4. PICK rest, left : rest = Tail(todo) /\ left = cleanup.kinds \ {NextImage}
  OBVIOUS
<1>5. \/ cleanup' = [pc |-> "deleting", todo |-> rest, kinds |-> MediaKinds]
      \/ left # {} /\ cleanup' = [pc |-> "deleting", todo |-> todo, kinds |-> left]
  BY <1>1, <1>2, <1>4 DEF GoToNextImage, CleanupOK
<1>6. rest \in Seq(SettledReviews) /\ left \subseteq MediaKinds
  BY <1>1, <1>2, <1>3, <1>4
<1> QED BY <1>1, <1>2, <1>5, <1>6, MediaKindsAssumption DEF CleanupOK

\* What happens to that image takes nothing from a request that is active.
LEMMA ImageInHandChanges ==
  ASSUME RowsOK, CleanupOK, AtImage, NEW image \in ImageTypes,
         media[Head(cleanup.todo)][NextImage].status = "none" <=> image.status = "none",
         media' = [media EXCEPT ![Head(cleanup.todo)][NextImage] = image],
         UNCHANGED <<reviews, settledOrder, agedCount, enrolled>>
  PROVE  /\ ReviewStep /\ Unmarked /\ Reviews' = Reviews
         /\ SettledReviews' = SettledReviews
<1>1. PICK r, k : r = Head(cleanup.todo) /\ k = NextImage
  OBVIOUS
<1>2. r \in Reviews /\ ~Active(r) /\ k \in MediaKinds /\ media[r] \in MediaTypes
  BY <1>1, ImageInHand
<1> DEFINE images == [media[r] EXCEPT ![k] = image]
<1>3. media' = [media EXCEPT ![r] = images]
  BY <1>1
<1>4. images \in MediaTypes /\ KeepsImages(r, images) /\ MakesNoRow(r, images)
  BY <1>1, <1>2 DEF MediaTypes, KeepsImages, MakesNoRow, HasRow
<1> HIDE DEF images
<1>5. RowsOK' /\ Lasting /\ StatusesStay /\ Unmarked
  BY <1>2, <1>3, <1>4, ImagesChange
<1> QED BY <1>5 DEF ReviewStep, StatusesChange, StatusesStay, SettledReviews, Active

LEMMA EraseMediaKeeps ==
  ASSUME RowsOK, CleanupOK, EraseMedia
  PROVE  OtherStep
<1>1. /\ AtImage /\ GoToNextImage
      /\ UNCHANGED <<reviews, settledOrder, agedCount, enrolled, reviewCall>>
  BY DEF EraseMedia
<1>2. PICK image : image = Erased(media[Head(cleanup.todo)][NextImage])
  OBVIOUS
<1>3. media' = [media EXCEPT ![Head(cleanup.todo)][NextImage] = image]
  BY <1>2 DEF EraseMedia
<1>4. PICK old : old = media[Head(cleanup.todo)][NextImage]
  OBVIOUS
<1>5. old \in ImageTypes /\ old.status # "none"
  BY <1>1, <1>4, ImageInHand DEF EraseMedia, MediaTypes
<1>6. image \in ImageTypes /\ image.status # "none"
  BY <1>2, <1>4, <1>5 DEF Erased, ImageTypes
<1>7. /\ ReviewStep /\ Unmarked /\ Reviews' = Reviews
      /\ SettledReviews' = SettledReviews
  BY <1>1, <1>3, <1>4, <1>5, <1>6, ImageInHandChanges
<1> QED BY <1>1, <1>7, NextImageIsListed DEF OtherStep

LEMMA PassOverMediaKeeps ==
  ASSUME RowsOK, CleanupOK, PassOverMedia
  PROVE  OtherStep
<1>1. AtImage /\ GoToNextImage /\ UNCHANGED <<reviewRows, reviewCall>>
  BY DEF PassOverMedia
<1>2. ReviewStep /\ Unmarked /\ Reviews' = Reviews /\ SettledReviews' = SettledReviews
  BY <1>1, RowsUntouched DEF SettledReviews, Active, Reviews, reviewRows
<1> QED BY <1>1, <1>2, NextImageIsListed DEF OtherStep

LEMMA AbortCleanupKeeps ==
  ASSUME RowsOK, CleanupOK, AbortCleanup
  PROVE  OtherStep
<1>1. /\ cleanup' = IdleCleanup
      /\ UNCHANGED <<reviews, settledOrder, agedCount, enrolled, reviewCall>>
  BY DEF AbortCleanup
<1>2. CleanupOK'
  BY <1>1 DEF IdleCleanup, CleanupOK
<1>3. CASE UNCHANGED media
  <2>1. UNCHANGED reviewRows
    BY <1>1, <1>3 DEF reviewRows
  <2> QED BY <1>1, <1>2, <2>1, RowsUntouched DEF OtherStep
<1>4. CASE /\ AtImage
           /\ media' = [media EXCEPT ![Head(cleanup.todo)][NextImage].stored = "none"]
  <2>1. PICK old : old = media[Head(cleanup.todo)][NextImage]
    OBVIOUS
  <2>2. PICK image : image = [old EXCEPT !.stored = "none"]
    OBVIOUS
  <2>3. old \in ImageTypes
    BY <1>4, <2>1, ImageInHand DEF MediaTypes
  <2>4. image \in ImageTypes /\ image.status = old.status
    BY <2>2, <2>3 DEF ImageTypes
  <2>5. media' = [media EXCEPT ![Head(cleanup.todo)][NextImage] = image]
    BY <1>4, <2>1, <2>2
  <2>6. ReviewStep /\ Unmarked /\ Reviews' = Reviews
    BY <1>1, <1>4, <2>1, <2>4, <2>5, ImageInHandChanges
  <2> QED BY <1>1, <1>2, <2>6 DEF OtherStep
<1> QED BY <1>3, <1>4 DEF AbortCleanup

LEMMA EndCleanupKeeps ==
  ASSUME RowsOK, CleanupOK, EndCleanup
  PROVE  OtherStep
  BY RowsUntouched DEF EndCleanup, IdleCleanup, CleanupOK, OtherStep

LEMMA PassDeadlineKeeps ==
  ASSUME RowsOK, CleanupOK, NEW r \in Reviews, PassDeadline(r)
  PROVE  OtherStep
<1> DEFINE row == [reviews[r] EXCEPT !.overdue = TRUE]
<1>1. /\ reviews' = [reviews EXCEPT ![r] = row]
      /\ UNCHANGED <<media, settledOrder, agedCount, enrolled, reviewCall, cleanup>>
  BY DEF PassDeadline
<1>2. /\ row \in ReviewTypes /\ row.status = reviews[r].status /\ row.device = reviews[r].device
      /\ row.action = "rejected" => row.status = "rejected"
  BY RequestNumbers DEF RowsOK, Judged, ReviewTypes
<1> HIDE DEF row
<1>3. RowsOK' /\ Lasting /\ Unmarked /\ StatusesStay
  BY <1>1, <1>2, RequestChanges
<1>4. ReviewStep /\ Reviews' = Reviews
  BY <1>3 DEF ReviewStep, StatusesChange, StatusesStay
<1> QED BY <1>1, <1>3, <1>4, CleanupStays DEF OtherStep

LEMMA UploadKeeps ==
  ASSUME RowsOK, CleanupOK, NEW r \in Reviews, NEW k \in MediaKinds, Upload(r, k)
  PROVE  OtherStep
<1>1. PICK bytes \in {"declared", "other"} : media' = [media EXCEPT ![r][k].stored = bytes]
  BY DEF Upload
<1> DEFINE images == [media[r] EXCEPT ![k].stored = bytes]
<1>2. /\ media' = [media EXCEPT ![r] = images] /\ media[r][k].status # "none"
      /\ UNCHANGED <<reviews, settledOrder, agedCount, enrolled, reviewCall, cleanup>>
  BY <1>1 DEF Upload
<1>3. media[r] \in MediaTypes
  BY RequestNumbers DEF RowsOK
<1>4. /\ images \in MediaTypes
      /\ \A i \in MediaKinds : images[i].status = media[r][i].status
      /\ \A i \in MediaKinds : images[i].stored = IF i = k THEN bytes ELSE media[r][i].stored
  BY <1>1, <1>3 DEF MediaTypes, ImageTypes
<1> HIDE DEF images
<1>5. KeepsImages(r, images) /\ MakesNoRow(r, images)
  BY <1>1, <1>4 DEF KeepsImages, MakesNoRow, HasRow, HasImage
<1>6. RowsOK' /\ Lasting /\ StatusesStay /\ Unmarked
  BY <1>2, <1>4, <1>5, ImagesChange
<1>7. ReviewStep /\ Reviews' = Reviews
  BY <1>6 DEF ReviewStep, StatusesChange, StatusesStay
<1> QED BY <1>2, <1>6, <1>7, CleanupStays DEF OtherStep

LEMMA PassRetentionKeeps ==
  ASSUME RowsOK, CleanupOK, PassRetention
  PROVE  OtherStep
<1>1. RowsOK' /\ Lasting /\ Unmarked /\ StatusesStay
  BY RetentionPasses DEF PassRetention
<1>2. ReviewStep /\ Reviews' = Reviews
  BY <1>1 DEF ReviewStep, StatusesChange, StatusesStay
<1>3. CleanupOK' /\ reviewCall' = reviewCall
  BY <1>1, CleanupStays DEF PassRetention
<1> QED BY <1>1, <1>2, <1>3 DEF OtherStep

-----------------------------------------------------------------------------
(* HumanReview: the invariant. *)

ReviewInv == RowsOK /\ ReviewCallsOK /\ CleanupOK

LEMMA ReviewInitInv == ReviewInit => ReviewInv
<1> SUFFICES ASSUME ReviewInit
             PROVE  ReviewInv
  OBVIOUS
<1>1. reviews = <<>> /\ media = <<>> /\ settledOrder = <<>> /\ Reviews = {}
      /\ agedCount = 0 /\ enrolled = {} /\ cleanup = IdleCleanup
  BY DEF ReviewInit, Reviews
<1>2. /\ <<>> \in Seq(ReviewTypes) /\ <<>> \in Seq(MediaTypes) /\ <<>> \in Seq(Nat)
      /\ Len(<<>>) = 0 /\ DOMAIN <<>> = {}
  BY EmptySeq
<1>3. RowsOK
  BY <1>1, <1>2 DEF RowsOK, ReviewRowsTyped, ReviewsSettled, Judged
<1>4. PICK mix \in [ReviewCalls -> ReviewOps \X ReviewDevices] :
        reviewCall = [c \in ReviewCalls |->
           [pc |-> "idle", op |-> mix[c][1], device |-> mix[c][2], review |-> 0,
            read |-> "none", todo |-> {}]]
  BY ReviewMixesAssumption DEF ReviewInit
<1>5. ReviewCallsTyped
  BY <1>4 DEF ReviewCallsTyped, ReviewCallTypes, ReviewSteps
<1>6. \A c \in ReviewCalls : reviewCall[c].pc = "idle"
  BY <1>4
<1>7. ReviewCallsOK
  BY <1>1, <1>5, <1>6 DEF ReviewCallsOK, OwnRequests, ReviewCallOK, HoldsRequest, HoldsImages,
     HoldsDecision, IsCreator, IsConsumer, StepOf
<1>8. CleanupOK
  BY <1>1 DEF CleanupOK, IdleCleanup
<1> QED BY <1>3, <1>7, <1>8 DEF ReviewInv

\* Each step of a call.
CallActs(c) ==
    \/ FindActive(c) \/ ExpireOld(c) \/ InsertRequest(c) \/ InsertMedia(c)
    \/ RequireReview(c) \/ ExpireLoaded(c)
    \/ StartVerifying(c) \/ VerifyMedia(c) \/ SubmitRequest(c)
    \/ RefreshUploadUrls(c) \/ CancelRequest(c) \/ RemoveCancelled(c)
    \/ ExpireQueued(c) \/ ExpirePending(c)
    \/ LoadForDecision(c) \/ Decide(c) \/ RecordAction(c)
    \/ ValidateApproval(c) \/ EnrolDevice(c) \/ Revalidate(c)
    \/ ConsumeApproval(c) \/ AssociateUser(c) \/ DeleteConsumedMedia(c)

LEMMA CallActsKeep ==
  ASSUME ReviewInv, NEW c \in ReviewCalls, CallActs(c)
  PROVE  CallStep(c)
<1>1. RowsOK /\ ReviewCallsOK
  BY DEF ReviewInv
<1>2. CASE FindActive(c) \/ ExpireOld(c) \/ InsertRequest(c) \/ InsertMedia(c)
  BY <1>1, <1>2, FindActiveKeeps, ExpireOldKeeps, InsertRequestKeeps, InsertMediaKeeps
<1>3. CASE RequireReview(c) \/ ExpireLoaded(c) \/ StartVerifying(c) \/ VerifyMedia(c)
           \/ SubmitRequest(c)
  BY <1>1, <1>3, RequireReviewKeeps, ExpireLoadedKeeps, StartVerifyingKeeps, VerifyMediaKeeps,
     SubmitRequestKeeps
<1>4. CASE RefreshUploadUrls(c) \/ CancelRequest(c) \/ RemoveCancelled(c)
  BY <1>1, <1>4, RefreshUploadUrlsKeeps, CancelRequestKeeps, RemoveCancelledKeeps
<1>5. CASE ExpireQueued(c) \/ ExpirePending(c) \/ LoadForDecision(c) \/ Decide(c)
           \/ RecordAction(c)
  BY <1>1, <1>5, ExpireQueuedKeeps, ExpirePendingKeeps, LoadForDecisionKeeps, DecideKeeps,
     RecordActionKeeps
<1>6. CASE ValidateApproval(c) \/ EnrolDevice(c) \/ Revalidate(c)
  BY <1>1, <1>6, ValidateApprovalKeeps, EnrolDeviceKeeps, RevalidateKeeps
<1>7. CASE ConsumeApproval(c) \/ AssociateUser(c) \/ DeleteConsumedMedia(c)
  BY <1>1, <1>7, ConsumeApprovalKeeps, AssociateUserKeeps, DeleteConsumedMediaKeeps
<1> QED BY <1>2, <1>3, <1>4, <1>5, <1>6, <1>7 DEF CallActs

LEMMA ReviewNextKeeps ==
  ASSUME ReviewInv, [ReviewNext]_reviewVars
  PROVE  ReviewInv' /\ StatusesChange
<1>1. RowsOK /\ ReviewCallsOK /\ CleanupOK
  BY DEF ReviewInv
<1>2. CASE UNCHANGED reviewVars
  <2>1. ReviewStep /\ Unmarked /\ Reviews' = Reviews /\ Lasting
    BY <1>1, <1>2, RowsUntouched DEF reviewVars, ReviewStep
  <2>2. ReviewCallsOK' /\ CleanupOK'
    BY <1>1, <1>2, <2>1, CallsAfterOther, CleanupStays DEF reviewVars
  <2> QED BY <2>1, <2>2 DEF ReviewInv, ReviewStep
<1>3. ASSUME NEW c \in ReviewCalls, CallActs(c)
      PROVE  ReviewInv' /\ StatusesChange
  <2>1. CallStep(c)
    BY <1>3, CallActsKeep
  <2>2. ReviewCallsOK'
    BY <1>1, <2>1, CallsAfterCall
  <2>3. RowsOK' /\ Lasting /\ StatusesChange /\ cleanup' = cleanup
    BY <2>1 DEF CallStep, ReviewStep
  <2>4. CleanupOK'
    BY <1>1, <2>3, CleanupStays
  <2> QED BY <2>2, <2>3, <2>4 DEF ReviewInv
<1>4. ASSUME OtherStep
      PROVE  ReviewInv' /\ StatusesChange
  <2>1. ReviewCallsOK'
    BY <1>1, <1>4, CallsAfterOther DEF OtherStep, ReviewStep
  <2> QED BY <1>4, <2>1 DEF ReviewInv, OtherStep, ReviewStep
<1>5. CASE CleanupStep
  <2>1. OtherStep
    BY <1>1, <1>5, ListOverdueKeeps, ExpireOverdueKeeps, ListCandidatesKeeps, EraseMediaKeeps,
       PassOverMediaKeeps, EndCleanupKeeps, AbortCleanupKeeps DEF CleanupStep
  <2> QED BY <1>4, <2>1
<1>6. ASSUME NEW r \in Reviews, PassDeadline(r) \/ \E k \in MediaKinds : Upload(r, k)
      PROVE  ReviewInv' /\ StatusesChange
  BY <1>1, <1>4, <1>6, PassDeadlineKeeps, UploadKeeps
<1>7. CASE PassRetention
  BY <1>1, <1>4, <1>7, PassRetentionKeeps
<1>8. ReviewNext => \/ \E c \in ReviewCalls : CallActs(c)
                    \/ CleanupStep
                    \/ \E r \in Reviews : PassDeadline(r) \/ \E k \in MediaKinds : Upload(r, k)
                    \/ PassRetention
  BY DEF ReviewNext, CallActs
<1> QED BY <1>2, <1>3, <1>5, <1>6, <1>7, <1>8

LEMMA ReviewAlways == ReviewSpec => []ReviewInv
<1>1. ReviewInv /\ [ReviewNext]_reviewVars => ReviewInv'
  BY ReviewNextKeeps
<1> QED BY <1>1, ReviewInitInv, PTL DEF ReviewSpec

\* Rows, images, the settled order and the worker's state have their types.
THEOREM ReviewStateIsTyped == ReviewSpec => []ReviewTypeOK
<1>1. ReviewInv => ReviewTypeOK
  <2> SUFFICES ASSUME ReviewInv
               PROVE  ReviewTypeOK
    OBVIOUS
  <2>1. /\ \A r \in Reviews : reviews[r] \in ReviewTypes /\ media[r] \in MediaTypes
        /\ DOMAIN media = Reviews
    BY RequestNumbers DEF ReviewInv, RowsOK
  <2>2. media \in [Reviews -> MediaTypes]
    <3>1. media = [r \in DOMAIN media |-> media[r]]
      BY SeqDef DEF ReviewInv, RowsOK, ReviewRowsTyped
    <3> QED BY <2>1, <3>1
  <2>3. Range(settledOrder) = {r \in Reviews : ~Active(r)}
    BY DEF Range, ReviewInv, RowsOK, ReviewsSettled
  <2>4. agedCount \in 0..Len(settledOrder) /\ enrolled \subseteq ReviewDevices
    <3>1. Len(settledOrder) \in Nat
      BY LenProperties DEF ReviewInv, RowsOK, ReviewRowsTyped
    <3> QED BY <3>1 DEF ReviewInv, RowsOK, ReviewRowsTyped
  <2> QED
    BY <2>1, <2>2, <2>3, <2>4
       DEF ReviewTypeOK, ReviewTypes, ReviewStatuses, MediaTypes, ImageTypes, ReviewInv, CleanupOK
<1> QED BY <1>1, ReviewAlways, PTL

\* An administrator never decides on a request without its images, and a
\* registration that succeeds has consumed an approval of its own device
\* that no other registration has (submitRequest, applyAdminDecision and
\* consumeApproval against cancellations, expiry, retries and the worker).
THEOREM ApprovalsStayEarnedAndSpentOnce == ReviewSpec => []ApprovalsAreEarnedAndSpentOnce
<1>1. ReviewInv => ApprovalsAreEarnedAndSpentOnce
  <2> SUFFICES ASSUME ReviewInv
               PROVE  ApprovalsAreEarnedAndSpentOnce
    OBVIOUS
  <2>1. ReviewedRequestsHaveMedia
    BY DEF ReviewInv, RowsOK, Judged, HasImage, ReviewedRequestsHaveMedia
  <2>2. ASSUME NEW c \in ReviewCalls, At(c, "register", "ok")
        PROVE  /\ reviews[reviewCall[c].review].status = "consumed"
               /\ reviews[reviewCall[c].review].device = reviewCall[c].device
               /\ reviews[reviewCall[c].review].action # "rejected"
               /\ \A b \in ReviewCalls : At(b, "register", "ok") /\ b # c =>
                    reviewCall[b].review # reviewCall[c].review
    <3>1. \A b \in ReviewCalls : At(b, "register", "ok") => IsConsumer(b)
      BY DEF At, IsConsumer
    <3>2. IsConsumer(c) /\ reviewCall[c].op = "register" /\ reviewCall[c].pc = "ok"
      BY <2>2, <3>1 DEF At
    <3>3. /\ reviewCall[c].review \in Reviews
          /\ reviews[reviewCall[c].review].status = "consumed"
          /\ reviews[reviewCall[c].review].device = reviewCall[c].device
      BY <3>2 DEF ReviewInv, ReviewCallsOK, ReviewCallOK, HoldsRequest, HoldsDecision
    <3>4. reviews[reviewCall[c].review].action # "rejected"
      BY <3>3 DEF ReviewInv, RowsOK, Judged
    <3>5. \A b \in ReviewCalls : IsConsumer(b) /\ b # c =>
            reviewCall[b].review # reviewCall[c].review
      BY <3>2 DEF ReviewInv, ReviewCallsOK, OwnRequests
    <3> QED BY <3>1, <3>3, <3>4, <3>5
  <2>3. RegistrationsSpendApprovals
    BY <2>2 DEF RegistrationsSpendApprovals
  <2> QED BY <2>1, <2>3 DEF ApprovalsAreEarnedAndSpentOnce
<1> QED BY <1>1, ReviewAlways, PTL

-----------------------------------------------------------------------------
(* HumanReview: a review is a one-time grant. *)

\* Each request was made by a call, so that there are not more of them.
LEMMA ReviewsAreGrants == ReviewInv => Reviews \subseteq ReviewGrants
<1> SUFFICES ASSUME ReviewInv
             PROVE  Reviews \subseteq ReviewGrants
  OBVIOUS
<1> DEFINE Creators == {c \in ReviewCalls : IsCreator(c)}
           f == [c \in Creators |-> reviewCall[c].review]
<1>1. PICK n \in Nat : Reviews = 1..n
  BY RequestNumbers DEF ReviewInv, RowsOK
<1>2. f \in Surjection(Creators, Reviews)
  <2>1. \A c \in Creators : reviewCall[c].review \in Reviews
    BY DEF ReviewInv, ReviewCallsOK, ReviewCallOK, HoldsRequest
  <2>2. \A r \in Reviews : \E c \in Creators : reviewCall[c].review = r
    BY DEF ReviewInv, ReviewCallsOK, OwnRequests
  <2> QED BY <2>1, <2>2 DEF Surjection
<1>3. Creators \in SUBSET ReviewCalls
  OBVIOUS
<1> HIDE DEF f, Creators
<1>4. IsFiniteSet(Creators) /\ Cardinality(Creators) <= Cardinality(ReviewCalls)
  BY <1>3, ReviewCallsAssumption, FS_Subset
<1>5. Cardinality(Reviews) <= Cardinality(Creators)
  BY <1>2, <1>4, FS_Surjection
<1>6. Cardinality(1..n) = n
  <2>1. Cardinality(1..n) = IF 1 > n THEN 0 ELSE n - 1 + 1
    BY FS_Interval
  <2> QED BY <2>1
<1>7. Cardinality(Creators) \in Nat /\ Cardinality(ReviewCalls) \in Nat
  BY <1>4, ReviewCallsAssumption, FS_CardinalityType
<1>8. n <= Cardinality(ReviewCalls)
  BY <1>1, <1>4, <1>5, <1>6, <1>7
<1> QED BY <1>1, <1>7, <1>8 DEF ReviewGrants

LEMMA ReviewsAreGrantsNext == ReviewInv' => Reviews' \subseteq ReviewGrants
<1> DEFINE Few == Reviews \subseteq ReviewGrants
<1>1. ReviewInv => Few
  BY ReviewsAreGrants
<1> HIDE DEF Few
<1>2. ReviewInv' => Few'
  BY <1>1, PTL
<1> QED BY <1>2 DEF Few, ReviewGrants

\* What the status of a request says of its grant.
GrantOf(status) ==
    IF status \in {"uploading", "pending"} THEN "open"
    ELSE IF status = "approved" THEN "approved"
    ELSE IF status = "consumed" THEN "spent" ELSE "void"

ReviewStates ==
    [r \in ReviewGrants |-> IF r \notin Reviews THEN "absent" ELSE GrantOf(reviews[r].status)]
ReviewHolders ==
    [r \in ReviewGrants |-> IF r \in Reviews THEN reviews[r].device ELSE NoDevice]

LEMMA ReviewStatesAreGrants == [r \in ReviewGrants |-> GrantStateOf(r)] = ReviewStates
<1>1. ASSUME NEW r \in ReviewGrants
      PROVE  GrantStateOf(r) = IF r \notin Reviews THEN "absent" ELSE GrantOf(reviews[r].status)
  <2>1. PICK status : status = reviews[r].status
    OBVIOUS
  <2>2. CASE status \in {"uploading", "pending"}
    BY <2>1, <2>2 DEF GrantStateOf, GrantOf
  <2>3. CASE status = "approved"
    BY <2>1, <2>3 DEF GrantStateOf, GrantOf
  <2>4. CASE status = "consumed"
    BY <2>1, <2>4 DEF GrantStateOf, GrantOf
  <2>5. CASE status \notin {"uploading", "pending", "approved", "consumed"}
    BY <2>1, <2>5 DEF GrantStateOf, GrantOf
  <2> QED BY <2>2, <2>3, <2>4, <2>5
<1> QED BY <1>1 DEF ReviewStates

LEMMA ReviewStatesAreGrantsNext == [r \in ReviewGrants |-> GrantStateOf(r)]' = ReviewStates'
<1> DEFINE Eq == [r \in ReviewGrants |-> GrantStateOf(r)] = ReviewStates
<1>1. Eq
  BY ReviewStatesAreGrants
<1> HIDE DEF Eq
<1>2. Eq'
  BY <1>1, PTL
<1> QED BY <1>2 DEF Eq

\* The steps of the grants, of the states alone.
ReviewAsks(r, d) ==
    /\ ReviewStates[r] = "absent"
    /\ \A s \in ReviewGrants : ReviewStates[s] \in {"open", "approved"} => ReviewHolders[s] # d
    /\ ReviewStates' = [ReviewStates EXCEPT ![r] = "open"]
    /\ ReviewHolders' = [ReviewHolders EXCEPT ![r] = d]
ReviewMoves(r, from, to) ==
    /\ ReviewStates[r] = from /\ ReviewStates' = [ReviewStates EXCEPT ![r] = to]
    /\ UNCHANGED ReviewHolders
ReviewVoids(r) ==
    /\ ReviewStates[r] \in {"open", "approved"}
    /\ ReviewStates' = [ReviewStates EXCEPT ![r] = "void"]
    /\ UNCHANGED ReviewHolders
ReviewGrantStep ==
    \/ UNCHANGED <<ReviewStates, ReviewHolders>>
    \/ \E r \in ReviewGrants :
         \/ \E d \in ReviewDevices : ReviewAsks(r, d)
         \/ ReviewMoves(r, "open", "approved") \/ ReviewMoves(r, "approved", "spent")
         \/ ReviewVoids(r)

LEMMA StatusesChangeIsGrantStep ==
  ASSUME StatusesChange, Reviews \subseteq ReviewGrants, Reviews' \subseteq ReviewGrants
  PROVE  ReviewGrantStep
<1>1. CASE StatusesStay
  BY <1>1 DEF StatusesStay, ReviewGrantStep, ReviewStates, ReviewHolders, GrantOf
<1>2. CASE RequestAdded
  <2>1. PICK d \in ReviewDevices, new \in Nat :
          /\ ActiveOf(d) = {} /\ new \notin Reviews /\ Reviews' = Reviews \cup {new}
          /\ reviews'[new].device = d /\ reviews'[new].status = "uploading"
          /\ \A s \in Reviews : /\ reviews'[s].device = reviews[s].device
                                /\ reviews'[s].status = reviews[s].status
    BY <1>2 DEF RequestAdded
  <2>2. new \in ReviewGrants /\ ReviewStates[new] = "absent"
    BY <2>1 DEF ReviewStates
  <2>3. ASSUME NEW s \in ReviewGrants, ReviewStates[s] \in {"open", "approved"}
        PROVE  ReviewHolders[s] # d
    <3>1. s \in Reviews /\ Active(s)
      BY <2>3 DEF ReviewStates, GrantOf, Active, ActiveStatuses
    <3>2. reviews[s].device # d
      BY <2>1, <3>1 DEF ActiveOf
    <3> QED BY <3>1, <3>2 DEF ReviewHolders
  <2>4. ReviewStates' = [ReviewStates EXCEPT ![new] = "open"]
        /\ ReviewHolders' = [ReviewHolders EXCEPT ![new] = d]
    BY <2>1 DEF ReviewStates, ReviewHolders, GrantOf
  <2> QED BY <2>2, <2>3, <2>4 DEF ReviewGrantStep, ReviewAsks
<1>3. ASSUME NEW r \in Reviews, StatusMoves(r)
      PROVE  ReviewGrantStep
  <2>1. /\ Reviews' = Reviews /\ r \in ReviewGrants
        /\ Allowed(reviews[r].status, reviews'[r].status)
        /\ \A s \in Reviews : /\ reviews'[s].device = reviews[s].device
                              /\ s # r => reviews'[s].status = reviews[s].status
    BY <1>3 DEF StatusMoves
  <2>2. /\ ReviewStates' = [ReviewStates EXCEPT ![r] = GrantOf(reviews'[r].status)]
        /\ UNCHANGED ReviewHolders /\ ReviewStates[r] = GrantOf(reviews[r].status)
    BY <2>1 DEF ReviewStates, ReviewHolders, GrantOf
  <2>3. PICK from, to : from = reviews[r].status /\ to = reviews'[r].status
    OBVIOUS
  <2>4. Allowed(from, to)
    BY <2>1, <2>3
  <2>5. \/ GrantOf(from) = "open" /\ GrantOf(to) \in {"open", "approved"}
        \/ GrantOf(from) = "approved" /\ GrantOf(to) = "spent"
        \/ GrantOf(from) \in {"open", "approved"} /\ GrantOf(to) = "void"
    BY <2>4 DEF Allowed, GrantOf, ActiveStatuses
  <2>6. CASE GrantOf(from) = "open" /\ GrantOf(to) = "open"
    <3>1. UNCHANGED ReviewStates
      BY <2>1, <2>2, <2>3, <2>6 DEF ReviewStates
    <3> QED BY <2>2, <3>1 DEF ReviewGrantStep
  <2>7. CASE GrantOf(from) = "open" /\ GrantOf(to) = "approved"
    BY <2>1, <2>2, <2>3, <2>7 DEF ReviewGrantStep, ReviewMoves
  <2>8. CASE GrantOf(from) = "approved" /\ GrantOf(to) = "spent"
    BY <2>1, <2>2, <2>3, <2>8 DEF ReviewGrantStep, ReviewMoves
  <2>9. CASE GrantOf(from) \in {"open", "approved"} /\ GrantOf(to) = "void"
    BY <2>1, <2>2, <2>3, <2>9 DEF ReviewGrantStep, ReviewVoids
  <2> QED BY <2>5, <2>6, <2>7, <2>8, <2>9
<1> QED BY <1>1, <1>2, <1>3 DEF StatusesChange

\* A step of the grants, as Grant has it.
LEMMA ReviewGrantStepIsNext ==
  ASSUME ReviewGrantStep
  PROVE  Grant!GrantNext \/ UNCHANGED <<[r \in ReviewGrants |-> GrantStateOf(r)],
                                        [r \in ReviewGrants |->
                                           IF r \in Reviews THEN reviews[r].device ELSE NoDevice]>>
<1>1. /\ [r \in ReviewGrants |-> GrantStateOf(r)] = ReviewStates
      /\ [r \in ReviewGrants |-> GrantStateOf(r)]' = ReviewStates'
  BY ReviewStatesAreGrants, ReviewStatesAreGrantsNext
<1>2. /\ [r \in ReviewGrants |-> IF r \in Reviews THEN reviews[r].device ELSE NoDevice]
           = ReviewHolders
      /\ [r \in ReviewGrants |-> IF r \in Reviews THEN reviews[r].device ELSE NoDevice]'
           = ReviewHolders'
  BY DEF ReviewHolders
<1>3. CASE UNCHANGED <<ReviewStates, ReviewHolders>>
  BY <1>1, <1>2, <1>3
<1>4. ASSUME NEW r \in ReviewGrants, NEW d \in ReviewDevices, ReviewAsks(r, d)
      PROVE  Grant!AskFor(r, d)
  BY <1>1, <1>2, <1>4 DEF ReviewAsks, Grant!AskFor, Grant!Live
<1>5. ASSUME NEW r \in ReviewGrants, NEW from, NEW to, ReviewMoves(r, from, to)
      PROVE  Grant!Move(r, from, to)
  BY <1>1, <1>2, <1>5 DEF ReviewMoves, Grant!Move
<1>6. ASSUME NEW r \in ReviewGrants, ReviewVoids(r)
      PROVE  Grant!Void({r})
  <2>1. ReviewStates' = [s \in ReviewGrants |-> IF s \in {r} THEN "void" ELSE ReviewStates[s]]
    BY <1>6 DEF ReviewVoids, ReviewStates
  <2> QED BY <1>1, <1>2, <1>6, <2>1 DEF ReviewVoids, Grant!Void, Grant!Live
<1> QED BY <1>3, <1>4, <1>5, <1>6 DEF ReviewGrantStep, Grant!GrantNext

\* However creations, administrators, registrations, deadlines and the
\* worker overlap, a device has one live request at most, a settled one
\* stays settled, and only an approved one is consumed
\* (transitionRequest's expected status, the unique index on active rows).
THEOREM ReviewsImplementGrants == ReviewSpec => ReviewImplementsGrant
<1>1. ReviewInit => Grant!GrantInit
  <2> SUFFICES ASSUME ReviewInit
               PROVE  Grant!GrantInit
    OBVIOUS
  <2>1. [r \in ReviewGrants |-> GrantStateOf(r)] = ReviewStates
    BY ReviewStatesAreGrants
  <2>2. Reviews = {}
    BY DEF ReviewInit, Reviews
  <2> QED BY <2>1, <2>2 DEF ReviewStates, Grant!GrantInit
<1>2. ReviewInv /\ ReviewInv' /\ [ReviewNext]_reviewVars
        => [Grant!GrantNext]_<<[r \in ReviewGrants |-> GrantStateOf(r)],
                               [r \in ReviewGrants |->
                                  IF r \in Reviews THEN reviews[r].device ELSE NoDevice]>>
  <2> SUFFICES ASSUME ReviewInv, ReviewInv', [ReviewNext]_reviewVars
               PROVE  ReviewGrantStep
    BY ReviewGrantStepIsNext
  <2>1. StatusesChange
    BY ReviewNextKeeps
  <2>2. Reviews \subseteq ReviewGrants /\ Reviews' \subseteq ReviewGrants
    BY ReviewsAreGrants, ReviewsAreGrantsNext
  <2> QED BY <2>1, <2>2, StatusesChangeIsGrantStep
<1> QED BY <1>1, <1>2, ReviewAlways, PTL DEF ReviewSpec, ReviewImplementsGrant, Grant!GrantSpec

-----------------------------------------------------------------------------
(* PushDelivery: types. *)

HandlerSteps == {"send", "sent", "invalid_token", "retry", "dead", "markSuccessful",
                 "markInvalid", "catch"}

DeliveryTypes ==
    [notice : Nat, session : PushSessions, status : OpenStatuses \cup FinalStatuses,
     due : BOOLEAN, leaseOver : BOOLEAN, attempts : Nat]

NoticeTypes ==
    [kind : {"comment", "like"}, status : {"inbox", "archived", "deleted"},
     recent : BOOLEAN]

HandlerTypes == [claim : Nat \X Nat, worker : PushWorkers, step : HandlerSteps]

RecipientTyped ==
    /\ account \in {"active", "deleted"} /\ pushEnabled \in BOOLEAN
    /\ session \in [PushSessions -> {"active", "expired", "ended"}]
    /\ installation \in [PushSessions -> {"none", "active", "revoked", "stale", "invalid"}]
    /\ notice \in Seq(NoticeTypes)

DeliveriesTyped ==
    /\ delivery \in Seq(DeliveryTypes)
    /\ accepted \in Seq(Nat) /\ Len(accepted) = Len(delivery)

WorkTyped ==
    /\ handlers \subseteq HandlerTypes
    /\ \A h \in handlers : Of(h) \in Deliveries
    /\ doubted \subseteq Deliveries
    /\ batch \in [PushWorkers -> SUBSET (Nat \X Nat)]
    /\ \A w \in PushWorkers : \A c \in batch[w] :
         \E h \in handlers : h.worker = w /\ h.claim = c

PushTypes == RecipientTyped /\ DeliveriesTyped /\ WorkTyped

-----------------------------------------------------------------------------
(* What a delivery nothing went wrong with looks like: H are its handlers, *)
(* row is its row, and the provider has taken it so many times.            *)

Sound(H, row, times) ==
    /\ \A g, h \in H : g = h
    /\ times <= 1 /\ row.attempts <= MaxPushAttempts
    /\ times = 1 => row.status \in FinalStatuses \/ \E h \in H : h.step = "sent"
    /\ row.status \in {"pending", "retry"} =>
         H = {} /\ times = 0 /\ row.attempts < MaxPushAttempts
    /\ row.status = "processing" => H # {} /\ ~row.leaseOver
    /\ \A h \in H :
         /\ h.claim[2] = row.attempts /\ h.step # "catch"
         /\ h.step \in {"send", "invalid_token", "retry", "dead"} => times = 0
         /\ h.step \in {"markSuccessful", "markInvalid"} =>
              row.status \in {"sent", "invalid_token", "deleted"}

HandlersOf(d) == {h \in handlers : Of(h) = d}

UndoubtedAreSound ==
    \A d \in Deliveries \ doubted : Sound(HandlersOf(d), delivery[d], accepted[d])

PushInv == PushTypes /\ UndoubtedAreSound
LEMMA PushInvInit == PushInit => PushInv
<1> SUFFICES ASSUME PushInit PROVE PushInv
  OBVIOUS
<1>1. RecipientTyped
  BY EmptySeq DEF PushInit, RecipientTyped
<1>2. DeliveriesTyped /\ Deliveries = {}
  BY EmptySeq DEF PushInit, DeliveriesTyped, Deliveries
<1>3. WorkTyped
  BY DEF PushInit, WorkTyped
<1> QED BY <1>1, <1>2, <1>3 DEF PushInv, PushTypes, UndoubtedAreSound

\* The deliveries and the times they were taken, as functions.
LEMMA DeliveryRows ==
  ASSUME DeliveriesTyped
  PROVE  /\ delivery \in [Deliveries -> DeliveryTypes]
         /\ accepted \in [Deliveries -> Nat]
         /\ Deliveries = 1..Len(delivery) /\ Len(delivery) \in Nat
BY LenProperties, SeqDef DEF DeliveriesTyped, Deliveries

\* Rows with the same numbers are sequences again.
LEMMA DeliveryRowsAgain ==
  ASSUME DeliveriesTyped,
         delivery' \in [Deliveries -> DeliveryTypes], accepted' \in [Deliveries -> Nat]
  PROVE  DeliveriesTyped' /\ Deliveries' = Deliveries
<1>1. PICK n \in Nat : n = Len(delivery) /\ Deliveries = 1..n
  BY DeliveryRows
<1>2. delivery' \in Seq(DeliveryTypes) /\ accepted' \in Seq(Nat)
  BY <1>1, SeqDef
<1>3. Len(delivery') = n /\ Len(accepted') = n /\ DOMAIN delivery' = 1..n
  BY <1>1, <1>2, LenProperties
<1> QED BY <1>1, <1>2, <1>3 DEF DeliveriesTyped, Deliveries

\* A delivery is sound as long as nothing of it changes.
LEMMA SoundStays ==
  ASSUME UndoubtedAreSound, NEW d \in Deliveries, d \notin doubted',
         doubted \subseteq doubted',
         HandlersOf(d)' = HandlersOf(d), delivery'[d] = delivery[d],
         accepted'[d] = accepted[d]
  PROVE  Sound(HandlersOf(d)', delivery'[d], accepted'[d])
BY DEF UndoubtedAreSound

\* The recipient's steps that change no delivery keep the invariant.
LEMMA RecipientKeeps ==
  ASSUME PushInv, RecipientTyped', UNCHANGED <<delivery, workVars>>
  PROVE  PushInv'
<1>1. UNCHANGED <<delivery, batch, handlers, accepted, doubted>>
  BY DEF workVars
<1>2. DeliveriesTyped' /\ WorkTyped' /\ Deliveries' = Deliveries
  BY <1>1 DEF PushInv, PushTypes, DeliveriesTyped, WorkTyped, Deliveries
<1>3. UndoubtedAreSound'
  BY <1>1, <1>2 DEF PushInv, UndoubtedAreSound, HandlersOf
<1> QED BY <1>2, <1>3 DEF PushInv, PushTypes

LEMMA RecipientSteps ==
  ASSUME PushInv,
         \/ \E s \in PushSessions :
              RegisterInstallation(s) \/ RevokeInstallation(s) \/ EndSession(s)
         \/ UpdatePreferences
         \/ \E n \in DOMAIN notice : ArchiveNotice(n) \/ PushIsOld(n)
  PROVE  PushInv'
<1>1. RecipientTyped
  BY DEF PushInv, PushTypes
<1>2. ASSUME NEW s \in PushSessions,
             RegisterInstallation(s) \/ RevokeInstallation(s) \/ EndSession(s)
      PROVE  RecipientTyped' /\ UNCHANGED <<delivery, workVars>>
  <2>1. CASE RegisterInstallation(s)
    BY <1>1, <2>1 DEF RecipientTyped, RegisterInstallation
  <2>2. CASE RevokeInstallation(s)
    BY <1>1, <2>2 DEF RecipientTyped, RevokeInstallation
  <2>3. CASE EndSession(s)
    BY <1>1, <2>3 DEF RecipientTyped, EndSession
  <2> QED BY <1>2, <2>1, <2>2, <2>3
<1>3. CASE UpdatePreferences
  BY <1>1, <1>3, RecipientKeeps DEF RecipientTyped, UpdatePreferences
<1>4. ASSUME NEW n \in DOMAIN notice, ArchiveNotice(n) \/ PushIsOld(n)
      PROVE  RecipientTyped' /\ UNCHANGED <<delivery, workVars>>
  <2>1. notice[n] \in NoticeTypes /\ notice \in Seq(NoticeTypes) /\ n \in 1..Len(notice)
    BY <1>1, <1>4, ElementOfSeq, LenProperties DEF RecipientTyped
  <2>2. PICK row \in NoticeTypes : notice' = [notice EXCEPT ![n] = row]
    <3>1. [notice[n] EXCEPT !.status = "archived"] \in NoticeTypes
          /\ [notice[n] EXCEPT !.recent = FALSE] \in NoticeTypes
      BY <2>1 DEF NoticeTypes
    <3> QED BY <1>4, <3>1 DEF ArchiveNotice, PushIsOld
  <2>3. notice' \in Seq(NoticeTypes)
    BY <2>1, <2>2, ExceptSeq
  <2> QED BY <1>1, <1>4, <2>3 DEF RecipientTyped, ArchiveNotice, PushIsOld
<1> QED BY <1>2, <1>3, <1>4, RecipientKeeps

LEMMA DeleteRecipientKeeps == ASSUME PushInv, DeleteRecipient PROVE PushInv'
<1>1. PushTypes /\ UndoubtedAreSound /\ DeliveriesTyped /\ RecipientTyped /\ WorkTyped
  BY DEF PushInv, PushTypes
<1>2. UNCHANGED <<batch, handlers, accepted, doubted>>
  BY DEF DeleteRecipient, workVars
<1>3. /\ delivery \in [Deliveries -> DeliveryTypes] /\ accepted \in [Deliveries -> Nat]
  BY <1>1, DeliveryRows
<1>4. \A d \in Deliveries : /\ delivery'[d] = [delivery[d] EXCEPT !.status = "deleted"]
                            /\ delivery'[d] \in DeliveryTypes
  BY <1>3 DEF DeleteRecipient, DeliveryTypes, FinalStatuses
<1>5. delivery' \in [Deliveries -> DeliveryTypes] /\ accepted' \in [Deliveries -> Nat]
  BY <1>2, <1>3, <1>4 DEF DeleteRecipient
<1>6. DeliveriesTyped' /\ Deliveries' = Deliveries
  BY <1>1, <1>5, DeliveryRowsAgain
<1>7. WorkTyped'
  BY <1>1, <1>2, <1>6 DEF WorkTyped, Of
<1>8. RecipientTyped'
  <2>1. notice \in Seq(NoticeTypes) /\ DOMAIN notice = 1..Len(notice) /\ Len(notice) \in Nat
    BY <1>1, LenProperties DEF RecipientTyped
  <2>2. \A n \in DOMAIN notice : [notice[n] EXCEPT !.status = "deleted"] \in NoticeTypes
    <3>1. \A n \in DOMAIN notice : notice[n] \in NoticeTypes
      BY <2>1, ElementOfSeq
    <3> QED BY <3>1 DEF NoticeTypes
  <2>3. notice' \in [1..Len(notice) -> NoticeTypes]
    BY <2>1, <2>2 DEF DeleteRecipient
  <2>4. notice' \in Seq(NoticeTypes)
    BY <2>1, <2>3, SeqDef
  <2> QED BY <1>1, <2>4 DEF RecipientTyped, DeleteRecipient
<1>9. UndoubtedAreSound'
  <2> SUFFICES ASSUME NEW d \in Deliveries, d \notin doubted
               PROVE  Sound(HandlersOf(d), delivery'[d], accepted[d])
    BY <1>2, <1>6 DEF UndoubtedAreSound, HandlersOf
  <2>1. Sound(HandlersOf(d), delivery[d], accepted[d])
    BY <1>1 DEF UndoubtedAreSound
  <2>2. /\ delivery'[d].status = "deleted"
        /\ delivery'[d].attempts = delivery[d].attempts
    BY <1>3, <1>4 DEF DeliveryTypes
  <2> QED BY <2>1, <2>2 DEF Sound, FinalStatuses
<1> QED BY <1>6, <1>7, <1>8, <1>9 DEF PushInv, PushTypes

-----------------------------------------------------------------------------
(* PushDelivery: new deliveries. *)

\* What an event enqueues is a sequence of pending deliveries.
LEMMA EnqueuedRows ==
  ASSUME NEW n \in Nat
  PROVE  /\ Enqueued(n) \in Seq(DeliveryTypes)
         /\ \A k \in DOMAIN Enqueued(n) :
              Enqueued(n)[k].status = "pending" /\ Enqueued(n)[k].attempts = 0
<1> DEFINE S == {s \in PushSessions : installation[s] = "active" /\ session[s] = "active"}
           installed == SetToSeq(S)
<1>1. CASE ~pushEnabled
  BY <1>1, EmptySeq DEF Enqueued
<1>2. CASE pushEnabled
  <2>1. S \in SUBSET PushSessions
    OBVIOUS
  <2>2. IsFiniteSet(S)
    BY <2>1, PushSessionsAssumption, FS_Subset
  <2> HIDE DEF S
  <2>3. installed \in Seq(S)
    BY <2>2, SetIsListed
  <2>4. PICK m \in Nat : DOMAIN installed = 1..m
    BY <2>3, LenProperties
  <2>5. \A k \in DOMAIN installed : installed[k] \in PushSessions
    BY <2>1, <2>3, ElementOfSeq, LenProperties
  <2>6. Enqueued(n) = [k \in DOMAIN installed |->
          [notice |-> n, session |-> installed[k], status |-> "pending",
           due |-> TRUE, leaseOver |-> FALSE, attempts |-> 0]]
    BY <1>2 DEF Enqueued, S
  <2> HIDE DEF installed
  <2>7. Enqueued(n) \in [1..m -> DeliveryTypes]
    BY <2>4, <2>5, <2>6 DEF DeliveryTypes, OpenStatuses
  <2>8. Enqueued(n) \in Seq(DeliveryTypes)
    BY <2>7, SeqDef
  <2> QED BY <2>6, <2>8
<1> QED BY <1>1, <1>2

LEMMA EnqueueKeeps ==
  ASSUME PushInv, NEW n \in Nat, EnqueueDeliveries(n), RecipientTyped',
         UNCHANGED <<batch, handlers, doubted>>
  PROVE  PushInv'
<1>1. DeliveriesTyped /\ WorkTyped /\ UndoubtedAreSound
  BY DEF PushInv, PushTypes
<1> DEFINE E == Enqueued(n)
           Z == [k \in DOMAIN E |-> 0]
<1>2. /\ E \in Seq(DeliveryTypes)
      /\ \A k \in DOMAIN E : E[k].status = "pending" /\ E[k].attempts = 0
  BY EnqueuedRows
<1>3. delivery' = delivery \o E /\ accepted' = accepted \o Z
  BY DEF EnqueueDeliveries
<1> HIDE DEF E
<1>4. Len(E) \in Nat /\ DOMAIN E = 1..Len(E)
  BY <1>2, LenProperties
<1>5. Z \in Seq(Nat) /\ Len(Z) = Len(E) /\ DOMAIN Z = 1..Len(E)
  <2>1. Z \in [1..Len(E) -> Nat]
    BY <1>4
  <2>2. Z \in Seq(Nat)
    BY <1>4, <2>1, SeqDef
  <2> QED BY <1>4, <2>2, LenProperties
<1>6. DeliveriesTyped' /\ Len(delivery') = Len(delivery) + Len(E)
  <2> HIDE DEF Z
  <2>1. delivery' \in Seq(DeliveryTypes) /\ Len(delivery') = Len(delivery) + Len(E)
    BY <1>1, <1>2, <1>3, ConcatProperties DEF DeliveriesTyped
  <2>2. accepted' \in Seq(Nat) /\ Len(accepted') = Len(accepted) + Len(Z)
    BY <1>1, <1>3, <1>5, ConcatProperties DEF DeliveriesTyped
  <2> QED BY <1>1, <1>5, <2>1, <2>2 DEF DeliveriesTyped
<1>7. /\ Deliveries = 1..Len(delivery) /\ Len(delivery) \in Nat
      /\ Deliveries' = 1..(Len(delivery) + Len(E))
  <2>1. Deliveries' = 1..Len(delivery')
    BY <1>6, LenProperties DEF DeliveriesTyped, Deliveries
  <2> QED BY <1>1, <1>6, <2>1, DeliveryRows
<1>8. \A d \in Deliveries : delivery'[d] = delivery[d] /\ accepted'[d] = accepted[d]
  BY <1>1, <1>2, <1>3, <1>5, <1>7, ConcatProperties DEF DeliveriesTyped
<1>9. WorkTyped'
  <2>1. Deliveries \subseteq Deliveries'
    BY <1>4, <1>7
  <2> QED BY <1>1, <2>1 DEF WorkTyped, Of
<1>10. UndoubtedAreSound'
  <2> SUFFICES ASSUME NEW d \in Deliveries', d \notin doubted
               PROVE  Sound(HandlersOf(d), delivery'[d], accepted'[d])
    BY DEF UndoubtedAreSound, HandlersOf
  <2>1. CASE d \in Deliveries
    BY <1>1, <1>8, <2>1 DEF UndoubtedAreSound
  <2>2. CASE d \notin Deliveries
    <3>1. PICK k \in 1..Len(E) : d = Len(delivery) + k
      <4>1. d \in Int /\ d > Len(delivery) /\ d <= Len(delivery) + Len(E)
        BY <1>4, <1>7, <2>2
      <4>2. d - Len(delivery) \in 1..Len(E) /\ d = Len(delivery) + (d - Len(delivery))
        BY <1>4, <1>7, <4>1
      <4> QED BY <4>2
    <3>2. delivery'[d] = E[k]
      BY <1>1, <1>2, <1>3, <1>4, <1>7, <3>1, ConcatProperties DEF DeliveriesTyped
    <3>3. accepted'[d] = Z[k] /\ Z[k] = 0
      BY <1>1, <1>3, <1>4, <1>5, <1>7, <3>1, ConcatProperties DEF DeliveriesTyped
    <3>4. HandlersOf(d) = {}
      BY <1>1, <2>2 DEF WorkTyped, HandlersOf
    <3>5. delivery'[d].status = "pending" /\ delivery'[d].attempts = 0
      BY <1>2, <1>4, <3>2
    <3> QED BY <3>3, <3>4, <3>5, MaxPushAttemptsAssumption DEF Sound
  <2> QED BY <2>1, <2>2
<1> QED BY <1>6, <1>9, <1>10 DEF PushInv, PushTypes

LEMMA EventsKeep == ASSUME PushInv, PublishComment \/ LikePost PROVE PushInv'
<1>1. RecipientTyped /\ notice \in Seq(NoticeTypes) /\ Len(notice) \in Nat
  BY LenProperties DEF PushInv, PushTypes, RecipientTyped
<1>2. CASE \E kind \in {"comment", "like"} :
             /\ notice' = Append(notice, [kind |-> kind, status |-> "inbox", recent |-> TRUE])
             /\ EnqueueDeliveries(Len(notice) + 1)
             /\ UNCHANGED <<account, pushEnabled, session, installation, batch, handlers,
                            doubted>>
  <2>1. notice' \in Seq(NoticeTypes)
    BY <1>1, <1>2, AppendProperties DEF NoticeTypes
  <2>2. RecipientTyped'
    BY <1>1, <1>2, <2>1 DEF RecipientTyped
  <2> QED BY <1>1, <1>2, <2>2, EnqueueKeeps
<1>3. CASE \E n \in LikeNotices :
             /\ notice' = [notice EXCEPT ![n] = [@ EXCEPT !.status = "inbox", !.recent = TRUE]]
             /\ IF notice[n].recent THEN UNCHANGED <<delivery, accepted>>
                                    ELSE EnqueueDeliveries(n)
             /\ UNCHANGED <<account, pushEnabled, session, installation, batch, handlers,
                            doubted>>
  <2>1. PICK n \in LikeNotices :
             /\ notice' = [notice EXCEPT ![n] = [@ EXCEPT !.status = "inbox", !.recent = TRUE]]
             /\ IF notice[n].recent THEN UNCHANGED <<delivery, accepted>>
                                    ELSE EnqueueDeliveries(n)
             /\ UNCHANGED <<account, pushEnabled, session, installation, batch, handlers,
                            doubted>>
    BY <1>3
  <2>2. n \in 1..Len(notice) /\ notice[n] \in NoticeTypes
    BY <1>1, ElementOfSeq, LenProperties DEF LikeNotices
  <2>3. [notice[n] EXCEPT !.status = "inbox", !.recent = TRUE] \in NoticeTypes
    BY <2>2 DEF NoticeTypes
  <2>4. notice' \in Seq(NoticeTypes)
    BY <1>1, <2>1, <2>2, <2>3, ExceptSeq
  <2>5. RecipientTyped'
    BY <1>1, <2>1, <2>4 DEF RecipientTyped
  <2>6. CASE notice[n].recent
    BY <2>1, <2>5, <2>6, RecipientKeeps DEF workVars
  <2>7. CASE ~notice[n].recent
    BY <1>1, <2>1, <2>2, <2>5, <2>7, EnqueueKeeps
  <2> QED BY <2>6, <2>7
<1> QED BY <1>2, <1>3 DEF PublishComment, LikePost

-----------------------------------------------------------------------------
(* PushDelivery: the workers. *)

\* The handlers and the batches when a handler goes on or ends.
LEMMA GoingOn ==
  ASSUME WorkTyped, NEW h \in handlers, NEW step \in HandlerSteps \cup {"end"},
         GoOn(h, step)
  PROVE  /\ handlers' \subseteq HandlerTypes
         /\ \A g \in handlers' : Of(g) \in Deliveries
         /\ batch' \in [PushWorkers -> SUBSET (Nat \X Nat)]
         /\ \A w \in PushWorkers : \A c \in batch'[w] :
              \E g \in handlers' : g.worker = w /\ g.claim = c
         /\ \A d : d # Of(h) => HandlersOf(d)' = HandlersOf(d)
         /\ HandlersOf(Of(h))' \subseteq (HandlersOf(Of(h)) \ {h}) \cup
              (IF step = "end" THEN {} ELSE {[h EXCEPT !.step = step]})
         /\ step # "end" => [h EXCEPT !.step = step] \in HandlersOf(Of(h))'
<1>1. h \in HandlerTypes /\ handlers \subseteq HandlerTypes
  BY DEF WorkTyped
<1> DEFINE next == [h EXCEPT !.step = step]
<1>2. step # "end" => next \in HandlerTypes
  BY <1>1 DEF HandlerTypes
<1>3. Of(next) = Of(h) /\ next.worker = h.worker /\ next.claim = h.claim
  BY <1>1 DEF HandlerTypes, Of
<1>4. handlers' = (handlers \ {h}) \cup (IF step = "end" THEN {} ELSE {next})
  BY DEF GoOn
<1>5. batch' = IF step = "end" THEN [batch EXCEPT ![h.worker] = @ \ {h.claim}] ELSE batch
  BY DEF GoOn
<1> HIDE DEF next
<1>6. handlers' \subseteq HandlerTypes /\ \A g \in handlers' : Of(g) \in Deliveries
  BY <1>1, <1>2, <1>3, <1>4 DEF WorkTyped
<1>7. h.worker \in PushWorkers
  BY <1>1 DEF HandlerTypes
<1>8. batch' \in [PushWorkers -> SUBSET (Nat \X Nat)]
  BY <1>5, <1>7 DEF WorkTyped
<1>9. ASSUME NEW w \in PushWorkers, NEW c \in batch'[w]
      PROVE  \E g \in handlers' : g.worker = w /\ g.claim = c
  <2>1. c \in batch[w] /\ (step = "end" => w # h.worker \/ c # h.claim)
    BY <1>5, <1>7, <1>9 DEF WorkTyped
  <2>2. PICK g \in handlers : g.worker = w /\ g.claim = c
    BY <2>1 DEF WorkTyped
  <2>3. CASE g # h
    BY <1>4, <2>2, <2>3
  <2>4. CASE g = h
    BY <1>3, <1>4, <2>1, <2>2, <2>4
  <2> QED BY <2>3, <2>4
<1>10. \A d : d # Of(h) => HandlersOf(d)' = HandlersOf(d)
  BY <1>3, <1>4 DEF HandlersOf, Of
<1>11. HandlersOf(Of(h))' \subseteq (HandlersOf(Of(h)) \ {h}) \cup
         (IF step = "end" THEN {} ELSE {next})
  BY <1>4 DEF HandlersOf, Of
<1>12. step # "end" => next \in HandlersOf(Of(h))'
  BY <1>3, <1>4 DEF HandlersOf, Of
<1> QED BY <1>6, <1>8, <1>9, <1>10, <1>11, <1>12 DEF next

\* The only handler of a sound delivery, before and after its step.
LEMMA OnlyHandler ==
  ASSUME WorkTyped, UndoubtedAreSound, NEW h \in handlers, Of(h) \notin doubted,
         NEW step \in HandlerSteps \cup {"end"}, GoOn(h, step)
  PROVE  /\ Of(h) \in Deliveries
         /\ Sound({h}, delivery[Of(h)], accepted[Of(h)])
         /\ HandlersOf(Of(h))' = IF step = "end" THEN {} ELSE {[h EXCEPT !.step = step]}
<1>1. Of(h) \in Deliveries /\ h \in HandlersOf(Of(h))
  BY DEF WorkTyped, HandlersOf
<1>2. Sound(HandlersOf(Of(h)), delivery[Of(h)], accepted[Of(h)])
  BY <1>1 DEF UndoubtedAreSound
<1>3. HandlersOf(Of(h)) = {h}
  BY <1>1, <1>2 DEF Sound
<1>4. /\ HandlersOf(Of(h))' \subseteq (HandlersOf(Of(h)) \ {h}) \cup
           (IF step = "end" THEN {} ELSE {[h EXCEPT !.step = step]})
      /\ step # "end" => [h EXCEPT !.step = step] \in HandlersOf(Of(h))'
  BY GoingOn
<1> QED BY <1>1, <1>2, <1>3, <1>4

\* A handler that takes a step changes its own delivery at most.
LEMMA HandlerKeeps ==
  ASSUME PushInv, RecipientTyped', NEW h \in handlers,
         NEW step \in HandlerSteps \cup {"end"}, GoOn(h, step),
         delivery' \in [Deliveries -> DeliveryTypes],
         accepted' \in [Deliveries -> Nat],
         \A d \in Deliveries : d # Of(h) => delivery'[d] = delivery[d]
                                            /\ accepted'[d] = accepted[d],
         doubted' \in {doubted, doubted \cup {Of(h)}},
         Of(h) \notin doubted' =>
           Sound(IF step = "end" THEN {} ELSE {[h EXCEPT !.step = step]},
                 delivery'[Of(h)], accepted'[Of(h)])
  PROVE  PushInv'
<1>1. DeliveriesTyped /\ WorkTyped /\ UndoubtedAreSound
  BY DEF PushInv, PushTypes
<1>2. DeliveriesTyped' /\ Deliveries' = Deliveries
  BY <1>1, DeliveryRowsAgain
<1>3. Of(h) \in Deliveries
  BY <1>1 DEF WorkTyped
<1>4. WorkTyped'
  BY <1>1, <1>2, <1>3, GoingOn DEF WorkTyped, Of
<1>5. UndoubtedAreSound'
  <2> SUFFICES ASSUME NEW d \in Deliveries, d \notin doubted'
               PROVE  Sound(HandlersOf(d)', delivery'[d], accepted'[d])
    BY <1>2 DEF UndoubtedAreSound
  <2>1. CASE d = Of(h)
    BY <1>1, <2>1, OnlyHandler
  <2>2. CASE d # Of(h)
    <3>1. HandlersOf(d)' = HandlersOf(d)
      BY <1>1, <2>2, GoingOn
    <3>2. delivery'[d] = delivery[d] /\ accepted'[d] = accepted[d]
      BY <2>2
    <3>3. doubted \subseteq doubted'
      OBVIOUS
    <3> QED BY <1>1, <3>1, <3>2, <3>3, SoundStays
  <2> QED BY <2>1, <2>2
<1> QED BY <1>2, <1>4, <1>5 DEF PushInv, PushTypes

LEMMA SendKeeps == ASSUME PushInv, NEW h \in handlers, Send(h) PROVE PushInv'
<1>1. DeliveriesTyped /\ WorkTyped /\ UndoubtedAreSound /\ RecipientTyped
  BY DEF PushInv, PushTypes
<1>2. UNCHANGED <<account, pushEnabled, session, installation, notice, delivery>>
      /\ h.step = "send" /\ h \in HandlerTypes /\ Of(h) \in Deliveries
  BY <1>1 DEF Send, recipientVars, WorkTyped
<1>3. RecipientTyped'
  BY <1>1, <1>2 DEF RecipientTyped
<1>4. delivery \in [Deliveries -> DeliveryTypes] /\ accepted \in [Deliveries -> Nat]
  BY <1>1, DeliveryRows
<1>5. delivery' \in [Deliveries -> DeliveryTypes]
      /\ \A d \in Deliveries : delivery'[d] = delivery[d]
  BY <1>2, <1>4
<1> DEFINE more == [accepted EXCEPT ![Of(h)] = @ + 1]
<1>6. more \in [Deliveries -> Nat] /\ (\A d \in Deliveries \ {Of(h)} : more[d] = accepted[d])
      /\ more[Of(h)] = accepted[Of(h)] + 1
  BY <1>2, <1>4
<1>7. /\ "sent" \in HandlerSteps /\ "retry" \in HandlerSteps
      /\ {"invalid_token", "retry", "dead"} \subseteq HandlerSteps
      /\ "sent" # "end" /\ "retry" # "end"
  BY DEF HandlerSteps
<1>8. \A step : [h EXCEPT !.step = step].step = step
                /\ [h EXCEPT !.step = step].claim = h.claim
  BY <1>2 DEF HandlerTypes
<1> HIDE DEF more
<1>9. CASE accepted' = more /\ GoOn(h, "sent") /\ UNCHANGED <<doubted, happened>>
  <2>1. ASSUME Of(h) \notin doubted
        PROVE  Sound({[h EXCEPT !.step = "sent"]}, delivery[Of(h)], more[Of(h)])
    <3>1. Sound({h}, delivery[Of(h)], accepted[Of(h)])
      BY <1>1, <1>7, <1>9, <2>1, OnlyHandler
    <3> QED BY <1>2, <1>6, <1>8, <3>1 DEF Sound
  <2> QED BY <1>2, <1>3, <1>5, <1>6, <1>7, <1>9, <2>1, HandlerKeeps
<1>10. CASE /\ \E answer \in {"invalid_token", "retry", "dead"} : GoOn(h, answer)
            /\ UNCHANGED <<accepted, doubted, happened>>
  <2>1. PICK answer \in {"invalid_token", "retry", "dead"} : GoOn(h, answer)
    BY <1>10
  <2>2. ASSUME Of(h) \notin doubted
        PROVE  Sound({[h EXCEPT !.step = answer]}, delivery[Of(h)], accepted[Of(h)])
    <3>1. Sound({h}, delivery[Of(h)], accepted[Of(h)])
      BY <1>1, <1>7, <2>1, <2>2, OnlyHandler
    <3> QED BY <1>2, <1>8, <3>1 DEF Sound
  <2>3. answer # "end" /\ answer \in HandlerSteps
    BY <1>7
  <2> QED BY <1>2, <1>3, <1>4, <1>5, <1>10, <2>1, <2>2, <2>3, HandlerKeeps
<1>11. CASE accepted' \in {accepted, more} /\ GoOn(h, "retry") /\ Trouble(h)
  <2>1. Of(h) \in doubted' /\ doubted' = doubted \cup {Of(h)}
    BY <1>11 DEF Trouble
  <2>2. accepted' \in [Deliveries -> Nat]
        /\ \A d \in Deliveries \ {Of(h)} : accepted'[d] = accepted[d]
    BY <1>4, <1>6, <1>11
  <2> QED BY <1>3, <1>5, <1>7, <1>11, <2>1, <2>2, HandlerKeeps
<1> QED BY <1>9, <1>10, <1>11 DEF Send, more

\* What completing does to the row.
LEMMA Completed ==
  ASSUME DeliveriesTyped, NEW d \in Deliveries,
         NEW status \in OpenStatuses \cup FinalStatuses, NEW due \in BOOLEAN,
         Complete(d, status, due)
  PROVE  /\ delivery' \in [Deliveries -> DeliveryTypes]
         /\ \A e \in Deliveries : e # d => delivery'[e] = delivery[e]
         /\ delivery'[d].attempts = delivery[d].attempts
         /\ delivery[d].status = "deleted" => delivery'[d] = delivery[d]
         /\ delivery[d].status # "deleted" => delivery'[d].status = status
<1> DEFINE next == [delivery[d] EXCEPT !.status = status, !.due = due, !.leaseOver = FALSE]
<1>1. delivery \in [Deliveries -> DeliveryTypes] /\ delivery[d] \in DeliveryTypes
  BY DeliveryRows
<1>2. next \in DeliveryTypes /\ next.status = status /\ next.attempts = delivery[d].attempts
  BY <1>1 DEF DeliveryTypes
<1>3. delivery' = [delivery EXCEPT ![d] =
                     IF delivery[d].status = "deleted" THEN delivery[d] ELSE next]
  BY DEF Complete
<1> HIDE DEF next
<1> QED BY <1>1, <1>2, <1>3

LEMMA CompletionKeeps ==
  ASSUME PushInv, NEW h \in handlers, CompleteDelivery(h) PROVE PushInv'
<1>1. DeliveriesTyped /\ WorkTyped /\ UndoubtedAreSound /\ RecipientTyped
  BY DEF PushInv, PushTypes
<1>2. /\ UNCHANGED <<account, pushEnabled, session, installation, notice, accepted>>
      /\ h.step \in {"sent", "invalid_token", "retry", "dead"}
      /\ h \in HandlerTypes /\ Of(h) \in Deliveries
  BY <1>1 DEF CompleteDelivery, recipientVars, WorkTyped
<1>3. RecipientTyped'
  BY <1>1, <1>2 DEF RecipientTyped
<1>4. delivery \in [Deliveries -> DeliveryTypes] /\ accepted \in [Deliveries -> Nat]
  BY <1>1, DeliveryRows
<1>5. accepted' \in [Deliveries -> Nat] /\ accepted' = accepted
  BY <1>2, <1>4
<1>6. \A step : [h EXCEPT !.step = step].step = step
                /\ [h EXCEPT !.step = step].claim = h.claim
  BY <1>2 DEF HandlerTypes
<1> DEFINE next == CASE h.step = "sent" -> "markSuccessful"
                     [] h.step = "invalid_token" -> "markInvalid"
                     [] OTHER -> "end"
<1>7. CASE /\ Complete(Of(h), Outcome(h), Outcome(h) # "retry") /\ GoOn(h, next)
           /\ UNCHANGED <<doubted, happened>>
  <2>1. Outcome(h) \in OpenStatuses \cup FinalStatuses
    BY <1>2 DEF Outcome, OpenStatuses, FinalStatuses
  <2>2. /\ delivery' \in [Deliveries -> DeliveryTypes]
        /\ \A d \in Deliveries : d # Of(h) => delivery'[d] = delivery[d]
        /\ delivery'[Of(h)].attempts = delivery[Of(h)].attempts
        /\ delivery[Of(h)].status = "deleted" => delivery'[Of(h)] = delivery[Of(h)]
        /\ delivery[Of(h)].status # "deleted" => delivery'[Of(h)].status = Outcome(h)
    <3>1. (Outcome(h) # "retry") \in BOOLEAN
      OBVIOUS
    <3> QED BY <1>1, <1>2, <1>7, <2>1, <3>1, Completed
  <2>3. next \in HandlerSteps \cup {"end"}
    BY <1>2 DEF HandlerSteps
  <2>4. ASSUME Of(h) \notin doubted
        PROVE  Sound(IF next = "end" THEN {} ELSE {[h EXCEPT !.step = next]},
                     delivery'[Of(h)], accepted[Of(h)])
    <3>1. Sound({h}, delivery[Of(h)], accepted[Of(h)])
      BY <1>1, <1>7, <2>3, <2>4, OnlyHandler
    <3>2. delivery[Of(h)].attempts \in Nat /\ h.claim[2] = delivery[Of(h)].attempts
      BY <1>2, <1>4, <3>1 DEF Sound, DeliveryTypes
    <3>3. h.step = "retry" /\ Outcome(h) = "retry" => delivery[Of(h)].attempts < MaxPushAttempts
      BY <3>2, MaxPushAttemptsAssumption DEF Outcome, Exhausted
    <3>4. CASE h.step = "sent"
      <4>1. Outcome(h) = "sent" /\ next = "markSuccessful"
        BY <3>4 DEF Outcome
      <4>2. PICK g : g = [h EXCEPT !.step = next] /\ g.step = next /\ g.claim = h.claim
        BY <1>6
      <4>3. Sound({g}, delivery'[Of(h)], accepted[Of(h)])
        BY <2>2, <3>1, <3>4, <4>1, <4>2 DEF Sound, FinalStatuses
      <4> QED BY <4>1, <4>2, <4>3
    <3>5. CASE h.step = "invalid_token"
      <4>1. Outcome(h) = "invalid_token" /\ next = "markInvalid"
        BY <3>5 DEF Outcome
      <4>2. PICK g : g = [h EXCEPT !.step = next] /\ g.step = next /\ g.claim = h.claim
        BY <1>6
      <4>3. Sound({g}, delivery'[Of(h)], accepted[Of(h)])
        BY <2>2, <3>1, <3>5, <4>1, <4>2 DEF Sound, FinalStatuses
      <4> QED BY <4>1, <4>2, <4>3
    <3>6. CASE h.step \in {"retry", "dead"}
      <4>1. next = "end" /\ Outcome(h) \in {"retry", "dead"}
            /\ (Outcome(h) = "retry" => h.step = "retry")
        BY <3>6 DEF Outcome
      <4>2. accepted[Of(h)] = 0 /\ delivery[Of(h)].attempts <= MaxPushAttempts
        BY <3>1, <3>6 DEF Sound
      <4> QED BY <2>2, <3>3, <4>1, <4>2 DEF Sound, FinalStatuses
    <3> QED BY <1>2, <3>4, <3>5, <3>6
  <2> HIDE DEF next
  <2> QED BY <1>2, <1>3, <1>5, <1>7, <2>2, <2>3, <2>4, HandlerKeeps
<1>8. CASE GoOn(h, "catch") /\ Trouble(h) /\ UNCHANGED delivery
  <2>1. Of(h) \in doubted' /\ doubted' = doubted \cup {Of(h)}
    BY <1>8 DEF Trouble
  <2>2. "catch" \in HandlerSteps
    BY DEF HandlerSteps
  <2>3. delivery' \in [Deliveries -> DeliveryTypes] /\ delivery' = delivery
    BY <1>4, <1>8
  <2> QED BY <1>3, <1>5, <1>8, <2>1, <2>2, <2>3, HandlerKeeps
<1> QED BY <1>7, <1>8 DEF CompleteDelivery

LEMMA MarkingKeeps ==
  ASSUME PushInv, NEW h \in handlers, MarkInstallation(h) PROVE PushInv'
<1>1. DeliveriesTyped /\ WorkTyped /\ UndoubtedAreSound /\ RecipientTyped
  BY DEF PushInv, PushTypes
<1>2. /\ UNCHANGED <<account, pushEnabled, session, notice, delivery, accepted>>
      /\ h.step \in {"markSuccessful", "markInvalid"}
      /\ h \in HandlerTypes /\ Of(h) \in Deliveries
  BY <1>1 DEF MarkInstallation, WorkTyped
<1>3. delivery \in [Deliveries -> DeliveryTypes] /\ accepted \in [Deliveries -> Nat]
  BY <1>1, DeliveryRows
<1>4. delivery' \in [Deliveries -> DeliveryTypes] /\ accepted' \in [Deliveries -> Nat]
      /\ delivery' = delivery /\ accepted' = accepted
  BY <1>2, <1>3
<1>5. RecipientTyped'
  <2>1. delivery[Of(h)].session \in PushSessions
    BY <1>2, <1>3 DEF DeliveryTypes
  <2>2. installation' \in [PushSessions -> {"none", "active", "revoked", "stale", "invalid"}]
    BY <1>1, <2>1 DEF MarkInstallation, RecipientTyped
  <2> QED BY <1>1, <1>2, <2>2 DEF RecipientTyped
<1>6. CASE GoOn(h, "end") /\ UNCHANGED <<doubted, happened>>
  <2>1. ASSUME Of(h) \notin doubted
        PROVE  Sound({}, delivery[Of(h)], accepted[Of(h)])
    <3>1. Sound({h}, delivery[Of(h)], accepted[Of(h)])
      BY <1>1, <1>6, <2>1, OnlyHandler
    <3> QED BY <1>2, <3>1 DEF Sound, FinalStatuses
  <2> QED BY <1>4, <1>5, <1>6, <2>1, HandlerKeeps
<1>7. CASE GoOn(h, "catch") /\ Trouble(h)
  <2>1. Of(h) \in doubted' /\ doubted' = doubted \cup {Of(h)}
    BY <1>7 DEF Trouble
  <2>2. "catch" \in HandlerSteps
    BY DEF HandlerSteps
  <2> QED BY <1>4, <1>5, <1>7, <2>1, <2>2, HandlerKeeps
<1> QED BY <1>6, <1>7 DEF MarkInstallation

\* A run that ends by itself or with its process leaves the deliveries of
\* the handlers that are gone doubted.
LEMMA LosingKeeps ==
  ASSUME PushInv, NEW lost \in SUBSET handlers, NEW w \in PushWorkers,
         \A h \in lost : h.worker = w,
         handlers' = handlers \ lost,
         doubted' = doubted \cup {Of(h) : h \in lost},
         batch' = [batch EXCEPT ![w] = {}],
         UNCHANGED <<account, pushEnabled, session, installation, notice, delivery,
                     accepted>>
  PROVE  PushInv'
<1>1. DeliveriesTyped /\ WorkTyped /\ UndoubtedAreSound /\ RecipientTyped
  BY DEF PushInv, PushTypes
<1>2. DeliveriesTyped' /\ RecipientTyped' /\ Deliveries' = Deliveries
  BY <1>1 DEF DeliveriesTyped, RecipientTyped, Deliveries
<1>3. WorkTyped'
  <2>1. ASSUME NEW v \in PushWorkers, NEW c \in batch'[v]
        PROVE  \E h \in handlers' : h.worker = v /\ h.claim = c
    <3>1. v # w /\ c \in batch[v]
      BY <1>1, <2>1 DEF WorkTyped
    <3> QED BY <1>1, <3>1 DEF WorkTyped
  <2>2. batch' \in [PushWorkers -> SUBSET (Nat \X Nat)]
    BY <1>1 DEF WorkTyped
  <2> QED BY <1>1, <1>2, <2>1, <2>2 DEF WorkTyped, Of
<1>4. UndoubtedAreSound'
  <2> SUFFICES ASSUME NEW d \in Deliveries, d \notin doubted'
               PROVE  Sound(HandlersOf(d)', delivery[d], accepted[d])
    BY <1>2 DEF UndoubtedAreSound
  <2>1. HandlersOf(d)' = HandlersOf(d)
    BY DEF HandlersOf, Of
  <2> QED BY <1>1, <2>1 DEF UndoubtedAreSound
<1> QED BY <1>2, <1>3, <1>4 DEF PushInv, PushTypes

LEMMA CatchKeeps ==
  ASSUME PushInv, NEW h \in handlers, CatchFailure(h) PROVE PushInv'
<1>1. DeliveriesTyped /\ WorkTyped /\ UndoubtedAreSound /\ RecipientTyped
  BY DEF PushInv, PushTypes
<1>2. /\ UNCHANGED <<account, pushEnabled, session, installation, notice, accepted>>
      /\ h.step = "catch" /\ h \in HandlerTypes /\ Of(h) \in Deliveries
  BY <1>1 DEF CatchFailure, recipientVars, WorkTyped
<1>3. CASE /\ Complete(Of(h), IF Exhausted(h) THEN "dead" ELSE "retry", FALSE)
           /\ GoOn(h, "end") /\ UNCHANGED <<doubted, happened>>
  <2> DEFINE status == IF Exhausted(h) THEN "dead" ELSE "retry"
  <2>1. status \in OpenStatuses \cup FinalStatuses
    BY DEF OpenStatuses, FinalStatuses
  <2> HIDE DEF status
  <2>2. /\ delivery' \in [Deliveries -> DeliveryTypes]
        /\ \A d \in Deliveries : d # Of(h) => delivery'[d] = delivery[d]
    BY <1>1, <1>2, <1>3, <2>1, Completed DEF status
  <2>3. accepted' \in [Deliveries -> Nat] /\ accepted' = accepted
    BY <1>1, <1>2, DeliveryRows
  <2>4. RecipientTyped'
    BY <1>1, <1>2 DEF RecipientTyped
  <2>5. Of(h) \in doubted
    <3>1. ASSUME Of(h) \notin doubted PROVE FALSE
      BY <1>1, <1>2, <1>3, <3>1, OnlyHandler DEF Sound
    <3> QED BY <3>1
  <2> QED BY <1>3, <2>2, <2>3, <2>4, <2>5, HandlerKeeps
<1>4. CASE /\ handlers' = handlers \ {h} /\ batch' = [batch EXCEPT ![h.worker] = {}]
           /\ Trouble(h) /\ UNCHANGED delivery
  <2>1. h.worker \in PushWorkers
    BY <1>2 DEF HandlerTypes
  <2>2. doubted' = doubted \cup {Of(g) : g \in {h}}
    BY <1>4 DEF Trouble
  <2>3. {h} \in SUBSET handlers /\ \A g \in {h} : g.worker = h.worker
    OBVIOUS
  <2> QED BY <1>2, <1>4, <2>1, <2>2, <2>3, LosingKeeps
<1> QED BY <1>3, <1>4 DEF CatchFailure

LEMMA CrashKeeps ==
  ASSUME PushInv, NEW w \in PushWorkers, CrashPushWorker(w) PROVE PushInv'
<1> DEFINE lost == {h \in handlers : h.worker = w}
<1>1. /\ lost \in SUBSET handlers /\ \A h \in lost : h.worker = w
      /\ handlers' = handlers \ lost /\ doubted' = doubted \cup {Of(h) : h \in lost}
      /\ batch' = [batch EXCEPT ![w] = {}]
  BY DEF CrashPushWorker
<1>2. UNCHANGED <<account, pushEnabled, session, installation, notice, delivery, accepted>>
  BY DEF CrashPushWorker, recipientVars
<1> HIDE DEF lost
<1> QED BY <1>1, <1>2, LosingKeeps

-----------------------------------------------------------------------------
(* PushDelivery: time and claims. *)

LEMMA TimeKeeps ==
  ASSUME PushInv, NEW d \in Deliveries, LeaseRunsOut(d) \/ RetryIsDue(d) PROVE PushInv'
<1>1. DeliveriesTyped /\ WorkTyped /\ UndoubtedAreSound /\ RecipientTyped
  BY DEF PushInv, PushTypes
<1>2. UNCHANGED <<account, pushEnabled, session, installation, notice, batch, handlers,
                  accepted>>
  BY DEF LeaseRunsOut, RetryIsDue, recipientVars, workVars
<1>3. /\ delivery \in [Deliveries -> DeliveryTypes] /\ accepted \in [Deliveries -> Nat]
  BY <1>1, DeliveryRows
<1>4. PICK row \in DeliveryTypes :
        /\ delivery' = [delivery EXCEPT ![d] = row]
        /\ row.status = delivery[d].status /\ row.attempts = delivery[d].attempts
        /\ RetryIsDue(d) => row.leaseOver = delivery[d].leaseOver
  <2>1. delivery[d] \in DeliveryTypes
    BY <1>3
  <2>2. CASE LeaseRunsOut(d) /\ ~RetryIsDue(d)
    <3> DEFINE row == [delivery[d] EXCEPT !.leaseOver = TRUE]
    <3>1. row \in DeliveryTypes /\ row.status = delivery[d].status
          /\ row.attempts = delivery[d].attempts
      BY <2>1 DEF DeliveryTypes
    <3>2. delivery' = [delivery EXCEPT ![d] = row]
      BY <2>2 DEF LeaseRunsOut
    <3> HIDE DEF row
    <3> QED BY <2>2, <3>1, <3>2
  <2>3. CASE RetryIsDue(d)
    <3> DEFINE row == [delivery[d] EXCEPT !.due = TRUE]
    <3>1. row \in DeliveryTypes /\ row.status = delivery[d].status
          /\ row.attempts = delivery[d].attempts /\ row.leaseOver = delivery[d].leaseOver
      BY <2>1 DEF DeliveryTypes
    <3>2. delivery' = [delivery EXCEPT ![d] = row]
      BY <2>3 DEF RetryIsDue
    <3> HIDE DEF row
    <3> QED BY <3>1, <3>2
  <2> QED BY <2>2, <2>3
<1>5. delivery' \in [Deliveries -> DeliveryTypes] /\ accepted' \in [Deliveries -> Nat]
      /\ accepted' = accepted /\ delivery'[d] = row
      /\ \A e \in Deliveries : e # d => delivery'[e] = delivery[e]
  BY <1>2, <1>3, <1>4
<1>6. DeliveriesTyped' /\ Deliveries' = Deliveries
  BY <1>1, <1>5, DeliveryRowsAgain
<1>7. /\ doubted' \in {doubted, doubted \cup {d}}
      /\ LeaseRunsOut(d) /\ d \notin doubted' /\ ~RetryIsDue(d) => HandlersOf(d) = {}
      /\ LeaseRunsOut(d) => delivery[d].status = "processing"
  BY DEF LeaseRunsOut, RetryIsDue, workVars, Handled, HandlersOf
<1>8. WorkTyped' /\ RecipientTyped'
  BY <1>1, <1>2, <1>6, <1>7 DEF WorkTyped, RecipientTyped, Of
<1>9. UndoubtedAreSound'
  <2> SUFFICES ASSUME NEW e \in Deliveries, e \notin doubted'
               PROVE  Sound(HandlersOf(e), delivery'[e], accepted[e])
    BY <1>2, <1>6 DEF UndoubtedAreSound, HandlersOf
  <2>1. Sound(HandlersOf(e), delivery[e], accepted[e])
    BY <1>1, <1>7 DEF UndoubtedAreSound
  <2>2. CASE e # d
    BY <1>5, <2>1, <2>2
  <2>3. CASE e = d /\ RetryIsDue(d)
    BY <1>4, <1>5, <2>1, <2>3 DEF Sound
  <2>4. CASE e = d /\ LeaseRunsOut(d) /\ ~RetryIsDue(d)
    BY <1>7, <2>1, <2>4 DEF Sound
  <2> QED BY <2>2, <2>3, <2>4
<1> QED BY <1>6, <1>8, <1>9 DEF PushInv, PushTypes

LEMMA ClaimKeeps ==
  ASSUME PushInv, NEW w \in PushWorkers, ClaimDeliveries(w) PROVE PushInv'
<1>1. DeliveriesTyped /\ WorkTyped /\ UndoubtedAreSound /\ RecipientTyped
  BY DEF PushInv, PushTypes
<1>2. UNCHANGED <<account, pushEnabled, session, installation, notice, accepted, doubted>>
  BY DEF ClaimDeliveries, recipientVars
<1>3. /\ delivery \in [Deliveries -> DeliveryTypes] /\ accepted \in [Deliveries -> Nat]
      /\ Deliveries \subseteq Nat
  BY <1>1, DeliveryRows
<1> DEFINE claims == {<<d, delivery[d].attempts + 1>> : d \in Claimed}
           new == {[claim |-> c, worker |-> w, step |-> "send"] : c \in claims}
<1>4. batch[w] = {} /\ batch' = [batch EXCEPT ![w] = claims] /\ handlers' = handlers \cup new
  BY DEF ClaimDeliveries
<1>5. ASSUME NEW d \in Deliveries
      PROVE  /\ delivery'[d] \in DeliveryTypes
             /\ Screened(d) => /\ delivery'[d].status = "dead"
                               /\ delivery'[d].attempts = delivery[d].attempts
             /\ d \in Claimed /\ ~Screened(d) =>
                  /\ delivery'[d].status = "processing" /\ delivery'[d].leaseOver = FALSE
                  /\ delivery'[d].attempts = delivery[d].attempts + 1
             /\ d \notin Claimed /\ ~Screened(d) => delivery'[d] = delivery[d]
  <2>1. delivery[d] \in DeliveryTypes
    BY <1>3
  <2>2. delivery'[d] =
          IF Screened(d) THEN [delivery[d] EXCEPT !.status = "dead"]
          ELSE IF d \in Claimed
            THEN [delivery[d] EXCEPT !.status = "processing", !.leaseOver = FALSE,
                                     !.attempts = delivery[d].attempts + 1]
            ELSE delivery[d]
    BY DEF ClaimDeliveries
  <2>3. CASE Screened(d)
    BY <2>1, <2>2, <2>3 DEF DeliveryTypes, OpenStatuses, FinalStatuses
  <2>4. CASE d \in Claimed /\ ~Screened(d)
    <3> DEFINE row == [delivery[d] EXCEPT !.status = "processing", !.leaseOver = FALSE,
                                          !.attempts = delivery[d].attempts + 1]
    <3>1. row \in DeliveryTypes /\ row.status = "processing" /\ row.leaseOver = FALSE
          /\ row.attempts = delivery[d].attempts + 1
      <4>1. delivery[d].attempts + 1 \in Nat /\ "processing" \in OpenStatuses
        BY <2>1 DEF DeliveryTypes, OpenStatuses
      <4> QED BY <2>1, <4>1 DEF DeliveryTypes
    <3>2. delivery'[d] = row
      BY <2>2, <2>4
    <3> HIDE DEF row
    <3> QED BY <2>4, <3>1, <3>2
  <2>5. CASE d \notin Claimed /\ ~Screened(d)
    BY <2>1, <2>2, <2>5
  <2> QED BY <2>3, <2>4, <2>5
<1>6. delivery' \in [Deliveries -> DeliveryTypes]
  BY <1>5 DEF ClaimDeliveries
<1>7. DeliveriesTyped' /\ Deliveries' = Deliveries
  BY <1>1, <1>2, <1>3, <1>6, DeliveryRowsAgain
<1>8. claims \subseteq Nat \X Nat /\ \A c \in claims : c[1] \in Claimed
  <2>1. \A d \in Claimed : d \in Nat /\ delivery[d].attempts + 1 \in Nat
    BY <1>3 DEF Claimed, DeliveryTypes
  <2> QED BY <1>3, <2>1
<1>9. /\ new \subseteq HandlerTypes
      /\ \A h \in new : Of(h) \in Claimed /\ h.step = "send" /\ h.worker = w
                        /\ h.claim = <<Of(h), delivery[Of(h)].attempts + 1>>
  BY <1>8 DEF HandlerTypes, HandlerSteps, Of
<1>10. WorkTyped'
  <2>1. handlers' \subseteq HandlerTypes /\ \A h \in handlers' : Of(h) \in Deliveries
    BY <1>1, <1>4, <1>9 DEF WorkTyped, Claimed
  <2>2. batch' \in [PushWorkers -> SUBSET (Nat \X Nat)]
    BY <1>1, <1>4, <1>8 DEF WorkTyped
  <2>3. ASSUME NEW v \in PushWorkers, NEW c \in batch'[v]
        PROVE  \E h \in handlers' : h.worker = v /\ h.claim = c
    <3>1. CASE v = w
      <4>1. [claim |-> c, worker |-> w, step |-> "send"] \in new
        BY <1>1, <1>4, <2>3, <3>1 DEF WorkTyped
      <4> QED BY <1>4, <3>1, <4>1
    <3>2. CASE v # w
      BY <1>1, <1>4, <2>3, <3>2 DEF WorkTyped
    <3> QED BY <3>1, <3>2
  <2> QED BY <1>1, <1>2, <1>7, <2>1, <2>2, <2>3 DEF WorkTyped, Of
<1>11. \A d \in Claimed : ~Screened(d)
  BY DEF Claimed, Screened
<1> HIDE DEF new
<1>12. ASSUME NEW d \in Deliveries \ Claimed PROVE HandlersOf(d)' = HandlersOf(d)
  BY <1>4, <1>9, <1>12 DEF HandlersOf, Of
<1>13. UndoubtedAreSound'
  <2> SUFFICES ASSUME NEW d \in Deliveries, d \notin doubted
               PROVE  Sound(HandlersOf(d)', delivery'[d], accepted[d])
    BY <1>2, <1>7 DEF UndoubtedAreSound
  <2>1. Sound(HandlersOf(d), delivery[d], accepted[d])
    BY <1>1 DEF UndoubtedAreSound
  <2>2. CASE Screened(d)
    <3>1. HandlersOf(d)' = HandlersOf(d)
      BY <1>11, <1>12, <2>2
    <3>2. delivery[d].status \in OpenStatuses
      BY <2>2 DEF Screened
    <3> QED BY <1>5, <2>1, <2>2, <3>1, <3>2 DEF Sound, OpenStatuses, FinalStatuses
  <2>3. CASE d \in Claimed
    <3>1. /\ delivery'[d].status = "processing" /\ delivery'[d].leaseOver = FALSE
          /\ delivery'[d].attempts = delivery[d].attempts + 1
      BY <1>5, <1>11, <2>3
    <3>2. Claimable(d) /\ delivery[d].attempts \in Nat
      BY <1>3, <2>3 DEF Claimed, DeliveryTypes
    <3>3. delivery[d].status \in {"pending", "retry"}
      BY <2>1, <3>2 DEF Claimable, Sound
    <3>4. /\ HandlersOf(d) = {} /\ accepted[d] = 0
          /\ delivery[d].attempts < MaxPushAttempts
      BY <2>1, <3>3 DEF Sound
    <3>5. \A h \in HandlersOf(d)' : h \in new /\ Of(h) = d
      BY <1>4, <3>4 DEF HandlersOf, Of
    <3>6. \A h \in HandlersOf(d)' :
            h = [claim |-> <<d, delivery[d].attempts + 1>>, worker |-> w, step |-> "send"]
      BY <1>9, <3>5 DEF new, Of
    <3>7. [claim |-> <<d, delivery[d].attempts + 1>>, worker |-> w, step |-> "send"]
            \in HandlersOf(d)'
      BY <1>4, <2>3 DEF new, HandlersOf, Of
    <3>8. PICK g : /\ HandlersOf(d)' = {g} /\ g.step = "send"
                   /\ g.claim[2] = delivery[d].attempts + 1
      BY <3>6, <3>7
    <3>9. delivery[d].attempts + 1 <= MaxPushAttempts
      BY <3>2, <3>4, MaxPushAttemptsAssumption
    <3> QED BY <3>1, <3>4, <3>8, <3>9 DEF Sound
  <2>4. CASE ~Screened(d) /\ d \notin Claimed
    BY <1>5, <1>12, <2>1, <2>4
  <2> QED BY <2>2, <2>3, <2>4
<1> QED BY <1>1, <1>2, <1>7, <1>10, <1>13 DEF PushInv, PushTypes, RecipientTyped

LEMMA PushInvNext == PushInv /\ [PushNext]_pushVars => PushInv'
<1> SUFFICES ASSUME PushInv, [PushNext]_pushVars PROVE PushInv'
  OBVIOUS
<1>1. CASE PushWork
  BY <1>1, ClaimKeeps, SendKeeps, CompletionKeeps, MarkingKeeps, CatchKeeps, TimeKeeps
  DEF PushWork
<1>2. CASE UNCHANGED pushVars
  <2>1. RecipientTyped' /\ UNCHANGED <<delivery, workVars>>
    BY <1>2 DEF PushInv, PushTypes, RecipientTyped, pushVars, recipientVars
  <2> QED BY <2>1, RecipientKeeps
<1> QED BY <1>1, <1>2, RecipientSteps, DeleteRecipientKeeps, EventsKeep, CrashKeeps
        DEF PushNext

LEMMA PushInvariant == PushSpec => []PushInv
BY PushInvInit, PushInvNext, PTL DEF PushSpec

\* Push deliveries: whatever runs, retries, registrations, preferences and
\* deletions overlap, on any number of processes and sessions, a push that
\* goes out twice or is tried too often had a trouble of its own.
THEOREM DuplicatesAreAlwaysExplained == PushSpec => []DuplicatesAreExplained
<1>1. PushInv => DuplicatesAreExplained
  <2> SUFFICES ASSUME PushInv, NEW d \in Deliveries, d \notin doubted
               PROVE  ~(accepted[d] > 1) /\ ~(delivery[d].attempts > MaxPushAttempts)
    BY DEF DuplicatesAreExplained
  <2>1. Sound(HandlersOf(d), delivery[d], accepted[d])
    BY DEF PushInv, UndoubtedAreSound
  <2>2. accepted[d] \in Nat /\ delivery[d].attempts \in Nat
    BY DeliveryRows DEF PushInv, PushTypes, DeliveryTypes
  <2> QED BY <2>1, <2>2, MaxPushAttemptsAssumption DEF Sound
<1> QED BY <1>1, PushInvariant, PTL

\* Push deliveries: every claim a run of a worker waits for has a handler
\* of that worker, and the rows keep their types.
THEOREM PushStateIsTyped == PushSpec => []PushTypeOK
<1>1. PushInv => PushTypeOK
  <2> SUFFICES ASSUME PushInv PROVE PushTypeOK
    OBVIOUS
  <2>1. RecipientTyped /\ DeliveriesTyped /\ WorkTyped
    BY DEF PushInv, PushTypes
  <2>2. \A d \in Deliveries : delivery[d] \in DeliveryTypes
    BY <2>1, DeliveryRows
  <2>3. \A n \in DOMAIN notice : notice[n] \in NoticeTypes
    BY <2>1, ElementOfSeq, LenProperties DEF RecipientTyped
  <2>4. DOMAIN accepted = Deliveries
    BY <2>1, LenProperties DEF DeliveriesTyped, Deliveries
  <2> QED BY <2>1, <2>2, <2>3, <2>4
          DEF PushTypeOK, RecipientTyped, WorkTyped, DeliveryTypes, NoticeTypes
<1> QED BY <1>1, PushInvariant, PTL

-----------------------------------------------------------------------------
(* PollMapRefresh: the inductive invariant. *)

CycleTypes ==
    [pc : {"idle", "scanning", "saving", "acking", "failing"},
     todo : Seq(MapPolls), after : Nat, seen : SUBSET MapVotes]

\* The votes of a poll that no rebuild of it was racing with
Settled(p) == VotesOf(p) \ racingVotes

\* A cycle on its first poll: it has read votes of that poll only, every
\* settled one up to the last one read, and all of them at the end.
CycleHolds(c) ==
    c.pc # "idle" =>
      /\ c.todo # <<>> /\ c.seen \subseteq VotesOf(Head(c.todo))
      /\ \A v \in Settled(Head(c.todo)) :
           /\ c.pc = "scanning" => v \in c.seen \/ v > c.after
           /\ c.pc \in {"saving", "acking"} => v \in c.seen
           /\ c.pc = "acking" => v \in cache[Head(c.todo)]

CyclesHold == \A w \in MapWorkers : CycleHolds(mapWorker[w])

\* Only an inserted vote is enqueued.
CallsHaveVotes == \A v \in MapVotes : voteCall[v] # "none" => votePoll[v] # NoPoll

MapInv == MapTypeOK /\ CyclesHold /\ CallsHaveVotes /\ OnlyRacingVotesAreForgotten

LEMMA MapInvInit == MapInit => MapInv
BY EmptySeq, NoPollAssumption
   DEF MapInit, MapInv, MapTypeOK, CyclesHold, CycleHolds, CallsHaveVotes,
       OnlyRacingVotesAreForgotten, IdleCycle, NoQueueRow, NoCache

-----------------------------------------------------------------------------
(* PollMapRefresh: what the steps are made of. *)

\* The polls of the selected positions, in any order of them
LEMMA SelectedPositions ==
  ASSUME MapTypeOK
  PROVE  /\ Selected \subseteq DOMAIN queueOrder /\ IsFiniteSet(Selected)
         /\ Cardinality(Selected) \in Nat
<1>1. DOMAIN queueOrder = 1..Len(queueOrder) /\ Len(queueOrder) \in Nat
  BY LenProperties DEF MapTypeOK
<1>2. IsFiniteSet(DOMAIN queueOrder)
  BY <1>1, FS_Interval
<1>3. Selected \in SUBSET DOMAIN queueOrder
  BY DEF Selected, Oldest
<1> QED BY <1>2, <1>3, FS_Subset, FS_CardinalityType

\* A page is not empty while votes are left, and has all of them up to its last.
LEMMA PageProperties ==
  ASSUME NEW w \in MapWorkers
  PROVE  LET p == Head(mapWorker[w].todo)
             rest == {v \in VotesOf(p) : v > mapWorker[w].after}
         IN  /\ NextPage(w) \subseteq rest
             /\ NextPage(w) = {} => rest = {}
             /\ NextPage(w) # {} =>
                  \E m \in NextPage(w) : \A v \in NextPage(w) : v <= m
             /\ \A m \in NextPage(w) : \A v \in rest : v <= m => v \in NextPage(w)
<1> DEFINE p == Head(mapWorker[w].todo)
           rest == {v \in VotesOf(p) : v > mapWorker[w].after}
           below(v) == {u \in rest : u < v}
<1>1. rest \in SUBSET MapVotes /\ rest \in SUBSET Nat
  BY MapVotesAssumption DEF VotesOf
<1>2. \A v : /\ below(v) \in SUBSET MapVotes /\ IsFiniteSet(below(v))
              /\ Cardinality(below(v)) \in Nat
  <2> TAKE v
  <2>1. below(v) \in SUBSET MapVotes
    BY <1>1
  <2> QED BY <2>1, MapVotesAssumption, FS_Subset, FS_CardinalityType
<1>3. NextPage(w) = {v \in rest : Cardinality(below(v)) < VotePageSize}
  BY DEF NextPage
<1>4. VotePageSize \in Nat /\ VotePageSize > 0
  BY MapConfigAssumption
<1>5. ASSUME rest # {} PROVE NextPage(w) # {}
  <2>1. PICK m \in rest : \A n \in rest : m <= n
    BY <1>1, <1>5, LeastExists
  <2>2. below(m) = {}
    BY <1>1, <2>1
  <2>3. Cardinality(below(m)) = 0
    BY <2>2, FS_EmptySet
  <2> QED BY <1>3, <1>4, <2>1, <2>3
<1>6. ASSUME NextPage(w) # {}
      PROVE  \E m \in NextPage(w) : \A v \in NextPage(w) : v <= m
  <2>1. NextPage(w) \in SUBSET MapVotes /\ NextPage(w) \in SUBSET Nat
    BY <1>1, <1>3
  <2>2. IsFiniteSet(NextPage(w))
    BY <2>1, MapVotesAssumption, FS_Subset
  <2> QED BY <1>6, <2>1, <2>2, GreatestExists
<1>7. ASSUME NEW m \in NextPage(w), NEW v \in rest, v <= m PROVE v \in NextPage(w)
  <2>1. below(v) \in SUBSET below(m)
    <3>1. m \in Nat /\ v \in Nat /\ \A u \in rest : u \in Nat
      BY <1>1, <1>3
    <3>2. \A u \in below(v) : u \in below(m)
      BY <3>1, <1>7
    <3> HIDE DEF below
    <3> QED BY <3>2
  <2>2. Cardinality(below(v)) <= Cardinality(below(m))
    BY <1>2, <2>1, FS_Subset
  <2>3. Cardinality(below(m)) < VotePageSize
    BY <1>3
  <2> HIDE DEF rest, below
  <2>4. Cardinality(below(v)) < VotePageSize
    BY <1>2, <1>4, <2>2, <2>3
  <2> QED BY <1>3, <1>7, <2>4
<1> QED BY <1>3, <1>5, <1>6, <1>7

\* Another event of a poll
LEMMA EnqueueTypes ==
  ASSUME MapTypeOK, NEW p \in MapPolls, Enqueue(p)
  PROVE  /\ queue' \in [MapPolls -> [events : Nat, due : BOOLEAN, cooling : BOOLEAN]]
         /\ queueOrder' \in Seq(MapPolls)
         /\ queue'[p].events > 0
         /\ \A q \in MapPolls \ {p} : queue'[q] = queue[q]
<1>1. queueOrder' \in Seq(MapPolls)
  BY AppendProperties DEF Enqueue, MapTypeOK
<1> QED BY <1>1 DEF Enqueue, MapTypeOK

\* The next poll of a cycle starts from nothing.
LEMMA NextPollHolds ==
  ASSUME MapTypeOK, NEW w \in MapWorkers, mapWorker[w].pc # "idle", NextPoll(w),
         CyclesHold
  PROVE  /\ mapWorker' \in [MapWorkers -> CycleTypes]
         /\ mapWorker'[w] = IdleCycle \/
              /\ mapWorker'[w].pc = "scanning" /\ mapWorker'[w].todo # <<>>
              /\ mapWorker'[w].seen = {} /\ mapWorker'[w].after = 0
         /\ \A x \in MapWorkers \ {w} : mapWorker'[x] = mapWorker[x]
<1> DEFINE c == mapWorker[w]
<1>1. c \in CycleTypes /\ mapWorker \in [MapWorkers -> CycleTypes]
  BY DEF MapTypeOK, CycleTypes
<1>2. c.todo \in Seq(MapPolls) /\ c.todo # <<>>
  BY <1>1 DEF CycleTypes, CyclesHold, CycleHolds
<1>3. Tail(c.todo) \in Seq(MapPolls) /\ (Len(c.todo) # 1 => Tail(c.todo) # <<>>)
  <2> HIDE DEF c
  <2>1. Tail(c.todo) \in Seq(MapPolls) /\ Len(Tail(c.todo)) = Len(c.todo) - 1
    BY <1>2, HeadTailProperties
  <2>2. Len(c.todo) \in Nat /\ Len(<<>>) = 0 /\ Len(c.todo) # 0
    BY <1>2, LenProperties, EmptySeq
  <2>3. ASSUME Len(c.todo) # 1 PROVE Len(Tail(c.todo)) # Len(<<>>)
    BY <2>1, <2>2, <2>3
  <2> QED BY <2>1, <2>3
<1>4. IdleCycle \in CycleTypes
  BY EmptySeq DEF IdleCycle, CycleTypes
<1>5. Rebuild(Tail(c.todo)) \in CycleTypes
  BY <1>3 DEF Rebuild, CycleTypes
<1> QED BY <1>1, <1>3, <1>4, <1>5 DEF NextPoll, Rebuild

\* A step that changes neither votes nor rows of the cache leaves the
\* cycles as they were that it does not touch, and the ones that start.
LEMMA OtherCyclesHold ==
  ASSUME CyclesHold, UNCHANGED <<votePoll, racingVotes, cache>>, MapTypeOK,
         \A w \in MapWorkers :
           \/ mapWorker'[w] = mapWorker[w] \/ mapWorker'[w] = IdleCycle
           \/ /\ mapWorker'[w].pc = "scanning" /\ mapWorker'[w].todo # <<>>
              /\ mapWorker'[w].seen = {} /\ mapWorker'[w].after = 0
           \/ mapWorker'[w] = [mapWorker[w] EXCEPT !.pc = "failing"] /\ mapWorker[w].pc # "idle"
  PROVE  CyclesHold'
<1>1. \A p : VotesOf(p)' = VotesOf(p) /\ Settled(p)' = Settled(p)
  BY DEF VotesOf, Settled
<1> SUFFICES ASSUME NEW w \in MapWorkers PROVE CycleHolds(mapWorker[w])'
  BY DEF CyclesHold
<1>2. CycleHolds(mapWorker[w]) /\ mapWorker[w] \in CycleTypes
  BY DEF CyclesHold, MapTypeOK, CycleTypes
<1>3. CASE mapWorker'[w] = mapWorker[w]
  BY <1>1, <1>2, <1>3 DEF CycleHolds
<1>4. CASE mapWorker'[w] = IdleCycle
  BY <1>4 DEF CycleHolds, IdleCycle
<1>5. CASE /\ mapWorker'[w].pc = "scanning" /\ mapWorker'[w].todo # <<>>
           /\ mapWorker'[w].seen = {} /\ mapWorker'[w].after = 0
  <2>1. \A v \in Settled(Head(mapWorker'[w].todo)) : v > 0
    BY MapVotesAssumption DEF Settled, VotesOf
  <2> QED BY <1>1, <1>5, <2>1 DEF CycleHolds
<1>6. CASE mapWorker'[w] = [mapWorker[w] EXCEPT !.pc = "failing"] /\ mapWorker[w].pc # "idle"
  <2>1. /\ mapWorker'[w].pc = "failing" /\ mapWorker'[w].todo = mapWorker[w].todo
        /\ mapWorker'[w].seen = mapWorker[w].seen
    BY <1>2, <1>6 DEF CycleTypes
  <2> QED BY <1>1, <1>2, <1>6, <2>1 DEF CycleHolds
<1> QED BY <1>3, <1>4, <1>5, <1>6

-----------------------------------------------------------------------------
(* PollMapRefresh: every step preserves the invariant. *)

LEMMA InsertMapVoteStep ==
  ASSUME MapInv, NEW v \in MapVotes, NEW p \in MapPolls, InsertMapVote(v, p)
  PROVE  MapInv'
<1>1. /\ \A q \in MapPolls \ {p} : VotesOf(q)' = VotesOf(q)
      /\ VotesOf(p)' = VotesOf(p) \cup {v} /\ v \notin VotesOf(p)
  BY NoPollAssumption DEF InsertMapVote, VotesOf, MapInv, MapTypeOK
<1>2. MapTypeOK'
  <2>1. \A q \in MapPolls : VotesOf(q) \subseteq VotesOf(q)'
    BY <1>1
  <2> QED BY <2>1 DEF InsertMapVote, MapInv, MapTypeOK
<1>3. CyclesHold'
  <2> SUFFICES ASSUME NEW w \in MapWorkers PROVE CycleHolds(mapWorker[w])'
    BY DEF CyclesHold
  <2>1. mapWorker'[w] = mapWorker[w] /\ CycleHolds(mapWorker[w]) /\ cache' = cache
    BY DEF InsertMapVote, MapInv, CyclesHold
  <2> DEFINE q == Head(mapWorker[w].todo)
  <2>2. ASSUME mapWorker[w].pc # "idle" PROVE q \in MapPolls
    BY <2>1, <2>2, HeadTailProperties DEF CycleHolds, MapInv, MapTypeOK
  <2>3. ASSUME mapWorker[w].pc # "idle"
        PROVE  Settled(q)' \subseteq Settled(q) /\ VotesOf(q) \subseteq VotesOf(q)'
    BY <1>1, <2>2, <2>3 DEF Settled, InsertMapVote, Rebuilding
  <2> QED BY <2>1, <2>3 DEF CycleHolds
<1>4. CallsHaveVotes'
  BY NoPollAssumption DEF InsertMapVote, MapInv, MapTypeOK, CallsHaveVotes
<1>5. OnlyRacingVotesAreForgotten'
  BY DEF InsertMapVote, MapInv, MapTypeOK, OnlyRacingVotesAreForgotten
<1> QED BY <1>2, <1>3, <1>4, <1>5 DEF MapInv

LEMMA EnqueueMapVoteStep ==
  ASSUME MapInv, NEW v \in MapVotes, EnqueueMapVote(v)
  PROVE  MapInv'
<1>1. votePoll[v] \in MapPolls
  BY DEF EnqueueMapVote, MapInv, CallsHaveVotes, MapTypeOK
<1>2. /\ UNCHANGED <<votePoll, racingVotes, cache, bootstrap, mapWorker>>
      /\ voteCall' \in [MapVotes -> {"none", "due", "done", "lost"}]
      /\ \A u \in MapVotes \ {v} : voteCall'[u] = voteCall[u]
      /\ voteCall[v] = "due"
  BY DEF EnqueueMapVote, MapInv, MapTypeOK
<1>3. \/ voteCall'[v] = "done" /\ Enqueue(votePoll[v])
      \/ voteCall'[v] = "lost" /\ UNCHANGED <<queue, queueOrder>>
  BY DEF EnqueueMapVote, MapInv, MapTypeOK
<1>4. /\ queue' \in [MapPolls -> [events : Nat, due : BOOLEAN, cooling : BOOLEAN]]
      /\ queueOrder' \in Seq(MapPolls)
      /\ \A q \in MapPolls : queue'[q].events > 0 \/ queue'[q] = queue[q]
      /\ voteCall'[v] = "done" => queue'[votePoll[v]].events > 0
  BY <1>1, <1>3, EnqueueTypes DEF MapInv, MapTypeOK
<1>5. MapTypeOK'
  BY <1>2, <1>4 DEF MapInv, MapTypeOK, VotesOf
<1>6. CyclesHold'
  BY <1>2, OtherCyclesHold DEF MapInv
<1>7. CallsHaveVotes'
  BY <1>1, <1>2, NoPollAssumption DEF MapInv, CallsHaveVotes
<1>8. OnlyRacingVotesAreForgotten'
  <2> SUFFICES ASSUME NEW u \in MapVotes, votePoll[u] # NoPoll, u \notin cache[votePoll[u]]
               PROVE  \/ queue'[votePoll[u]].events > 0 \/ voteCall'[u] \in {"due", "lost"}
                      \/ u \in racingVotes
    BY <1>2 DEF OnlyRacingVotesAreForgotten
  <2>1. \/ queue[votePoll[u]].events > 0 \/ voteCall[u] \in {"due", "lost"}
        \/ u \in racingVotes
    BY DEF MapInv, OnlyRacingVotesAreForgotten
  <2>2. votePoll[u] \in MapPolls
    BY DEF MapInv, MapTypeOK
  <2> QED BY <1>2, <1>3, <1>4, <2>1, <2>2
<1> QED BY <1>5, <1>6, <1>7, <1>8 DEF MapInv

LEMMA StartProcessStep ==
  ASSUME MapInv, NEW w \in MapWorkers, StartProcess(w)
  PROVE  MapInv'
<1>1. SetToSeq({p \in MapPolls : cache[p] = NoCache}) \in Seq(MapPolls)
  <2> DEFINE S == {p \in MapPolls : cache[p] = NoCache}
  <2>1. S \in SUBSET MapPolls /\ IsFiniteSet(S)
    BY MapPollsAssumption, FS_Subset
  <2>2. Seq(S) \subseteq Seq(MapPolls)
    BY <2>1, SeqDef
  <2> HIDE DEF S
  <2>3. SetToSeq(S) \in Seq(MapPolls)
    BY <2>1, <2>2, SetIsListed
  <2> QED BY <2>3 DEF S
<1>2. MapTypeOK'
  BY <1>1, EmptySeq DEF StartProcess, MapInv, MapTypeOK, IdleCycle, VotesOf
<1>3. CyclesHold'
  <2>1. \A x \in MapWorkers : mapWorker'[x] \in {mapWorker[x], IdleCycle}
    BY DEF StartProcess, MapInv, MapTypeOK
  <2> QED BY <2>1, OtherCyclesHold DEF StartProcess, MapInv
<1> QED BY <1>2, <1>3 DEF StartProcess, MapInv, CallsHaveVotes, OnlyRacingVotesAreForgotten

LEMMA BootstrapPollStep ==
  ASSUME MapInv, NEW w \in MapWorkers, BootstrapPoll(w)
  PROVE  MapInv'
<1>1. /\ UNCHANGED <<votePoll, voteCall, racingVotes, cache, mapWorker>>
      /\ Head(bootstrap[w]) \in MapPolls /\ Tail(bootstrap[w]) \in Seq(MapPolls)
  BY HeadTailProperties DEF BootstrapPoll, MapInv, MapTypeOK
<1>2. /\ queue' \in [MapPolls -> [events : Nat, due : BOOLEAN, cooling : BOOLEAN]]
      /\ queueOrder' \in Seq(MapPolls)
      /\ \A q \in MapPolls : queue'[q].events > 0 \/ queue'[q] = queue[q]
  BY <1>1, EnqueueTypes DEF BootstrapPoll, MapInv, MapTypeOK
<1>3. bootstrap' \in [MapWorkers -> Seq(MapPolls)]
  BY <1>1 DEF BootstrapPoll, MapInv, MapTypeOK
<1>4. MapTypeOK'
  BY <1>1, <1>2, <1>3 DEF MapInv, MapTypeOK, VotesOf
<1>5. CyclesHold'
  BY <1>1, OtherCyclesHold DEF MapInv
<1>6. OnlyRacingVotesAreForgotten'
  BY <1>1, <1>2 DEF MapInv, MapTypeOK, OnlyRacingVotesAreForgotten
<1> QED BY <1>1, <1>4, <1>5, <1>6 DEF MapInv, CallsHaveVotes

LEMMA StartCycleStep ==
  ASSUME MapInv, NEW w \in MapWorkers, StartCycle(w)
  PROVE  MapInv'
<1>1. PICK turn \in [1..Cardinality(Selected) -> Selected] :
        mapWorker' = [mapWorker EXCEPT ![w] =
                        Rebuild([i \in DOMAIN turn |-> queueOrder[turn[i]]])]
  BY DEF StartCycle
<1> DEFINE todo == [i \in DOMAIN turn |-> queueOrder[turn[i]]]
<1>2. todo \in Seq(MapPolls) /\ todo # <<>>
  <2>1. /\ Selected \subseteq DOMAIN queueOrder /\ IsFiniteSet(Selected)
        /\ Cardinality(Selected) \in Nat /\ Cardinality(Selected) # 0
    BY SelectedPositions, FS_EmptySet DEF MapInv, StartCycle
  <2>2. \A i \in 1..Cardinality(Selected) : queueOrder[turn[i]] \in MapPolls
    BY <2>1, LenProperties DEF MapInv, MapTypeOK
  <2>3. todo \in [1..Cardinality(Selected) -> MapPolls]
    BY <2>2
  <2>4. todo \in Seq(MapPolls) /\ Len(todo) = Cardinality(Selected)
    BY <2>1, <2>3, SeqDef, LenProperties
  <2> HIDE DEF todo
  <2> QED BY <2>1, <2>4, EmptySeq
<1>3. mapWorker' = [mapWorker EXCEPT ![w] =
        [pc |-> "scanning", todo |-> todo, after |-> 0, seen |-> {}]]
  BY <1>1 DEF Rebuild
<1> HIDE DEF todo
<1>4. MapTypeOK'
  BY <1>2, <1>3 DEF StartCycle, MapInv, MapTypeOK, VotesOf
<1>5. CyclesHold'
  <2>1. \A x \in MapWorkers :
           \/ mapWorker'[x] = mapWorker[x]
           \/ /\ mapWorker'[x].pc = "scanning" /\ mapWorker'[x].todo # <<>>
              /\ mapWorker'[x].seen = {} /\ mapWorker'[x].after = 0
    BY <1>2, <1>3 DEF MapInv, MapTypeOK
  <2> QED BY <2>1, OtherCyclesHold DEF StartCycle, MapInv
<1> QED BY <1>4, <1>5 DEF StartCycle, MapInv, CallsHaveVotes, OnlyRacingVotesAreForgotten

LEMMA ScanPageStep ==
  ASSUME MapInv, NEW w \in MapWorkers, ScanPage(w)
  PROVE  MapInv'
<1> DEFINE c == mapWorker[w]
           p == Head(c.todo)
           page == NextPage(w)
           rest == {v \in VotesOf(p) : v > c.after}
<1>1. /\ mapWorker \in [MapWorkers -> CycleTypes] /\ c \in CycleTypes
      /\ c.pc = "scanning" /\ CycleHolds(c)
  BY DEF ScanPage, MapInv, MapTypeOK, CycleTypes, CyclesHold
<1>2. /\ page \subseteq rest /\ (page = {} => rest = {})
      /\ page # {} => \E m \in page : \A v \in page : v <= m
      /\ \A m \in page : \A v \in rest : v <= m => v \in page
  BY PageProperties
<1> DEFINE after == IF page = {} THEN c.after
                    ELSE CHOOSE v \in page : \A u \in page : u <= v
<1>3. after \in Nat /\ (page # {} => after \in page)
  <2>1. page \in SUBSET Nat
    BY <1>2, MapVotesAssumption DEF VotesOf
  <2>2. ASSUME page # {} PROVE (CHOOSE v \in page : \A u \in page : u <= v) \in page
    BY <1>2, <2>2
  <2> QED BY <1>1, <2>1, <2>2 DEF CycleTypes
<1>4. mapWorker' = [mapWorker EXCEPT ![w] =
        [pc |-> IF page = {} THEN "saving" ELSE "scanning", todo |-> c.todo,
         after |-> after, seen |-> c.seen \cup page]]
  BY <1>1 DEF ScanPage, CycleTypes, LastPage
<1> HIDE DEF page, after
<1>5. page \subseteq MapVotes
  BY <1>2 DEF VotesOf
<1>6. MapTypeOK'
  <2>1. mapWorker' \in [MapWorkers -> CycleTypes]
    BY <1>1, <1>3, <1>4, <1>5 DEF CycleTypes
  <2>2. \A x \in MapWorkers : mapWorker'[x].pc # "idle" => mapWorker'[x].todo # <<>>
    BY <1>1, <1>4 DEF MapInv, MapTypeOK, CycleHolds
  <2> QED BY <2>1, <2>2 DEF ScanPage, MapInv, MapTypeOK, VotesOf, CycleTypes
<1>7. \A q : VotesOf(q)' = VotesOf(q) /\ Settled(q)' = Settled(q)
  BY DEF VotesOf, Settled, ScanPage
<1>8. CyclesHold'
  <2> SUFFICES ASSUME NEW x \in MapWorkers PROVE CycleHolds(mapWorker[x])'
    BY DEF CyclesHold
  <2>1. CASE x # w
    <3>1. mapWorker'[x] = mapWorker[x] /\ CycleHolds(mapWorker[x]) /\ cache' = cache
      BY <2>1 DEF ScanPage, MapInv, CyclesHold, MapTypeOK
    <3> QED BY <1>7, <3>1 DEF CycleHolds
  <2>2. CASE x = w
    <3>1. ASSUME NEW v \in Settled(p), page # {}
          PROVE  v \in c.seen \cup page \/ v > after
      <4>1. v \in VotesOf(p) /\ v \in Nat /\ (v \in c.seen \/ v > c.after)
        BY <1>1, MapVotesAssumption DEF CycleHolds, Settled, VotesOf
      <4>2. v \in c.seen \/ v \in rest
        BY <4>1
      <4>3. after \in page /\ after \in Nat
        BY <1>3, <3>1
      <4>4. ASSUME v \in rest, v <= after PROVE v \in page
        BY <1>2, <4>3, <4>4
      <4> HIDE DEF c, p, rest
      <4> QED BY <4>1, <4>2, <4>3, <4>4
    <3>2. ASSUME NEW v \in Settled(p), page = {} PROVE v \in c.seen
      BY <1>1, <1>2, <3>2 DEF CycleHolds, Settled
    <3>3. c.seen \cup page \subseteq VotesOf(p) /\ c.todo # <<>>
      BY <1>1, <1>2 DEF CycleHolds
    <3>4. /\ mapWorker'[w].todo = c.todo /\ mapWorker'[w].seen = c.seen \cup page
          /\ mapWorker'[w].after = after
          /\ mapWorker'[w].pc = IF page = {} THEN "saving" ELSE "scanning"
      BY <1>1, <1>4
    <3> HIDE DEF c, p
    <3> QED BY <1>7, <2>2, <3>1, <3>2, <3>3, <3>4 DEF CycleHolds, p
  <2> QED BY <2>1, <2>2
<1> QED BY <1>6, <1>8 DEF ScanPage, MapInv, CallsHaveVotes, OnlyRacingVotesAreForgotten

LEMMA SaveCacheStep ==
  ASSUME MapInv, NEW w \in MapWorkers, SaveCache(w)
  PROVE  MapInv'
<1> DEFINE c == mapWorker[w]
           p == Head(c.todo)
<1>1. /\ mapWorker \in [MapWorkers -> CycleTypes] /\ c \in CycleTypes
      /\ c.pc = "saving" /\ c.todo # <<>> /\ c.seen \subseteq VotesOf(p)
      /\ Settled(p) \subseteq c.seen
  BY DEF SaveCache, MapInv, MapTypeOK, CycleTypes, CyclesHold, CycleHolds
<1>2. p \in MapPolls
  BY <1>1, HeadTailProperties DEF CycleTypes
<1>3. /\ DOMAIN cache' = MapPolls /\ cache'[p] = c.seen
      /\ \A q \in MapPolls \ {p} : cache'[q] = cache[q]
  BY <1>2 DEF SaveCache, MapInv, MapTypeOK
<1>4. \A q : VotesOf(q)' = VotesOf(q) /\ Settled(q)' = Settled(q)
  BY DEF VotesOf, Settled, SaveCache
<1>5. /\ mapWorker' \in [MapWorkers -> CycleTypes] /\ mapWorker'[w] = [c EXCEPT !.pc = "acking"]
      /\ \A x \in MapWorkers \ {w} : mapWorker'[x] = mapWorker[x]
  BY <1>1 DEF SaveCache, CycleTypes
<1>6. /\ mapWorker'[w].pc = "acking" /\ mapWorker'[w].todo = c.todo
      /\ mapWorker'[w].seen = c.seen
  BY <1>1, <1>5 DEF CycleTypes
<1>7. MapTypeOK'
  <2>1. \A q \in MapPolls : cache'[q] = NoCache \/ cache'[q] \subseteq VotesOf(q)'
    BY <1>1, <1>3, <1>4 DEF MapInv, MapTypeOK
  <2>2. \A x \in MapWorkers : mapWorker'[x].pc # "idle" => mapWorker'[x].todo # <<>>
    BY <1>1, <1>5, <1>6 DEF MapInv, MapTypeOK
  <2> QED BY <1>3, <1>5, <2>1, <2>2 DEF SaveCache, MapInv, MapTypeOK, CycleTypes
<1>8. CyclesHold'
  <2> SUFFICES ASSUME NEW x \in MapWorkers PROVE CycleHolds(mapWorker[x])'
    BY DEF CyclesHold
  <2>1. CASE x # w
    <3> DEFINE q == Head(mapWorker[x].todo)
    <3>1. mapWorker'[x] = mapWorker[x] /\ CycleHolds(mapWorker[x])
      BY <1>5, <2>1 DEF MapInv, CyclesHold
    <3>2. ASSUME mapWorker[x].pc # "idle" PROVE q \in MapPolls
      BY <1>1, <3>1, <3>2, HeadTailProperties DEF CycleHolds, CycleTypes
    <3>3. ASSUME mapWorker[x].pc = "acking", NEW v \in Settled(q) PROVE v \in cache'[q]
      BY <1>1, <1>3, <3>1, <3>2, <3>3 DEF CycleHolds
    <3> QED BY <1>4, <3>1, <3>3 DEF CycleHolds
  <2>2. CASE x = w
    BY <1>1, <1>3, <1>4, <1>6, <2>2 DEF CycleHolds
  <2> QED BY <2>1, <2>2
<1>9. OnlyRacingVotesAreForgotten'
  <2> SUFFICES ASSUME NEW v \in MapVotes, votePoll[v] # NoPoll, v \notin cache'[votePoll[v]]
               PROVE  \/ queue[votePoll[v]].events > 0 \/ voteCall[v] \in {"due", "lost"}
                      \/ v \in racingVotes
    BY DEF OnlyRacingVotesAreForgotten, SaveCache
  <2>1. votePoll[v] \in MapPolls
    BY DEF MapInv, MapTypeOK
  <2>2. CASE votePoll[v] = p
    BY <1>1, <1>3, <2>2 DEF Settled, VotesOf
  <2>3. CASE votePoll[v] # p
    BY <1>3, <2>1, <2>3 DEF MapInv, OnlyRacingVotesAreForgotten
  <2> QED BY <2>2, <2>3
<1> QED BY <1>7, <1>8, <1>9 DEF SaveCache, MapInv, CallsHaveVotes

LEMMA AckPollStep ==
  ASSUME MapInv, NEW w \in MapWorkers, AckPoll(w)
  PROVE  MapInv'
<1> DEFINE c == mapWorker[w]
           p == Head(c.todo)
<1>1. /\ mapWorker \in [MapWorkers -> CycleTypes] /\ c \in CycleTypes /\ c.todo # <<>>
      /\ c.pc = "acking" /\ \A v \in Settled(p) : v \in cache[p]
  BY DEF AckPoll, MapInv, MapTypeOK, CycleTypes, CyclesHold, CycleHolds
<1>2. p \in MapPolls
  BY <1>1, HeadTailProperties DEF CycleTypes
<1>3. /\ queue' \in [MapPolls -> [events : Nat, due : BOOLEAN, cooling : BOOLEAN]]
      /\ \A q \in MapPolls \ {p} : queue'[q] = queue[q]
  BY <1>2 DEF AckPoll, MapInv, MapTypeOK
<1>4. /\ mapWorker' \in [MapWorkers -> CycleTypes]
      /\ mapWorker'[w] = IdleCycle \/
           /\ mapWorker'[w].pc = "scanning" /\ mapWorker'[w].todo # <<>>
           /\ mapWorker'[w].seen = {} /\ mapWorker'[w].after = 0
      /\ \A x \in MapWorkers \ {w} : mapWorker'[x] = mapWorker[x]
  BY <1>1, NextPollHolds DEF AckPoll, MapInv
<1>5. CyclesHold'
  BY <1>4, OtherCyclesHold DEF AckPoll, MapInv
<1>6. MapTypeOK'
  <2>1. \A x \in MapWorkers : mapWorker'[x].pc # "idle" => mapWorker'[x].todo # <<>>
    BY <1>5 DEF CyclesHold, CycleHolds
  <2> QED BY <1>3, <1>4, <2>1 DEF AckPoll, MapInv, MapTypeOK, CycleTypes, VotesOf
<1>7. OnlyRacingVotesAreForgotten'
  <2> SUFFICES ASSUME NEW v \in MapVotes, votePoll[v] # NoPoll, v \notin cache[votePoll[v]]
               PROVE  \/ queue'[votePoll[v]].events > 0 \/ voteCall[v] \in {"due", "lost"}
                      \/ v \in racingVotes
    BY DEF OnlyRacingVotesAreForgotten, AckPoll
  <2>1. votePoll[v] \in MapPolls
    BY DEF MapInv, MapTypeOK
  <2>2. CASE votePoll[v] = p
    BY <1>1, <2>2 DEF Settled, VotesOf
  <2>3. CASE votePoll[v] # p
    BY <1>3, <2>1, <2>3 DEF MapInv, OnlyRacingVotesAreForgotten
  <2> QED BY <2>2, <2>3
<1> QED BY <1>5, <1>6, <1>7 DEF AckPoll, MapInv, CallsHaveVotes

LEMMA FailRebuildStep ==
  ASSUME MapInv, NEW w \in MapWorkers, FailRebuild(w)
  PROVE  MapInv'
<1>1. mapWorker \in [MapWorkers -> CycleTypes] /\ mapWorker[w].pc # "idle"
  BY DEF FailRebuild, MapInv, MapTypeOK, CycleTypes
<1>2. /\ mapWorker'[w] = [mapWorker[w] EXCEPT !.pc = "failing"]
      /\ \A x \in MapWorkers \ {w} : mapWorker'[x] = mapWorker[x]
      /\ mapWorker' \in [MapWorkers -> CycleTypes]
  BY <1>1 DEF FailRebuild, CycleTypes
<1>3. CyclesHold'
  BY <1>1, <1>2, OtherCyclesHold DEF FailRebuild, MapInv
<1>4. MapTypeOK'
  <2>1. \A x \in MapWorkers : mapWorker'[x].pc # "idle" => mapWorker'[x].todo # <<>>
    BY <1>3 DEF CyclesHold, CycleHolds
  <2> QED BY <1>2, <2>1 DEF FailRebuild, MapInv, MapTypeOK, CycleTypes, VotesOf
<1> QED BY <1>3, <1>4
    DEF FailRebuild, MapInv, CallsHaveVotes, OnlyRacingVotesAreForgotten

\* Whatever becomes of due and cooling, events stay.
LEMMA RowsMove ==
  ASSUME MapInv, UNCHANGED <<votePoll, voteCall, racingVotes, queueOrder, cache, bootstrap>>,
         queue' \in [MapPolls -> [events : Nat, due : BOOLEAN, cooling : BOOLEAN]],
         \A q \in MapPolls : queue'[q].events = queue[q].events,
         mapWorker' \in [MapWorkers -> CycleTypes], CyclesHold'
  PROVE  MapInv'
<1>1. \A x \in MapWorkers : mapWorker'[x].pc # "idle" => mapWorker'[x].todo # <<>>
  BY DEF CyclesHold, CycleHolds
<1>2. MapTypeOK'
  BY <1>1 DEF MapInv, MapTypeOK, CycleTypes, VotesOf
<1>3. OnlyRacingVotesAreForgotten'
  BY DEF MapInv, MapTypeOK, OnlyRacingVotesAreForgotten
<1> QED BY <1>2, <1>3 DEF MapInv, CallsHaveVotes

LEMMA FailPollStep ==
  ASSUME MapInv, NEW w \in MapWorkers, FailPoll(w)
  PROVE  MapInv'
<1>1. /\ mapWorker' \in [MapWorkers -> CycleTypes]
      /\ mapWorker'[w] = IdleCycle \/
           /\ mapWorker'[w].pc = "scanning" /\ mapWorker'[w].todo # <<>>
           /\ mapWorker'[w].seen = {} /\ mapWorker'[w].after = 0
      /\ \A x \in MapWorkers \ {w} : mapWorker'[x] = mapWorker[x]
  BY NextPollHolds DEF FailPoll, MapInv
<1>2. CyclesHold'
  BY <1>1, OtherCyclesHold DEF FailPoll, MapInv
<1>3. /\ queue' \in [MapPolls -> [events : Nat, due : BOOLEAN, cooling : BOOLEAN]]
      /\ \A q \in MapPolls : queue'[q].events = queue[q].events
  <2> DEFINE p == Head(mapWorker[w].todo)
  <2>1. queue \in [MapPolls -> [events : Nat, due : BOOLEAN, cooling : BOOLEAN]]
    BY DEF MapInv, MapTypeOK
  <2>2. CASE queue' = queue
    BY <2>1, <2>2
  <2>3. CASE queue' = [queue EXCEPT ![p] = Cooled(@)]
    <3>1. \A q \in MapPolls : queue'[q] \in {queue[q], Cooled(queue[q])}
      BY <2>1, <2>3
    <3>2. \A q \in MapPolls :
            /\ Cooled(queue[q]) \in [events : Nat, due : BOOLEAN, cooling : BOOLEAN]
            /\ Cooled(queue[q]).events = queue[q].events
      BY <2>1 DEF Cooled
    <3>3. DOMAIN queue' = MapPolls /\ queue' = [q \in MapPolls |-> queue'[q]]
      BY <2>1, <2>3
    <3> QED BY <2>1, <3>1, <3>2, <3>3
  <2> QED BY <2>2, <2>3 DEF FailPoll
<1> QED BY <1>1, <1>2, <1>3, RowsMove DEF FailPoll

LEMMA MapTimeStep ==
  ASSUME MapInv, NEW p \in MapPolls, QueueAges(p) \/ CoolDown(p)
  PROVE  MapInv'
<1>1. /\ queue' \in [MapPolls -> [events : Nat, due : BOOLEAN, cooling : BOOLEAN]]
      /\ \A q \in MapPolls : queue'[q].events = queue[q].events
  <2>1. queue \in [MapPolls -> [events : Nat, due : BOOLEAN, cooling : BOOLEAN]]
    BY DEF MapInv, MapTypeOK
  <2>2. CASE QueueAges(p)
    BY <2>1, <2>2 DEF QueueAges
  <2>3. CASE CoolDown(p)
    BY <2>1, <2>3 DEF CoolDown
  <2> QED BY <2>2, <2>3
<1>2. UNCHANGED <<votePoll, voteCall, racingVotes, queueOrder, cache, bootstrap, mapWorker>>
  BY DEF QueueAges, CoolDown
<1>3. CyclesHold' /\ mapWorker' \in [MapWorkers -> CycleTypes]
  BY <1>2, OtherCyclesHold DEF MapInv, MapTypeOK, CycleTypes
<1> QED BY <1>1, <1>2, <1>3, RowsMove

LEMMA MapInvNext == MapInv /\ [MapNext]_mapVars => MapInv'
<1> SUFFICES ASSUME MapInv, [MapNext]_mapVars PROVE MapInv'
  OBVIOUS
<1>1. ASSUME NEW v \in MapVotes, EnqueueMapVote(v) PROVE MapInv'
  BY <1>1, EnqueueMapVoteStep
<1>2. ASSUME NEW v \in MapVotes, NEW p \in MapPolls, InsertMapVote(v, p) PROVE MapInv'
  BY <1>2, InsertMapVoteStep
<1>3. ASSUME NEW w \in MapWorkers, StartProcess(w) PROVE MapInv'
  BY <1>3, StartProcessStep
<1>4. ASSUME NEW w \in MapWorkers, BootstrapPoll(w) PROVE MapInv'
  BY <1>4, BootstrapPollStep
<1>5. ASSUME NEW w \in MapWorkers, MapWorkerStep(w) PROVE MapInv'
  BY <1>5, StartCycleStep, ScanPageStep, SaveCacheStep, AckPollStep, FailPollStep
     DEF MapWorkerStep
<1>6. ASSUME NEW w \in MapWorkers, FailRebuild(w) PROVE MapInv'
  BY <1>6, FailRebuildStep
<1>7. CASE MapTime
  BY <1>7, MapTimeStep DEF MapTime
<1>8. CASE UNCHANGED mapVars
  <2>1. UNCHANGED <<votePoll, voteCall, racingVotes, queue, queueOrder, cache,
                    bootstrap, mapWorker>>
    BY <1>8 DEF mapVars
  <2>2. CyclesHold' /\ mapWorker' \in [MapWorkers -> CycleTypes]
    BY <2>1, OtherCyclesHold DEF MapInv, MapTypeOK, CycleTypes
  <2> QED BY <2>1, <2>2, RowsMove DEF MapInv, MapTypeOK
<1> QED BY <1>1, <1>2, <1>3, <1>4, <1>5, <1>6, <1>7, <1>8 DEF MapNext

\* A vote that is missing on the map is queued, or its enqueuing was lost, or
\* it raced with a rebuild: pollMapRefreshWorker and ackPoll, for every
\* number of polls, votes, pages and workers.
THEOREM ForgottenVotesRaced == MapSpec => []OnlyRacingVotesAreForgotten
<1>1. MapInv => OnlyRacingVotesAreForgotten
  BY DEF MapInv
<1> QED BY <1>1, MapInvInit, MapInvNext, PTL DEF MapSpec

\* The queue, the caches and the cycles keep their types; a cache counts only
\* votes of its poll.
THEOREM MapStateIsTyped == MapSpec => []MapTypeOK
<1>1. MapInv => MapTypeOK
  BY DEF MapInv
<1> QED BY <1>1, MapInvInit, MapInvNext, PTL DEF MapSpec

-----------------------------------------------------------------------------
(* What is promised of the workers. *)

\* Of any number of reviews, notices, polls, votes and workers.
THEOREM WorkersAreTyped == ReviewSpec /\ PushSpec /\ MapSpec => []WorkersTypesOK
<1>1. ReviewTypeOK /\ PushTypeOK /\ MapTypeOK => WorkersTypesOK
  BY DEF WorkersTypesOK
<1> QED BY <1>1, ReviewStateIsTyped, PushStateIsTyped, MapStateIsTyped, PTL

\* Every push that goes out twice and every vote the map has lost has its
\* trouble or its race, of any number of workers that stop at any point.
THEOREM OnlyTroubleEverDoublesOrLoses == PushSpec /\ MapSpec => []OnlyTroubleDoublesOrLoses
<1>1. DuplicatesAreExplained /\ OnlyRacingVotesAreForgotten => OnlyTroubleDoublesOrLoses
  BY DEF OnlyTroubleDoublesOrLoses
<1> QED BY <1>1, DuplicatesAreAlwaysExplained, ForgottenVotesRaced, PTL
=============================================================================
