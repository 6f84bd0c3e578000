--------------------------- MODULE PollAuditProofs ---------------------------
(***************************************************************************)
(* What holds of a poll's votes, tally proofs, publications and chain      *)
(* accounts for any number of requests, handlers, provers and failures,    *)
(* and any size of a batch.                                                *)
(*                                                                         *)
(* The second half is about what is on record when it is anchored: what    *)
(* handlers have read is compared with the ledger, and that comparison     *)
(* survives until handlers race.  Its theorems have no hypotheses: they    *)
(* hold of every behaviour, and what they say of a state depends on the    *)
(* races that happened before it (raced).                                  *)
(***************************************************************************)
EXTENDS PollAudit, Integers, SequenceTheorems, FiniteSetTheorems, FunctionTheorems, TLAPS

-----------------------------------------------------------------------------
(* Batches of a sequence of records. *)

\* A batch starts one size before it ends.
LEMMA PreviousMultiple ==
  ASSUME NEW i \in Nat
  PROVE  (i - 1) * BatchSize = i * BatchSize - BatchSize /\ i * BatchSize \in Nat
  BY BatchSizeAssumption

\* The remainder of a division by the size of a batch.
LEMMA Division ==
  ASSUME NEW a \in Nat
  PROVE  /\ a \div BatchSize \in Nat
         /\ (a \div BatchSize) * BatchSize <= a
         /\ a < (a \div BatchSize) * BatchSize + BatchSize
  BY BatchSizeAssumption

\* Batch i starts within the first q batches exactly when it is one of them.
LEMMA MultipleOrder ==
  ASSUME NEW i \in Nat \ {0}, NEW q \in Nat
  PROVE  i * BatchSize - BatchSize < q * BatchSize <=> i <= q
  BY BatchSizeAssumption

\* A sequence has the batches that start within it.
LEMMA BatchCountMeaning ==
  ASSUME NEW s \in Seq(Requests)
  PROVE  /\ BatchCount(s) \in Nat
         /\ \A i \in Nat \ {0} : i <= BatchCount(s) <=> i * BatchSize - BatchSize < Len(s)
<1>1. Len(s) \in Nat
  BY LenProperties
<1> DEFINE a == Len(s) + BatchSize - 1
<1>2. a \in Nat /\ BatchCount(s) = a \div BatchSize
  BY <1>1, BatchSizeAssumption DEF BatchCount
<1> DEFINE q == a \div BatchSize
<1>3. q \in Nat /\ q * BatchSize <= a /\ a < q * BatchSize + BatchSize
  BY <1>2, Division
<1>4. ASSUME NEW i \in Nat \ {0}
      PROVE  i <= q <=> i * BatchSize - BatchSize < Len(s)
  <2>1. i * BatchSize - BatchSize < q * BatchSize <=> i <= q
    BY <1>3, MultipleOrder
  <2>2. i * BatchSize \in Nat /\ q * BatchSize \in Nat
    BY <1>3, PreviousMultiple
  <2>3. i <= q => i * BatchSize - BatchSize < Len(s)
    <3>1. i <= q => i * BatchSize <= q * BatchSize
      BY <1>3, BatchSizeAssumption
    <3> QED BY <3>1, <2>2, <1>1, <1>3, BatchSizeAssumption
  <2>4. i > q => i * BatchSize >= q * BatchSize + BatchSize
    BY <1>3, BatchSizeAssumption
  <2> QED BY <2>2, <2>3, <2>4, <1>1, <1>3, BatchSizeAssumption
<1> QED BY <1>2, <1>3, <1>4

\* A batch is made of votes.
LEMMA BatchIsSeq ==
  ASSUME NEW s \in Seq(Requests), NEW i \in Nat \ {0}
  PROVE  Batch(s, i) \in Seq(Requests)
<1>1. Len(s) \in Nat /\ \A j \in 1..Len(s) : s[j] \in Requests
  BY LenProperties, ElementOfSeq
<1>2. (i - 1) * BatchSize \in Nat /\ i * BatchSize \in Nat
  BY BatchSizeAssumption
<1> DEFINE m == (i - 1) * BatchSize + 1
           n == IF i * BatchSize < Len(s) THEN i * BatchSize ELSE Len(s)
<1>3. m \in Int /\ n \in Int /\ m >= 1 /\ n <= Len(s)
  BY <1>1, <1>2
<1>4. \A j \in m..n : s[j] \in Requests
  BY <1>1, <1>3
<1> HIDE DEF m, n
<1>5. SubSeq(s, m, n) \in Seq(Requests)
  BY <1>3, <1>4, SubSeqProperties
<1> QED BY <1>5 DEF Batch, m, n

\* A batch within the count has at least one vote.
LEMMA BatchNotEmpty ==
  ASSUME NEW s \in Seq(Requests), NEW i \in Nat \ {0}, i <= BatchCount(s)
  PROVE  Batch(s, i) # <<>>
<1>1. Len(s) \in Nat /\ \A j \in 1..Len(s) : s[j] \in Requests
  BY LenProperties, ElementOfSeq
<1>2. i * BatchSize - BatchSize < Len(s)
  BY BatchCountMeaning
<1>3. (i - 1) * BatchSize = i * BatchSize - BatchSize /\ i * BatchSize \in Nat
  BY PreviousMultiple
<1>4. (i - 1) * BatchSize \in Nat
  BY BatchSizeAssumption
<1> DEFINE m == (i - 1) * BatchSize + 1
           n == IF i * BatchSize < Len(s) THEN i * BatchSize ELSE Len(s)
<1>5. m \in Int /\ n \in Int /\ m >= 1 /\ n <= Len(s) /\ m <= n
  BY <1>1, <1>2, <1>3, <1>4, BatchSizeAssumption
<1>6. \A j \in m..n : s[j] \in Requests
  BY <1>1, <1>5
<1> HIDE DEF m, n
<1>7. Len(SubSeq(s, m, n)) # 0
  BY <1>5, <1>6, SubSeqProperties
<1>8. SubSeq(s, m, n) # <<>>
  <2>1. Len(<<>>) = 0
    BY EmptySeq
  <2> QED BY <1>7, <2>1, Zenon
<1> QED BY <1>8 DEF Batch, m, n

\* So has the last batch of what is not empty.
LEMMA LastBatchNotEmpty ==
  ASSUME NEW s \in Seq(Requests), s # <<>>
  PROVE  LastBatch(s) \in Seq(Requests) /\ LastBatch(s) # <<>>
<1>1. Len(s) \in Nat \ {0}
  BY EmptySeq
<1>2. 1 * BatchSize - BatchSize < Len(s)
  BY <1>1, BatchSizeAssumption
<1>3. BatchCount(s) \in Nat \ {0}
  BY <1>2, BatchCountMeaning
<1>4. BatchCount(s) <= BatchCount(s)
  BY <1>3
<1>5. Batch(s, BatchCount(s)) \in Seq(Requests)
  BY <1>3, BatchIsSeq
<1>6. Batch(s, BatchCount(s)) # <<>>
  BY <1>3, <1>4, BatchNotEmpty
<1> QED BY <1>5, <1>6 DEF LastBatch

\* A full batch is the same in sequences that agree up to its end.
LEMMA FullBatchStays ==
  ASSUME NEW s \in Seq(Requests), NEW t \in Seq(Requests), NEW i \in Nat \ {0},
         i * BatchSize <= Len(s), i * BatchSize <= Len(t),
         \A j \in 1..i * BatchSize : t[j] = s[j]
  PROVE  Batch(t, i) = Batch(s, i)
<1>1. /\ Len(s) \in Nat /\ Len(t) \in Nat
      /\ \A j \in 1..Len(s) : s[j] \in Requests
  BY LenProperties, ElementOfSeq
<1> DEFINE m == (i - 1) * BatchSize + 1
           n == i * BatchSize
<1>2. m \in Int /\ n \in Int /\ m >= 1 /\ n <= Len(s) /\ n <= Len(t)
  BY BatchSizeAssumption
<1>3. Batch(s, i) = SubSeq(s, m, n) /\ Batch(t, i) = SubSeq(t, m, n)
  <2>1. (IF n < Len(s) THEN n ELSE Len(s)) = n
    BY <1>1, <1>2
  <2>2. (IF n < Len(t) THEN n ELSE Len(t)) = n
    BY <1>1, <1>2
  <2> QED BY <2>1, <2>2 DEF Batch
<1>4. \A j \in 1..n : t[j] = s[j]
  OBVIOUS
<1> HIDE DEF m, n
<1>5. \A j \in m..n : s[j] \in Requests /\ t[j] = s[j]
  BY <1>1, <1>2, <1>4
<1>6. /\ SubSeq(s, m, n) \in Seq(Requests)
      /\ Len(SubSeq(s, m, n)) = IF m <= n THEN n - m + 1 ELSE 0
      /\ \A j \in 1..n - m + 1 : SubSeq(s, m, n)[j] = s[m + j - 1]
  BY <1>2, <1>5, SubSeqProperties
<1>7. /\ SubSeq(t, m, n) \in Seq(Requests)
      /\ Len(SubSeq(t, m, n)) = IF m <= n THEN n - m + 1 ELSE 0
      /\ \A j \in 1..n - m + 1 : SubSeq(t, m, n)[j] = t[m + j - 1]
  BY <1>2, <1>5, SubSeqProperties
<1>8. ASSUME NEW j \in 1..Len(SubSeq(s, m, n))
      PROVE  SubSeq(s, m, n)[j] = SubSeq(t, m, n)[j]
  <2>1. j \in 1..n - m + 1 /\ m + j - 1 \in m..n
    BY <1>2, <1>6
  <2> QED BY <2>1, <1>5, <1>6, <1>7
<1>9. SubSeq(s, m, n) = SubSeq(t, m, n)
  BY <1>6, <1>7, <1>8, SeqEqual
<1> QED BY <1>3, <1>9

\* A sequence that is as long as another one and has all its full batches.
KeepsBatches(t, s) ==
    /\ Len(s) <= Len(t)
    /\ \A i \in Nat \ {0} : i * BatchSize <= Len(s) => Batch(t, i) = Batch(s, i)

\* Every sequence keeps its own full batches, and those of the empty one.
LEMMA KeepsOwnBatches ==
  ASSUME NEW s \in Seq(Requests)
  PROVE  KeepsBatches(s, s) /\ KeepsBatches(s, <<>>)
<1>1. Len(s) \in Nat /\ Len(<<>>) = 0
  BY LenProperties, EmptySeq
<1>2. \A i \in Nat \ {0} : ~(i * BatchSize <= 0)
  BY BatchSizeAssumption
<1> QED BY <1>1, <1>2 DEF KeepsBatches

\* What keeps the batches of a sequence keeps those that this one keeps.
LEMMA KeepsBatchesOfBoth ==
  ASSUME NEW s \in Seq(Requests), NEW t \in Seq(Requests), NEW u \in Seq(Requests),
         KeepsBatches(u, t), KeepsBatches(t, s)
  PROVE  KeepsBatches(u, s)
<1>1. Len(s) \in Nat /\ Len(t) \in Nat /\ Len(u) \in Nat
  BY LenProperties
<1>2. \A i \in Nat \ {0} : i * BatchSize \in Nat
  BY PreviousMultiple
<1> QED BY <1>1, <1>2 DEF KeepsBatches

\* A batch that is full ends within its sequence.
LEMMA FullBatch ==
  ASSUME NEW s \in Seq(Requests), NEW i \in Nat \ {0}, Len(Batch(s, i)) = BatchSize
  PROVE  i * BatchSize <= Len(s)
<1>1. Len(s) \in Nat /\ \A j \in 1..Len(s) : s[j] \in Requests
  BY LenProperties, ElementOfSeq
<1>2. (i - 1) * BatchSize = i * BatchSize - BatchSize /\ i * BatchSize \in Nat
  BY PreviousMultiple
<1>3. (i - 1) * BatchSize \in Nat
  BY BatchSizeAssumption
<1> DEFINE m == (i - 1) * BatchSize + 1
           n == IF i * BatchSize < Len(s) THEN i * BatchSize ELSE Len(s)
<1>4. m \in Int /\ n \in Int /\ m >= 1 /\ n <= Len(s)
  BY <1>1, <1>2, <1>3
<1>5. \A j \in m..n : s[j] \in Requests
  BY <1>1, <1>4
<1>6. Batch(s, i) = SubSeq(s, m, n)
  BY DEF Batch
<1> HIDE DEF m, n
<1>7. Len(Batch(s, i)) = IF m <= n THEN n - m + 1 ELSE 0
  BY <1>4, <1>5, <1>6, SubSeqProperties
<1>8. n - m + 1 = BatchSize
  BY <1>4, <1>7, BatchSizeAssumption
<1> QED BY <1>1, <1>2, <1>3, <1>8, BatchSizeAssumption DEF m, n

\* Wherever a row is inserted, it is one of the rows then, and none is lost.
LEMMA RowInserted ==
  ASSUME ledger \in Seq(Requests), NEW r \in Requests, NEW k \in 0..Len(ledger)
  PROVE  /\ WithRow(r, k) \in Seq(Requests)
         /\ WithRow(r, k) # <<>>
         /\ Range(WithRow(r, k)) = Range(ledger) \cup {r}
<1> DEFINE a == SubSeq(ledger, 1, k)
           b == SubSeq(ledger, k + 1, Len(ledger))
           row == <<r>>
<1>1. Len(ledger) \in Nat /\ \A j \in 1..Len(ledger) : ledger[j] \in Requests
  BY LenProperties, ElementOfSeq
<1>2. a \in Seq(Requests) /\ b \in Seq(Requests)
  BY <1>1, SubSeqProperties
<1>3. row \in Seq(Requests) /\ Range(row) = {r} /\ Len(row) = 1
  BY DEF Range
<1>4. a \o b = ledger
  <2>1. SubSeq(ledger, 1, k) \o SubSeq(ledger, k + 1, Len(ledger))
          = SubSeq(ledger, 1, Len(ledger))
    <3>1. /\ 1 \in 1..Len(ledger) + 1 /\ k \in 1 - 1..Len(ledger)
          /\ Len(ledger) \in k..Len(ledger)
      BY <1>1
    <3> QED BY <3>1, ConcatAdjacentSubSeq
  <2>2. SubSeq(ledger, 1, Len(ledger)) = ledger
    BY SubSeqFull
  <2> QED BY <2>1, <2>2
<1>5. WithRow(r, k) = (a \o row) \o b
  BY DEF WithRow
<1> HIDE DEF a, b, row
<1>6. Range(ledger) = Range(a) \cup Range(b)
  BY <1>2, <1>4, RangeConcatenation
<1>7. a \o row \in Seq(Requests) /\ Len(a \o row) = Len(a) + 1
  <2>1. a \o row \in Seq(Requests) /\ Len(a \o row) = Len(a) + Len(row)
    BY <1>2, <1>3, ConcatProperties
  <2> QED BY <2>1, <1>3
<1>8. Range(a \o row) = Range(a) \cup {r}
  BY <1>2, <1>3, RangeConcatenation
<1>9. Range((a \o row) \o b) = Range(a \o row) \cup Range(b)
  BY <1>2, <1>7, RangeConcatenation
<1>10. /\ (a \o row) \o b \in Seq(Requests)
       /\ Len((a \o row) \o b) = Len(a \o row) + Len(b)
  BY <1>2, <1>7, ConcatProperties
<1>11. Len((a \o row) \o b) # 0
  BY <1>2, <1>7, <1>10, LenProperties
<1>12. WithRow(r, k) # <<>>
  <2>1. Len(<<>>) = 0
    BY EmptySeq
  <2> QED BY <1>5, <1>11, <2>1, Zenon
<1> QED BY <1>5, <1>6, <1>8, <1>9, <1>10, <1>12
\* The rows before the place of a new row keep theirs, those behind it move on.
LEMMA RowsAround ==
  ASSUME ledger \in Seq(Requests), NEW r \in Requests, NEW k \in 0..Len(ledger)
  PROVE  /\ Len(WithRow(r, k)) = Len(ledger) + 1
         /\ \A j \in 1..k : WithRow(r, k)[j] = ledger[j]
         /\ WithRow(r, k)[k + 1] = r
         /\ \A j \in k + 2..Len(ledger) + 1 : WithRow(r, k)[j] = ledger[j - 1]
<1> DEFINE a == SubSeq(ledger, 1, k)
           b == SubSeq(ledger, k + 1, Len(ledger))
           row == <<r>>
           n == Len(ledger)
<1>1. n \in Nat /\ k \in Nat /\ k <= n /\ \A j \in 1..n : ledger[j] \in Requests
  BY LenProperties, ElementOfSeq
<1>2. a \in Seq(Requests) /\ Len(a) = k /\ \A j \in 1..k : a[j] = ledger[j]
  <2>1. \A j \in 1..k : ledger[j] \in Requests
    BY <1>1
  <2>2. /\ SubSeq(ledger, 1, k) \in Seq(Requests)
        /\ Len(SubSeq(ledger, 1, k)) = IF 1 <= k THEN k - 1 + 1 ELSE 0
        /\ \A j \in 1..k - 1 + 1 : SubSeq(ledger, 1, k)[j] = ledger[1 + j - 1]
    BY <1>1, <2>1, SubSeqProperties
  <2> QED BY <1>1, <2>2
<1>3. b \in Seq(Requests) /\ Len(b) = n - k /\ \A j \in 1..n - k : b[j] = ledger[k + j]
  <2>1. \A j \in k + 1..n : ledger[j] \in Requests
    BY <1>1
  <2>2. /\ SubSeq(ledger, k + 1, n) \in Seq(Requests)
        /\ Len(SubSeq(ledger, k + 1, n)) = IF k + 1 <= n THEN n - (k + 1) + 1 ELSE 0
        /\ \A j \in 1..n - (k + 1) + 1 :
             SubSeq(ledger, k + 1, n)[j] = ledger[(k + 1) + j - 1]
    BY <1>1, <2>1, SubSeqProperties
  <2> QED BY <1>1, <2>2
<1>4. row \in Seq(Requests) /\ Len(row) = 1 /\ row[1] = r
  OBVIOUS
<1>5. WithRow(r, k) = (a \o row) \o b
  BY DEF WithRow
<1> HIDE DEF a, b, row, n
<1> DEFINE front == a \o row
<1>6. /\ front \in Seq(Requests) /\ Len(front) = k + 1
      /\ \A j \in 1..k : front[j] = ledger[j]
      /\ front[k + 1] = r
  <2>1. /\ a \o row \in Seq(Requests) /\ Len(a \o row) = Len(a) + Len(row)
        /\ \A j \in 1..Len(a) + Len(row) :
             (a \o row)[j] = IF j <= Len(a) THEN a[j] ELSE row[j - Len(a)]
    BY <1>2, <1>4, ConcatProperties
  <2> QED BY <1>1, <1>2, <1>4, <2>1
<1> HIDE DEF front
<1>7. /\ Len(front \o b) = Len(front) + Len(b)
      /\ \A j \in 1..Len(front) + Len(b) :
           (front \o b)[j] = IF j <= Len(front) THEN front[j] ELSE b[j - Len(front)]
  BY <1>3, <1>6, ConcatProperties
<1>8. WithRow(r, k) = front \o b /\ Len(front) + Len(b) = n + 1
  BY <1>1, <1>3, <1>5, <1>6 DEF front
<1>9. ASSUME NEW j \in 1..k PROVE WithRow(r, k)[j] = ledger[j]
  <2>1. j \in 1..Len(front) + Len(b) /\ j <= Len(front)
    BY <1>1, <1>6, <1>8
  <2> QED BY <1>6, <1>7, <1>8, <2>1
<1>10. WithRow(r, k)[k + 1] = r
  <2>1. k + 1 \in 1..Len(front) + Len(b) /\ k + 1 <= Len(front)
    BY <1>1, <1>6, <1>8
  <2> QED BY <1>6, <1>7, <1>8, <2>1
<1>11. ASSUME NEW j \in k + 2..n + 1 PROVE WithRow(r, k)[j] = ledger[j - 1]
  <2>1. /\ j \in 1..Len(front) + Len(b) /\ ~(j <= Len(front))
        /\ j - Len(front) \in 1..n - k /\ k + (j - Len(front)) = j - 1
    BY <1>1, <1>6, <1>8
  <2>2. WithRow(r, k)[j] = b[j - Len(front)]
    BY <1>7, <1>8, <2>1
  <2>3. b[j - Len(front)] = ledger[k + (j - Len(front))]
    BY <1>3, <2>1
  <2> QED BY <2>1, <2>2, <2>3
<1> QED BY <1>7, <1>8, <1>9, <1>10, <1>11 DEF n

\* A row that does not go before rows of a full batch leaves all full batches.
LEMMA RowKeepsBatches ==
  ASSUME ledger \in Seq(Requests), NEW r \in Requests, NEW k \in 0..Len(ledger),
         (Len(ledger) \div BatchSize) * BatchSize <= k
  PROVE  KeepsBatches(WithRow(r, k), ledger)
<1> DEFINE n == Len(ledger)
           q == n \div BatchSize
           t == WithRow(r, k)
<1>1. n \in Nat /\ k \in Nat /\ k <= n
  BY LenProperties
<1>2. t \in Seq(Requests) /\ Len(t) = n + 1 /\ \A j \in 1..k : t[j] = ledger[j]
  BY RowInserted, RowsAround
<1>3. q \in Nat /\ q * BatchSize \in Nat /\ n < q * BatchSize + BatchSize
  BY <1>1, Division, BatchSizeAssumption
<1>4. q * BatchSize <= k
  OBVIOUS
<1> HIDE DEF n, q, t
<1>5. ASSUME NEW i \in Nat \ {0}, i * BatchSize <= n PROVE Batch(t, i) = Batch(ledger, i)
  <2>1. i * BatchSize \in Nat
    BY PreviousMultiple
  <2>2. i <= q
    <3>1. i * BatchSize - BatchSize < q * BatchSize
      BY <1>1, <1>3, <1>5, <2>1, BatchSizeAssumption
    <3> QED BY <1>3, <3>1, MultipleOrder
  <2>3. i * BatchSize <= q * BatchSize
    BY <1>3, <2>2, BatchSizeAssumption
  <2>4. i * BatchSize <= k /\ i * BatchSize <= Len(t) /\ i * BatchSize <= Len(ledger)
    BY <1>1, <1>2, <1>3, <1>4, <1>5, <2>1, <2>3 DEF n
  <2>5. \A j \in 1..i * BatchSize : t[j] = ledger[j]
    BY <1>1, <1>2, <2>1, <2>4
  <2> QED BY <1>2, <2>4, <2>5, FullBatchStays
<1> QED BY <1>1, <1>2, <1>5 DEF KeepsBatches, n, t

\* A row of a voter who has none yet leaves everybody with one.
LEMMA RowOfNewVoter ==
  ASSUME ledger \in Seq(Requests), NEW r \in Requests, NEW k \in 0..Len(ledger),
         OneRowPerVoter, ~\E q \in Accepted : VoterOf[q] = VoterOf[r]
  PROVE  \A i, j \in DOMAIN WithRow(r, k) :
           VoterOf[WithRow(r, k)[i]] = VoterOf[WithRow(r, k)[j]] => i = j
<1> DEFINE n == Len(ledger)
           t == WithRow(r, k)
           old(i) == IF i <= k THEN i ELSE i - 1
<1>1. n \in Nat /\ k \in Nat /\ k <= n /\ DOMAIN ledger = 1..n
  BY LenProperties
<1>2. t \in Seq(Requests)
  BY RowInserted
<1>3. /\ Len(t) = n + 1
      /\ \A j \in 1..k : t[j] = ledger[j]
      /\ t[k + 1] = r
      /\ \A j \in k + 2..n + 1 : t[j] = ledger[j - 1]
  BY RowsAround
<1>4. DOMAIN t = 1..n + 1
  BY <1>2, <1>3, LenProperties
<1> HIDE DEF n, t
<1>5. ASSUME NEW i \in 1..n + 1
      PROVE  i = k + 1 \/ (old(i) \in 1..n /\ t[i] = ledger[old(i)])
  <2>1. CASE i <= k
    BY <1>1, <1>3, <2>1
  <2>2. CASE i >= k + 2
    <3>1. i \in k + 2..n + 1 /\ old(i) = i - 1 /\ i - 1 \in 1..n
      BY <1>1, <2>2
    <3> QED BY <1>3, <3>1
  <2> QED BY <1>1, <2>1, <2>2
<1>6. \A i \in 1..n : VoterOf[ledger[i]] # VoterOf[r]
  BY <1>1 DEF Accepted, Range
<1>7. \A i, j \in 1..n : VoterOf[ledger[i]] = VoterOf[ledger[j]] => i = j
  BY <1>1 DEF OneRowPerVoter
<1>8. \A i, j \in 1..n + 1 : i # k + 1 /\ j # k + 1 /\ old(i) = old(j) => i = j
  BY <1>1
<1> HIDE DEF old
<1>9. ASSUME NEW i \in 1..n + 1, NEW j \in 1..n + 1, VoterOf[t[i]] = VoterOf[t[j]]
      PROVE  i = j
  <2>1. CASE i = k + 1 /\ j = k + 1
    BY <2>1
  <2>2. CASE i # k + 1 /\ j = k + 1
    BY <1>3, <1>5, <1>6, <1>9, <2>2
  <2>3. CASE i = k + 1 /\ j # k + 1
    BY <1>3, <1>5, <1>6, <1>9, <2>3
  <2>4. CASE i # k + 1 /\ j # k + 1
    <3>1. old(i) \in 1..n /\ old(j) \in 1..n /\ t[i] = ledger[old(i)] /\ t[j] = ledger[old(j)]
      BY <1>5, <2>4
    <3>2. old(i) = old(j)
      BY <1>7, <1>9, <3>1
    <3> QED BY <1>8, <2>4, <3>2
  <2> QED BY <2>1, <2>2, <2>3, <2>4
<1> QED BY <1>4, <1>9 DEF t
-----------------------------------------------------------------------------
(* Types. *)

LocalTypes ==
    [loaded : SUBSET {"records", "proof"}, records : Seq(Requests), sealed : BOOLEAN,
     proof : Nat \cup {NoResult}, plan : SUBSET BatchIds, todo : SUBSET BatchIds,
     final : BOOLEAN]

LocalTyped == local \in [Actors -> LocalTypes]

FinalTypes == [root : Seq(Requests), votes : Seq(Requests), proof : Nat]

PcTyped == pc \in [Actors -> TallySteps \cup PublishSteps] /\ PcTypes

StateTypes ==
    /\ closed \in BOOLEAN /\ chainClosed \in BOOLEAN /\ swept \in BOOLEAN
    /\ arrival \in Seq(Requests)
    /\ vote \in [Requests -> VoteStates]
    /\ ledger \in Seq(Requests) /\ voteEvents \subseteq Requests
    /\ batchOf \in [Requests -> BatchIds \cup {0}]
    /\ job \in {"none", "queued", "failed", "succeeded"}
    /\ proofs \in Seq(Seq(Requests))
    /\ rootRow \in [BatchIds -> Seq(Requests) \cup {NoResult}]
    /\ rootEvents \subseteq [batch : BatchIds, root : Seq(Requests)]
    /\ chainPoll \in BOOLEAN
    /\ chainRoots \in Seq(Seq(Requests))
    /\ chainFinal \in FinalTypes \cup {NoResult}
    /\ failures \in 0..MaxFailures
    /\ raced \subseteq {"vote", "load", "submission"}

\* What a step takes over from those before it: a publication has records to
\* publish, its plan belongs to the publisher's steps, and a final result has a
\* tally proof.
Planning(a) ==
    pc[a] \in {"findPoll", "createPoll", "findRoot", "commit", "findFinal", "finalize",
              "insertRoot", "mark", "rootEvent", "finalEvent", "respond"}

LocalPrepared ==
    \A a \in Actors :
        /\ local[a].proof # NoResult => local[a].proof \in DOMAIN proofs
        /\ ~Planning(a) => local[a].plan = {} /\ local[a].todo = {} /\ ~local[a].final
        /\ local[a].final => local[a].proof # NoResult
        /\ pc[a] \in {"findFinal", "finalize", "finalEvent"} => local[a].final
        /\ pc[a] \in {"findFinal", "finalize"} => local[a].todo = {}
        /\ Planning(a) \/ pc[a] \in {"reload", "roots"} => local[a].records # <<>>
        /\ a \in Publishers /\ pc[a] \in {"reading", "verifying", "inserting"}
             => local[a].records # <<>>
        /\ local[a].records # <<>> => ledger # <<>>

ResultHasProof == chainFinal # NoResult => chainFinal.proof \in DOMAIN proofs

Prepared == LocalPrepared /\ ResultHasProof

Types == LocalTyped /\ PcTyped /\ StateTypes /\ Prepared

\* A handler that starts has the type of a handler.
LEMMA FreshTyped == Fresh \in LocalTypes
  BY DEF Fresh, LocalTypes

\* The initial state has its types.
LEMMA TypesInit ==
  Init => Types
<1> SUFFICES ASSUME Init PROVE Types
  OBVIOUS
<1>1. LocalTyped
  BY FreshTyped DEF Init, LocalTyped
<1>2. StateTypes
  <2>1. vote \in [Requests -> VoteStates] /\ batchOf \in [Requests -> BatchIds \cup {0}]
    BY DEF Init, VoteStates
  <2>2. rootRow \in [BatchIds -> Seq(Requests) \cup {NoResult}]
    BY DEF Init
  <2>3. /\ arrival \in Seq(Requests) /\ ledger \in Seq(Requests)
        /\ proofs \in Seq(Seq(Requests)) /\ chainRoots \in Seq(Seq(Requests))
    BY DEF Init
  <2>4. failures \in 0..MaxFailures
    BY FailuresAssumption DEF Init
  <2>5. /\ closed \in BOOLEAN /\ chainClosed \in BOOLEAN /\ swept \in BOOLEAN
        /\ voteEvents \subseteq Requests /\ job \in {"none", "queued", "failed", "succeeded"}
        /\ rootEvents \subseteq [batch : BatchIds, root : Seq(Requests)]
        /\ chainPoll \in BOOLEAN /\ chainFinal \in FinalTypes \cup {NoResult}
        /\ raced \subseteq {"vote", "load", "submission"}
    BY DEF Init
  <2> QED BY <2>1, <2>2, <2>3, <2>4, <2>5, Zenon DEF StateTypes
<1>3. Prepared
  BY DEF Init, Prepared, LocalPrepared, ResultHasProof, Planning, Fresh
<1>4. PcTyped
  BY DEF Init, PcTyped, PcTypes, TallySteps, PublishSteps, Actors
<1> QED BY <1>1, <1>2, <1>3, <1>4 DEF Types

\* The fields of what a handler has read.
LEMMA LocalFields ==
  ASSUME LocalTyped, NEW a \in Actors
  PROVE  /\ local[a] \in LocalTypes
         /\ local[a].loaded \in SUBSET {"records", "proof"}
         /\ local[a].records \in Seq(Requests)
         /\ local[a].sealed \in BOOLEAN
         /\ local[a].proof \in Nat \cup {NoResult}
         /\ local[a].plan \in SUBSET BatchIds
         /\ local[a].todo \in SUBSET BatchIds
         /\ local[a].final \in BOOLEAN
<1>1. local[a] \in LocalTypes
  BY DEF LocalTyped
<1> QED BY <1>1 DEF LocalTypes

\* Every step keeps what handlers have read typed.
LEMMA LocalTypedNext ==
  ASSUME Types, [Next]_vars
  PROVE  LocalTyped'
<1> USE DEF Types, Actors
<1>1. ASSUME NEW a \in Actors, Return(a) PROVE LocalTyped'
  BY <1>1, FreshTyped DEF Return, LocalTyped
<1>2. ASSUME NEW x \in Publishers, BeginRecording(x) PROVE LocalTyped'
  <2>1. local[x] \in LocalTypes /\ local[x].plan \in SUBSET BatchIds
    BY LocalFields
  <2>2. [local[x] EXCEPT !.todo = local[x].plan] \in LocalTypes
    BY <2>1 DEF LocalTypes
  <2> QED BY <1>2, <2>2 DEF BeginRecording, LocalTyped
<1>3. ASSUME NEW x \in Publishers, NEW i \in local[x].todo,
             local' = [local EXCEPT ![x].todo = @ \ {i}]
      PROVE  LocalTyped'
  <2>1. local[x] \in LocalTypes /\ local[x].todo \in SUBSET BatchIds
    BY LocalFields
  <2>2. [local[x] EXCEPT !.todo = @ \ {i}] \in LocalTypes
    BY <2>1 DEF LocalTypes
  <2> QED BY <1>3, <2>2 DEF LocalTyped
<1>4. ASSUME UNCHANGED local PROVE LocalTyped'
  BY <1>4 DEF LocalTyped
<1>5. ASSUME NEW r \in Requests, BeginVote(r) PROVE LocalTyped'
  BY <1>5, <1>1, <1>2, <1>4 DEF BeginVote
<1>6. ASSUME NEW r \in Requests, InsertVote(r) PROVE LocalTyped'
  BY <1>6, <1>1, <1>2, <1>4 DEF InsertVote, InsertRow
<1>7. ASSUME NEW r \in Requests, AppendVoteAccepted(r) PROVE LocalTyped'
  BY <1>7, <1>1, <1>2, <1>4 DEF AppendVoteAccepted
<1>8. ASSUME NEW r \in Requests, LoseRequest(r) PROVE LocalTyped'
  BY <1>8, <1>1, <1>2, <1>4 DEF LoseRequest
<1>9. ASSUME ClosePoll PROVE LocalTyped'
  BY <1>9, <1>1, <1>2, <1>4 DEF ClosePoll
<1>10. ASSUME ChainReachesClose PROVE LocalTyped'
  BY <1>10, <1>1, <1>2, <1>4 DEF ChainReachesClose
<1>11. ASSUME Sweep PROVE LocalTyped'
  BY <1>11, <1>1, <1>2, <1>4 DEF Sweep
<1>12. ASSUME NEW w \in Provers, BeginJob(w) PROVE LocalTyped'
  BY <1>12, <1>1, <1>2, <1>4 DEF BeginJob
<1>13. ASSUME NEW w \in Provers, CompleteJob(w) PROVE LocalTyped'
  BY <1>13, <1>1, <1>2, <1>4 DEF CompleteJob
<1>14. ASSUME NEW s \in Submitters, BeginSubmission(s) PROVE LocalTyped'
  BY <1>14, <1>1, <1>2, <1>4 DEF BeginSubmission
<1>15. ASSUME NEW a \in Actors, ReadVotes(a) PROVE LocalTyped'
  <2>1. local[a] \in LocalTypes
    BY LocalFields
  <2>2. [local[a] EXCEPT !.records = ledger] \in LocalTypes
    BY <2>1 DEF LocalTypes, StateTypes
  <2>3. CASE local' = [local EXCEPT ![a].records = ledger]
    BY <2>2, <2>3 DEF LocalTyped
  <2>4. CASE Return(a)
    BY <2>4, <1>1
  <2> QED BY <1>15, <2>3, <2>4 DEF ReadVotes, GiveUp
<1>16. ASSUME NEW a \in Actors, VerifyTally(a) PROVE LocalTyped'
  BY <1>16, <1>1, <1>2, <1>4 DEF VerifyTally, GiveUp
<1>17. ASSUME NEW a \in Actors, InsertTally(a) PROVE LocalTyped'
  BY <1>17, <1>1, <1>2, <1>4 DEF InsertTally
<1>18. ASSUME NEW a \in Actors, Abort(a) PROVE LocalTyped'
  BY <1>18, <1>1, <1>2, <1>4 DEF Abort
<1>19. ASSUME NEW x \in Publishers, OwnerPublishes(x) PROVE LocalTyped'
  BY <1>19, <1>1, <1>2, <1>4 DEF OwnerPublishes
<1>20. ASSUME NEW x \in Publishers, AutoPublish(x) PROVE LocalTyped'
  BY <1>20, <1>1, <1>2, <1>4 DEF AutoPublish
<1>21. ASSUME NEW x \in Publishers, LoadRecords(x) PROVE LocalTyped'
  <2>1. local[x] \in LocalTypes
    BY LocalFields
  <2>2. [local[x] EXCEPT !.records = ledger, !.loaded = @ \cup {"records"}] \in LocalTypes
    BY <2>1 DEF LocalTypes, StateTypes
  <2> QED BY <1>21, <2>2 DEF LoadRecords, LocalTyped
<1>22. ASSUME NEW x \in Publishers, LoadProof(x) PROVE LocalTyped'
  <2>0. LatestProof \in Nat \cup {NoResult}
    BY DEF LatestProof, StateTypes
  <2>1. local[x] \in LocalTypes
    BY LocalFields
  <2>2. [local[x] EXCEPT !.proof = LatestProof, !.loaded = @ \cup {"proof"}] \in LocalTypes
    BY <2>0, <2>1 DEF LocalTypes
  <2> QED BY <1>22, <2>2 DEF LoadProof, LocalTyped
<1>23. ASSUME NEW x \in Publishers, BuildBatches(x) PROVE LocalTyped'
  <2>1. local[x] \in LocalTypes
    BY LocalFields
  <2>2. [local[x] EXCEPT !.sealed = closed, !.loaded = {}] \in LocalTypes
    BY <2>1 DEF LocalTypes, StateTypes
  <2> QED BY <1>23, <2>2 DEF BuildBatches, LocalTyped
<1>24. ASSUME NEW x \in Publishers, CheckMaterial(x) PROVE LocalTyped'
  BY <1>24, <1>1, <1>2, <1>4 DEF CheckMaterial
<1>25. ASSUME NEW x \in Publishers, PlanCommits(x) PROVE LocalTyped'
  <2> DEFINE l == local[x]
             missing == {i \in BatchIds :
                           i <= BatchCount(l.records) /\ rootRow[i] = NoResult}
             plan == {i \in missing : Sealed(l, i)}
             final == closed /\ missing = plan /\ l.proof # NoResult
  <2>1. l \in LocalTypes
    BY LocalFields
  <2>2. plan \in SUBSET BatchIds /\ final \in BOOLEAN
    OBVIOUS
  <2>3. local' = [local EXCEPT ![x].plan = plan, ![x].todo = plan, ![x].final = final]
    BY <1>25 DEF PlanCommits
  <2> HIDE DEF plan, final
  <2>4. [l EXCEPT !.plan = plan, !.todo = plan, !.final = final] \in LocalTypes
    BY <2>1, <2>2 DEF LocalTypes
  <2> QED BY <2>3, <2>4 DEF LocalTyped
<1>26. ASSUME NEW x \in Publishers, FindPoll(x) PROVE LocalTyped'
  BY <1>26, <1>1, <1>2, <1>4 DEF FindPoll
<1>27. ASSUME NEW x \in Publishers, CreatePoll(x) PROVE LocalTyped'
  BY <1>27, <1>1, <1>2, <1>4 DEF CreatePoll
<1>28. ASSUME NEW x \in Publishers, FindRoot(x) PROVE LocalTyped'
  BY <1>28, <1>1, <1>2, <1>3, <1>4 DEF FindRoot, First
<1>29. ASSUME NEW x \in Publishers, CommitRoots(x) PROVE LocalTyped'
  BY <1>29, <1>1, <1>2, <1>3, <1>4 DEF CommitRoots, First
<1>30. ASSUME NEW x \in Publishers, FindFinal(x) PROVE LocalTyped'
  BY <1>30, <1>1, <1>2, <1>4 DEF FindFinal
<1>31. ASSUME NEW x \in Publishers, FinalizePoll(x) PROVE LocalTyped'
  BY <1>31, <1>1, <1>2, <1>4 DEF FinalizePoll
<1>32. ASSUME NEW x \in Publishers, InsertRoot(x) PROVE LocalTyped'
  BY <1>32, <1>1, <1>2, <1>4 DEF InsertRoot
<1>33. ASSUME NEW x \in Publishers, MarkBatch(x) PROVE LocalTyped'
  BY <1>33, <1>1, <1>2, <1>4 DEF MarkBatch
<1>34. ASSUME NEW x \in Publishers, RecordRootEvent(x) PROVE LocalTyped'
  BY <1>34, <1>1, <1>2, <1>3, <1>4 DEF RecordRootEvent, First
<1>35. ASSUME NEW x \in Publishers, RecordFinalEvent(x) PROVE LocalTyped'
  BY <1>35, <1>1, <1>2, <1>4 DEF RecordFinalEvent
<1>36. ASSUME NEW x \in Publishers, Respond(x) PROVE LocalTyped'
  BY <1>36, <1>1, <1>2, <1>4 DEF Respond
<1>37. CASE UNCHANGED vars
  BY <1>37, <1>4 DEF vars
<1> QED
  BY <1>5, <1>6, <1>7, <1>8, <1>9, <1>10, <1>11, <1>12, <1>13, <1>14, <1>15, <1>16,
     <1>17, <1>18, <1>19, <1>20, <1>21, <1>22, <1>23, <1>24, <1>25, <1>26, <1>27,
     <1>28, <1>29, <1>30, <1>31, <1>32, <1>33, <1>34, <1>35, <1>36, <1>37
     DEF Next, VoteStep, TallyStep, PublishStep

\* Every step leads a handler to a step of its own kind.
LEMMA PcTypedNext ==
  ASSUME Types, [Next]_vars
  PROVE  PcTyped'
<1> USE DEF Types, PcTyped, PcTypes, TallySteps, PublishSteps, Actors, voteVars, tallyVars,
            dbVars, chainVars, clockVars
<1>1. ASSUME NEW a \in Actors, Return(a) PROVE PcTyped'
  BY <1>1, ActorsAssumption DEF Return, GoTo
<1>2. ASSUME NEW x \in Publishers, BeginRecording(x) PROVE PcTyped'
  BY <1>2, ActorsAssumption DEF BeginRecording, GoTo
<1>3. ASSUME NEW r \in Requests, BeginVote(r) PROVE PcTyped'
  BY <1>3 DEF BeginVote
<1>4. ASSUME NEW r \in Requests, InsertVote(r) PROVE PcTyped'
  BY <1>4 DEF InsertVote, InsertRow
<1>5. ASSUME NEW r \in Requests, AppendVoteAccepted(r) PROVE PcTyped'
  BY <1>5 DEF AppendVoteAccepted
<1>6. ASSUME NEW r \in Requests, LoseRequest(r) PROVE PcTyped'
  BY <1>6 DEF LoseRequest
<1>7. ASSUME ClosePoll PROVE PcTyped'
  BY <1>7 DEF ClosePoll
<1>8. ASSUME ChainReachesClose PROVE PcTyped'
  BY <1>8 DEF ChainReachesClose
<1>9. ASSUME Sweep PROVE PcTyped'
  BY <1>9 DEF Sweep
<1>10. ASSUME NEW w \in Provers, BeginJob(w) PROVE PcTyped'
  BY <1>10, ActorsAssumption DEF BeginJob, GoTo
<1>11. ASSUME NEW w \in Provers, CompleteJob(w) PROVE PcTyped'
  BY <1>11, ActorsAssumption, <1>1 DEF CompleteJob, GoTo
<1>12. ASSUME NEW s \in Submitters, BeginSubmission(s) PROVE PcTyped'
  BY <1>12, ActorsAssumption DEF BeginSubmission, GoTo
<1>13. ASSUME NEW a \in Actors, ReadVotes(a) PROVE PcTyped'
  BY <1>13, ActorsAssumption, <1>1 DEF ReadVotes, GiveUp, GoTo
<1>14. ASSUME NEW a \in Actors, VerifyTally(a) PROVE PcTyped'
  BY <1>14, ActorsAssumption, <1>1 DEF VerifyTally, GiveUp, GoTo
<1>15. ASSUME NEW a \in Actors, InsertTally(a) PROVE PcTyped'
  BY <1>15, ActorsAssumption, <1>1 DEF InsertTally, GoTo
<1>16. ASSUME NEW a \in Actors, Abort(a) PROVE PcTyped'
  BY <1>16, ActorsAssumption, <1>1 DEF Abort, GoTo
<1>17. ASSUME NEW x \in Publishers, OwnerPublishes(x) PROVE PcTyped'
  BY <1>17, ActorsAssumption DEF OwnerPublishes, GoTo
<1>18. ASSUME NEW x \in Publishers, AutoPublish(x) PROVE PcTyped'
  BY <1>18, ActorsAssumption DEF AutoPublish, GoTo
<1>19. ASSUME NEW x \in Publishers, LoadRecords(x) PROVE PcTyped'
  BY <1>19 DEF LoadRecords
<1>20. ASSUME NEW x \in Publishers, LoadProof(x) PROVE PcTyped'
  BY <1>20 DEF LoadProof
<1>21. ASSUME NEW x \in Publishers, BuildBatches(x) PROVE PcTyped'
  BY <1>21, ActorsAssumption DEF BuildBatches, GoTo
<1>22. ASSUME NEW x \in Publishers, CheckMaterial(x) PROVE PcTyped'
  BY <1>22, ActorsAssumption, <1>1 DEF CheckMaterial, GoTo
<1>23. ASSUME NEW x \in Publishers, PlanCommits(x) PROVE PcTyped'
  BY <1>23, ActorsAssumption DEF PlanCommits, GoTo
<1>24. ASSUME NEW x \in Publishers, FindPoll(x) PROVE PcTyped'
  BY <1>24, ActorsAssumption DEF FindPoll, GoTo
<1>25. ASSUME NEW x \in Publishers, CreatePoll(x) PROVE PcTyped'
  BY <1>25, ActorsAssumption, <1>1 DEF CreatePoll, GoTo
<1>26. ASSUME NEW x \in Publishers, FindRoot(x) PROVE PcTyped'
  BY <1>26, ActorsAssumption, <1>2 DEF FindRoot, GoTo
<1>27. ASSUME NEW x \in Publishers, CommitRoots(x) PROVE PcTyped'
  BY <1>27, ActorsAssumption, <1>1 DEF CommitRoots, GoTo
<1>28. ASSUME NEW x \in Publishers, FindFinal(x) PROVE PcTyped'
  BY <1>28, ActorsAssumption, <1>2 DEF FindFinal, GoTo
<1>29. ASSUME NEW x \in Publishers, FinalizePoll(x) PROVE PcTyped'
  BY <1>29, ActorsAssumption, <1>1, <1>2 DEF FinalizePoll, GoTo
<1>30. ASSUME NEW x \in Publishers, InsertRoot(x) PROVE PcTyped'
  BY <1>30, ActorsAssumption, <1>1 DEF InsertRoot, GoTo
<1>31. ASSUME NEW x \in Publishers, MarkBatch(x) PROVE PcTyped'
  BY <1>31, ActorsAssumption DEF MarkBatch, GoTo
<1>32. ASSUME NEW x \in Publishers, RecordRootEvent(x) PROVE PcTyped'
  BY <1>32, ActorsAssumption DEF RecordRootEvent, GoTo
<1>33. ASSUME NEW x \in Publishers, RecordFinalEvent(x) PROVE PcTyped'
  BY <1>33, ActorsAssumption DEF RecordFinalEvent, GoTo
<1>34. ASSUME NEW x \in Publishers, Respond(x) PROVE PcTyped'
  BY <1>34, ActorsAssumption, <1>1 DEF Respond, GoTo
<1>35. CASE UNCHANGED vars
  BY <1>35 DEF vars
<1> QED
  BY <1>3, <1>4, <1>5, <1>6, <1>7, <1>8, <1>9, <1>10, <1>11, <1>12, <1>13, <1>14,
     <1>15, <1>16, <1>17, <1>18, <1>19, <1>20, <1>21, <1>22, <1>23, <1>24, <1>25,
     <1>26, <1>27, <1>28, <1>29, <1>30, <1>31, <1>32, <1>33, <1>34, <1>35
     DEF Next, VoteStep, TallyStep, PublishStep

\* What finalize_poll stores is a result.
LEMMA FinalTyped ==
  ASSUME Types, NEW x \in Publishers, pc[x] = "finalize"
  PROVE  /\ Result(local[x]) \in FinalTypes
         /\ Result(local[x]) # NoResult
<1> USE DEF Types, StateTypes, Actors
<1>1. local[x].records \in Seq(Requests) /\ local[x].records # <<>>
  BY LocalFields DEF Prepared, LocalPrepared, Planning
<1>2. local[x].proof \in Nat /\ local[x].proof \in DOMAIN proofs
  BY LocalFields DEF Prepared, LocalPrepared
<1>3. /\ LastBatch(local[x].records) \in Seq(Requests)
      /\ proofs[local[x].proof] \in Seq(Requests)
  BY <1>1, <1>2, LastBatchNotEmpty
<1>4. Result(local[x]) \in FinalTypes
  BY <1>2, <1>3 DEF Result, FinalTypes
<1> QED BY <1>4, NoResultAssumption DEF FinalTypes

\* Every step keeps tables, accounts and clocks typed.
LEMMA StateTypesNext ==
  ASSUME Types, [Next]_vars
  PROVE  StateTypes'
<1> USE DEF Types, StateTypes, Actors, VoteStates, voteVars, tallyVars, dbVars,
            chainVars, clockVars, offTally, offReads, offChain, offRecording
<1>1. ASSUME NEW r \in Requests, BeginVote(r) PROVE StateTypes'
  <2>1. vote' \in [Requests -> VoteStates]
    BY <1>1 DEF BeginVote
  <2>2. arrival' \in Seq(Requests)
    BY <1>1 DEF BeginVote
  <2>3. job' \in {"none", "queued", "failed", "succeeded"} /\ swept' \in BOOLEAN
    BY <1>1 DEF BeginVote, CloseExpired
  <2> QED BY <1>1, <2>1, <2>2, <2>3 DEF BeginVote
<1>2. ASSUME NEW r \in Requests, InsertVote(r) PROVE StateTypes'
  <2>1. vote' \in [Requests -> VoteStates]
    BY <1>2 DEF InsertVote, InsertRow
  <2>2. ledger' \in Seq(Requests)
    <3>1. \A k \in PlacesOf(r) : WithRow(r, k) \in Seq(Requests)
      BY RowInserted DEF PlacesOf
    <3> QED BY <1>2, <3>1 DEF InsertVote, InsertRow
  <2> QED BY <1>2, <2>1, <2>2 DEF InsertVote, InsertRow
<1>3. ASSUME NEW r \in Requests, AppendVoteAccepted(r) PROVE StateTypes'
  BY <1>3 DEF AppendVoteAccepted
<1>4. ASSUME NEW r \in Requests, LoseRequest(r) PROVE StateTypes'
  BY <1>4 DEF LoseRequest
<1>5. ASSUME ClosePoll PROVE StateTypes'
  BY <1>5 DEF ClosePoll
<1>6. ASSUME ChainReachesClose PROVE StateTypes'
  BY <1>6 DEF ChainReachesClose
<1>7. ASSUME Sweep PROVE StateTypes'
  BY <1>7 DEF Sweep, CloseExpired
<1>8. ASSUME NEW w \in Provers, BeginJob(w) PROVE StateTypes'
  BY <1>8 DEF BeginJob
<1>9. ASSUME NEW w \in Provers, CompleteJob(w) PROVE StateTypes'
  BY <1>9 DEF CompleteJob
<1>10. ASSUME NEW s \in Submitters, BeginSubmission(s) PROVE StateTypes'
  BY <1>10 DEF BeginSubmission
<1>11. ASSUME NEW a \in Actors, ReadVotes(a) PROVE StateTypes'
  BY <1>11, LocalFields DEF ReadVotes, GiveUp
<1>12. ASSUME NEW a \in Actors, VerifyTally(a) PROVE StateTypes'
  BY <1>12, LocalFields DEF VerifyTally, GiveUp
<1>13. ASSUME NEW a \in Actors, InsertTally(a) PROVE StateTypes'
  BY <1>13, LocalFields DEF InsertTally
<1>14. ASSUME NEW a \in Actors, Abort(a) PROVE StateTypes'
  BY <1>14, FailuresAssumption DEF Abort
<1>15. ASSUME NEW x \in Publishers, OwnerPublishes(x) PROVE StateTypes'
  BY <1>15, LocalFields DEF OwnerPublishes, CloseExpired
<1>16. ASSUME NEW x \in Publishers, AutoPublish(x) PROVE StateTypes'
  BY <1>16, LocalFields DEF AutoPublish
<1>17. ASSUME NEW x \in Publishers, LoadRecords(x) PROVE StateTypes'
  BY <1>17, LocalFields DEF LoadRecords
<1>18. ASSUME NEW x \in Publishers, LoadProof(x) PROVE StateTypes'
  BY <1>18, LocalFields DEF LoadProof
<1>19. ASSUME NEW x \in Publishers, BuildBatches(x) PROVE StateTypes'
  BY <1>19, LocalFields DEF BuildBatches
<1>20. ASSUME NEW x \in Publishers, CheckMaterial(x) PROVE StateTypes'
  BY <1>20, LocalFields DEF CheckMaterial
<1>21. ASSUME NEW x \in Publishers, PlanCommits(x) PROVE StateTypes'
  BY <1>21, LocalFields DEF PlanCommits
<1>22. ASSUME NEW x \in Publishers, FindPoll(x) PROVE StateTypes'
  BY <1>22, LocalFields DEF FindPoll
<1>23. ASSUME NEW x \in Publishers, CreatePoll(x) PROVE StateTypes'
  BY <1>23, LocalFields DEF CreatePoll
<1>24. ASSUME NEW x \in Publishers, FindRoot(x) PROVE StateTypes'
  BY <1>24, LocalFields DEF FindRoot
<1>25. ASSUME NEW x \in Publishers, CommitRoots(x) PROVE StateTypes'
  <2>1. local[x].records \in Seq(Requests) /\ local[x].todo \subseteq Nat \ {0}
    BY LocalFields DEF BatchIds
  <2>2. \A i \in local[x].todo : Batch(local[x].records, i) \in Seq(Requests)
    BY <2>1, BatchIsSeq
  <2>3. chainRoots' \in Seq(Seq(Requests))
    <3>1. PICK i \in local[x].todo :
            \/ chainRoots' = Append(chainRoots, Batch(local[x].records, i))
            \/ UNCHANGED chainRoots
      BY <1>25 DEF CommitRoots, First
    <3> DEFINE root == Batch(local[x].records, i)
    <3>2. root \in Seq(Requests)
      BY <2>2
    <3> HIDE DEF root
    <3>3. Append(chainRoots, root) \in Seq(Seq(Requests))
      BY <3>2, AppendProperties
    <3> QED BY <3>1, <3>3 DEF root
  <2> QED BY <1>25, <2>3 DEF CommitRoots
<1>26. ASSUME NEW x \in Publishers, FindFinal(x) PROVE StateTypes'
  BY <1>26, LocalFields DEF FindFinal
<1>27. ASSUME NEW x \in Publishers, FinalizePoll(x) PROVE StateTypes'
  <2> DEFINE l == local[x]
  <2>1. CASE chainFinal' = Result(l)
    <3>1. chainFinal' \in FinalTypes
      BY <1>27, <2>1, FinalTyped DEF FinalizePoll
    <3> QED BY <1>27, <3>1 DEF FinalizePoll
  <2>2. CASE UNCHANGED chainFinal
    BY <1>27, <2>2 DEF FinalizePoll
  <2> QED BY <1>27, <2>1, <2>2 DEF FinalizePoll
<1>28. ASSUME NEW x \in Publishers, InsertRoot(x) PROVE StateTypes'
  <2>1. local[x].records \in Seq(Requests) /\ local[x].todo \subseteq Nat \ {0}
    BY LocalFields DEF BatchIds
  <2>2. \A i \in local[x].todo : Batch(local[x].records, i) \in Seq(Requests)
    BY <2>1, BatchIsSeq
  <2>3. rootRow' \in [BatchIds -> Seq(Requests) \cup {NoResult}]
    BY <1>28, <2>2 DEF InsertRoot, First
  <2> QED BY <1>28, <2>3 DEF InsertRoot
<1>29. ASSUME NEW x \in Publishers, MarkBatch(x) PROVE StateTypes'
  BY <1>29, LocalFields DEF MarkBatch, First
<1>30. ASSUME NEW x \in Publishers, RecordRootEvent(x) PROVE StateTypes'
  <2>1. /\ local[x].records \in Seq(Requests) /\ local[x].todo \subseteq Nat \ {0}
        /\ local[x].todo \subseteq BatchIds
    BY LocalFields DEF BatchIds
  <2>2. \A i \in local[x].todo : [batch |-> i, root |-> Batch(local[x].records, i)]
                                 \in [batch : BatchIds, root : Seq(Requests)]
    BY <2>1, BatchIsSeq
  <2>3. rootEvents' \subseteq [batch : BatchIds, root : Seq(Requests)]
    BY <1>30, <2>2 DEF RecordRootEvent, First
  <2> QED BY <1>30, <2>3 DEF RecordRootEvent
<1>31. ASSUME NEW x \in Publishers, RecordFinalEvent(x) PROVE StateTypes'
  BY <1>31, LocalFields DEF RecordFinalEvent
<1>32. ASSUME NEW x \in Publishers, Respond(x) PROVE StateTypes'
  BY <1>32, LocalFields DEF Respond
<1>33. CASE UNCHANGED vars
  BY <1>33 DEF vars
<1> QED
  BY <1>1, <1>2, <1>3, <1>4, <1>5, <1>6, <1>7, <1>8, <1>9, <1>10, <1>11, <1>12,
     <1>13, <1>14, <1>15, <1>16, <1>17, <1>18, <1>19, <1>20, <1>21, <1>22, <1>23,
     <1>24, <1>25, <1>26, <1>27, <1>28, <1>29, <1>30, <1>31, <1>32, <1>33
     DEF Next, VoteStep, TallyStep, PublishStep

\* Every step hands on what the next one relies on.
LEMMA PreparedNext ==
  ASSUME Types, [Next]_vars
  PROVE  Prepared'
<1> USE DEF Types, Prepared, LocalPrepared, ResultHasProof, Planning, LocalTyped, PcTyped,
            PcTypes, Actors, voteVars, tallyVars, dbVars, chainVars, clockVars,
            offTally, offReads, offChain, offRecording
<1>1. ASSUME NEW a \in Actors, Return(a), UNCHANGED <<ledger, proofs>>
      PROVE  LocalPrepared'
  BY <1>1, ActorsAssumption DEF Return, GoTo, Fresh
<1>2. ASSUME NEW x \in Publishers, Planning(x), BeginRecording(x),
             UNCHANGED <<ledger, proofs>>
      PROVE  LocalPrepared'
  BY <1>2, ActorsAssumption DEF BeginRecording, GoTo
<1>3. ASSUME NEW r \in Requests, BeginVote(r) PROVE Prepared'
  BY <1>3, ActorsAssumption DEF BeginVote, GoTo
<1>4. ASSUME NEW r \in Requests, InsertVote(r) PROVE Prepared'
  <2>1. ledger # <<>> => ledger' # <<>>
    <3>1. \A k \in PlacesOf(r) : WithRow(r, k) # <<>>
      BY RowInserted DEF PlacesOf, StateTypes
    <3> QED BY <1>4, <3>1 DEF InsertVote, InsertRow
  <2> QED BY <1>4, <2>1 DEF InsertVote, InsertRow
<1>5. ASSUME NEW r \in Requests, AppendVoteAccepted(r) PROVE Prepared'
  BY <1>5, ActorsAssumption DEF AppendVoteAccepted, GoTo
<1>6. ASSUME NEW r \in Requests, LoseRequest(r) PROVE Prepared'
  BY <1>6, ActorsAssumption DEF LoseRequest, GoTo
<1>7. ASSUME ClosePoll PROVE Prepared'
  BY <1>7, ActorsAssumption DEF ClosePoll, GoTo
<1>8. ASSUME ChainReachesClose PROVE Prepared'
  BY <1>8, ActorsAssumption DEF ChainReachesClose, GoTo
<1>9. ASSUME Sweep PROVE Prepared'
  BY <1>9, ActorsAssumption DEF Sweep, GoTo
<1>10. ASSUME NEW w \in Provers, BeginJob(w) PROVE Prepared'
  BY <1>10, ActorsAssumption DEF BeginJob, GoTo
<1>11. ASSUME NEW w \in Provers, CompleteJob(w) PROVE Prepared'
  BY <1>11, ActorsAssumption, <1>1 DEF CompleteJob, GoTo
<1>12. ASSUME NEW s \in Submitters, BeginSubmission(s) PROVE Prepared'
  BY <1>12, ActorsAssumption DEF BeginSubmission, GoTo
<1>13. ASSUME NEW a \in Actors, ReadVotes(a) PROVE Prepared'
  <2>1. CASE Return(a)
    BY <1>13, <1>1, <2>1 DEF ReadVotes, GiveUp
  <2>2. CASE Tallyable(ledger)
    <3>1. CASE local' = [local EXCEPT ![a].records = ledger] /\ GoTo(a, "verifying")
      <4>1. local'[a].records = ledger /\ ledger # <<>>
        BY <2>2, <3>1, LocalFields DEF Tallyable, LocalTypes
      <4> QED BY <1>13, <3>1, <4>1, ActorsAssumption DEF ReadVotes, GiveUp, GoTo
    <3> QED BY <1>13, <2>2, <3>1 DEF ReadVotes, GiveUp
  <2> QED BY <1>13, <2>1, <2>2 DEF ReadVotes, GiveUp
<1>14. ASSUME NEW a \in Actors, VerifyTally(a) PROVE Prepared'
  BY <1>14, ActorsAssumption, LocalFields, <1>1 DEF VerifyTally, GiveUp, GoTo
<1>15. ASSUME NEW a \in Actors, InsertTally(a) PROVE Prepared'
  <2>1. proofs \in Seq(Seq(Requests)) /\ local[a].records \in Seq(Requests)
    BY LocalFields DEF StateTypes
  <2>2. Len(proofs) \in Nat /\ Len(Append(proofs, local[a].records)) = Len(proofs) + 1
    BY <2>1, AppendProperties, LenProperties
  <2>3. DOMAIN proofs \subseteq DOMAIN proofs'
    <3>1. proofs' = Append(proofs, local[a].records)
      BY <1>15 DEF InsertTally
    <3> QED BY <3>1, <2>1, <2>2, LenProperties, AppendProperties
  <2>4. CASE Return(a)
    BY <1>15, <2>3, <2>4, ActorsAssumption DEF InsertTally, Return, GoTo, Fresh
  <2>5. CASE a \in Provers /\ GoTo(a, "completing") /\ UNCHANGED local
    BY <1>15, <2>3, <2>5, ActorsAssumption DEF InsertTally, GoTo
  <2>6. CASE a \in Publishers /\ GoTo(a, "reload") /\ UNCHANGED local
    BY <1>15, <2>3, <2>6, ActorsAssumption DEF InsertTally, GoTo
  <2> QED BY <1>15, <2>4, <2>5, <2>6 DEF InsertTally
<1>16. ASSUME NEW a \in Actors, Abort(a) PROVE Prepared'
  BY <1>16, ActorsAssumption, LocalFields, <1>1 DEF Abort, GoTo
<1>17. ASSUME NEW x \in Publishers, OwnerPublishes(x) PROVE Prepared'
  BY <1>17, ActorsAssumption, LocalFields DEF OwnerPublishes, GoTo
<1>18. ASSUME NEW x \in Publishers, AutoPublish(x) PROVE Prepared'
  BY <1>18, ActorsAssumption, LocalFields DEF AutoPublish, GoTo
<1>19. ASSUME NEW x \in Publishers, LoadRecords(x) PROVE Prepared'
  BY <1>19, ActorsAssumption, LocalFields DEF LoadRecords, GoTo
<1>20. ASSUME NEW x \in Publishers, LoadProof(x) PROVE Prepared'
  <2>1. LatestProof # NoResult => LatestProof \in DOMAIN proofs
    BY LenProperties, EmptySeq DEF LatestProof, StateTypes
  <2> QED BY <1>20, <2>1, ActorsAssumption, LocalFields DEF LoadProof
<1>21. ASSUME NEW x \in Publishers, BuildBatches(x) PROVE Prepared'
  BY <1>21, ActorsAssumption, LocalFields DEF BuildBatches, GoTo
<1>22. ASSUME NEW x \in Publishers, CheckMaterial(x) PROVE Prepared'
  BY <1>22, ActorsAssumption, LocalFields, <1>1 DEF CheckMaterial, GoTo
<1>23. ASSUME NEW x \in Publishers, PlanCommits(x) PROVE Prepared'
  <2> DEFINE l == local[x]
             missing == {i \in BatchIds :
                           i <= BatchCount(l.records) /\ rootRow[i] = NoResult}
             plan == {i \in missing : Sealed(l, i)}
             final == closed /\ missing = plan /\ l.proof # NoResult
  <2>1. local' = [local EXCEPT ![x].plan = plan, ![x].todo = plan, ![x].final = final]
    BY <1>23 DEF PlanCommits
  <2>2. final => l.proof # NoResult
    OBVIOUS
  <2> HIDE DEF plan, final
  <2>3. /\ local'[x].final = final /\ local'[x].proof = l.proof
        /\ local'[x].records = l.records
    BY <2>1, LocalFields DEF LocalTypes
  <2>4. \A a \in Actors : a # x => local'[a] = local[a] /\ pc'[a] = pc[a]
    BY <1>23, <2>1 DEF PlanCommits, GoTo
  <2>5. pc[x] = "roots" /\ pc'[x] = "findPoll" /\ UNCHANGED <<proofs, ledger, chainFinal>>
    BY <1>23 DEF PlanCommits, GoTo
  <2> HIDE DEF l
  <2> QED BY <2>2, <2>3, <2>4, <2>5 DEF l
<1>24. ASSUME NEW x \in Publishers, FindPoll(x) PROVE Prepared'
  BY <1>24, ActorsAssumption, LocalFields DEF FindPoll, GoTo
<1>25. ASSUME NEW x \in Publishers, CreatePoll(x) PROVE Prepared'
  BY <1>25, ActorsAssumption, LocalFields, <1>1 DEF CreatePoll, GoTo
<1>26. ASSUME NEW x \in Publishers, FindRoot(x) PROVE Prepared'
  <2>1. CASE BeginRecording(x)
    BY <1>26, <1>2, <2>1 DEF FindRoot
  <2>2. CASE /\ \E i \in local[x].todo : local' = [local EXCEPT ![x].todo = @ \ {i}]
             /\ UNCHANGED pc
    BY <1>26, <2>2, ActorsAssumption, LocalFields DEF FindRoot
  <2>3. CASE GoTo(x, "commit") /\ UNCHANGED local
    BY <1>26, <2>3, ActorsAssumption, LocalFields DEF FindRoot, GoTo
  <2>4. CASE local[x].todo = {} /\ local[x].final /\ GoTo(x, "findFinal") /\ UNCHANGED local
    BY <1>26, <2>4, ActorsAssumption, LocalFields DEF FindRoot, GoTo
  <2> QED BY <1>26, <2>1, <2>2, <2>3, <2>4 DEF FindRoot, First
<1>27. ASSUME NEW x \in Publishers, CommitRoots(x) PROVE Prepared'
  <2>1. CASE Return(x)
    BY <1>27, <1>1, <2>1 DEF CommitRoots
  <2>2. CASE \E i \in local[x].todo : local' = [local EXCEPT ![x].todo = @ \ {i}]
                                       /\ GoTo(x, "findRoot")
    BY <1>27, <2>2, ActorsAssumption, LocalFields DEF CommitRoots, GoTo
  <2> QED BY <1>27, <2>1, <2>2 DEF CommitRoots, First
<1>28. ASSUME NEW x \in Publishers, FindFinal(x) PROVE Prepared'
  BY <1>28, ActorsAssumption, LocalFields, <1>2 DEF FindFinal, GoTo
<1>29. ASSUME NEW x \in Publishers, FinalizePoll(x) PROVE Prepared'
  BY <1>29, ActorsAssumption, LocalFields, <1>1, <1>2 DEF FinalizePoll, GoTo, Result
<1>30. ASSUME NEW x \in Publishers, InsertRoot(x) PROVE Prepared'
  BY <1>30, ActorsAssumption, LocalFields, <1>1 DEF InsertRoot, GoTo, First
<1>31. ASSUME NEW x \in Publishers, MarkBatch(x) PROVE Prepared'
  BY <1>31, ActorsAssumption, LocalFields DEF MarkBatch, GoTo, First
<1>32. ASSUME NEW x \in Publishers, RecordRootEvent(x) PROVE Prepared'
  BY <1>32, ActorsAssumption, LocalFields DEF RecordRootEvent, GoTo, First
<1>33. ASSUME NEW x \in Publishers, RecordFinalEvent(x) PROVE Prepared'
  BY <1>33, ActorsAssumption, LocalFields DEF RecordFinalEvent, GoTo
<1>34. ASSUME NEW x \in Publishers, Respond(x) PROVE Prepared'
  BY <1>34, ActorsAssumption, LocalFields, <1>1 DEF Respond, GoTo
<1>35. CASE UNCHANGED vars
  BY <1>35 DEF vars
<1> QED
  BY <1>3, <1>4, <1>5, <1>6, <1>7, <1>8, <1>9, <1>10, <1>11, <1>12, <1>13, <1>14,
     <1>15, <1>16, <1>17, <1>18, <1>19, <1>20, <1>21, <1>22, <1>23, <1>24, <1>25,
     <1>26, <1>27, <1>28, <1>29, <1>30, <1>31, <1>32, <1>33, <1>34, <1>35
     DEF Next, VoteStep, TallyStep, PublishStep

\* Everything has its type in every state.
LEMMA TypesAlways == Spec => []Types
<1>1. Init => Types
  BY TypesInit
<1>2. Types /\ [Next]_vars => Types'
  BY LocalTypedNext, PcTypedNext, StateTypesNext, PreparedNext DEF Types
<1> QED BY <1>1, <1>2, PTL DEF Spec

\* Type correctness of PollAudit, whatever its constants.
THEOREM TypeCorrect == Spec => []TypeOK
<1>1. Types => TypeOK
  <2> SUFFICES ASSUME Types PROVE TypeOK
    OBVIOUS
  <2>1. /\ DOMAIN rootRow = BatchIds
        /\ \A i \in BatchIds : rootRow[i] = NoResult \/ rootRow[i] \in Seq(Requests)
    BY DEF Types, StateTypes
  <2> QED BY <2>1 DEF Types, StateTypes, PcTyped, Prepared, ResultHasProof, TypeOK
<1> QED BY <1>1, TypesAlways, PTL

(* Rows and events follow the chain. *)

Recording(a) == pc[a] \in {"insertRoot", "mark", "rootEvent", "finalEvent", "respond"}

\* What a publication knows of the chain: the batches it is done with have
\* their accounts, and what it records is there already.
OnChain(a) ==
    /\ local[a].todo \subseteq local[a].plan
    /\ pc[a] \in {"findPoll", "createPoll"} => local[a].todo = local[a].plan
    /\ pc[a] \in {"findRoot", "commit", "findFinal", "finalize"} =>
         \A i \in local[a].plan \ local[a].todo : i <= Len(chainRoots)
    /\ Recording(a) => \A i \in local[a].plan : i <= Len(chainRoots)
    /\ Recording(a) /\ local[a].final => chainFinal # NoResult
    /\ pc[a] \in {"mark", "rootEvent"} =>
         \A i \in First(local[a].todo) : rootRow[i] = Batch(local[a].records, i)

Rows == RowsFollowChain /\ \A a \in Actors : OnChain(a)

\* Nothing is stored at first.
LEMMA RowsInit ==
  Init => Rows
  BY DEF Init, Rows, RowsFollowChain, OnChain, Recording, Fresh

\* Every step of a publication stores what it found or put on chain.
LEMMA RowsNext ==
  ASSUME Types, Rows, [Next]_vars
  PROVE  Rows'
<1> USE DEF Types, Rows, RowsFollowChain, OnChain, Recording, LocalTyped, PcTyped, PcTypes,
            Actors, voteVars, tallyVars, dbVars, chainVars, clockVars,
            offTally, offReads, offChain, offRecording
<1>1. ASSUME NEW a \in Actors, Return(a), UNCHANGED <<chainRoots, chainFinal, rootRow>>
      PROVE  \A b \in Actors : OnChain(b)'
  BY <1>1, ActorsAssumption DEF Return, GoTo, Fresh
<1>2. ASSUME NEW x \in Publishers, pc[x] \in {"findRoot", "findFinal", "finalize"},
             local[x].todo = {}, BeginRecording(x),
             UNCHANGED <<chainRoots, rootRow>>,
             chainFinal # NoResult => chainFinal' # NoResult,
             local[x].final => chainFinal' # NoResult
      PROVE  \A b \in Actors : OnChain(b)'
  BY <1>2, ActorsAssumption, LocalFields DEF BeginRecording, GoTo
<1>on. ASSUME NEW a \in Actors, NEW to, GoTo(a, to), ~Recording(a), ~Planning(a),
              to \in TallySteps \cup {"load", "check", "reload", "roots"},
              UNCHANGED <<local, chainRoots, chainFinal, rootRow>>
       PROVE  \A b \in Actors : OnChain(b)'
  BY <1>on DEF GoTo, Planning, TallySteps
<1>3. ASSUME NEW r \in Requests, BeginVote(r) PROVE Rows'
  BY <1>3 DEF BeginVote
<1>4. ASSUME NEW r \in Requests, InsertVote(r) PROVE Rows'
  BY <1>4 DEF InsertVote, InsertRow
<1>5. ASSUME NEW r \in Requests, AppendVoteAccepted(r) PROVE Rows'
  BY <1>5 DEF AppendVoteAccepted
<1>6. ASSUME NEW r \in Requests, LoseRequest(r) PROVE Rows'
  BY <1>6 DEF LoseRequest
<1>7. ASSUME ClosePoll PROVE Rows'
  BY <1>7 DEF ClosePoll
<1>8. ASSUME ChainReachesClose PROVE Rows'
  BY <1>8 DEF ChainReachesClose
<1>9. ASSUME Sweep PROVE Rows'
  BY <1>9 DEF Sweep
<1>10. ASSUME NEW w \in Provers, BeginJob(w) PROVE Rows'
  BY <1>10, ActorsAssumption DEF BeginJob, GoTo
<1>11. ASSUME NEW w \in Provers, CompleteJob(w) PROVE Rows'
  BY <1>11, ActorsAssumption, <1>1 DEF CompleteJob, GoTo
<1>12. ASSUME NEW s \in Submitters, BeginSubmission(s) PROVE Rows'
  BY <1>12, ActorsAssumption DEF BeginSubmission, GoTo
<1>13. ASSUME NEW a \in Actors, ReadVotes(a) PROVE Rows'
  <2>1. CASE local' = [local EXCEPT ![a].records = ledger] /\ GoTo(a, "verifying")
    <3>1. local'[a].plan = local[a].plan /\ local'[a].todo = local[a].todo
      BY <2>1, LocalFields DEF LocalTypes
    <3> QED BY <1>13, <2>1, <3>1, ActorsAssumption DEF ReadVotes, GiveUp, GoTo
  <2>2. CASE Return(a)
    BY <1>13, <1>1, <2>2 DEF ReadVotes, GiveUp
  <2> QED BY <1>13, <2>1, <2>2 DEF ReadVotes, GiveUp
<1>14. ASSUME NEW a \in Actors, VerifyTally(a) PROVE Rows'
  <2>1. CASE Return(a)
    BY <1>14, <1>1, <2>1 DEF VerifyTally, GiveUp
  <2>2. CASE GoTo(a, "inserting") /\ UNCHANGED local
    BY <1>14, <1>on, <2>2 DEF VerifyTally, Planning, TallySteps
  <2> QED BY <1>14, <2>1, <2>2 DEF VerifyTally, GiveUp
<1>15. ASSUME NEW a \in Actors, InsertTally(a) PROVE Rows'
  <2>1. CASE Return(a)
    BY <1>15, <1>1, <2>1 DEF InsertTally
  <2>2. CASE (GoTo(a, "completing") \/ GoTo(a, "reload")) /\ UNCHANGED local
    BY <1>15, <2>2, ActorsAssumption DEF InsertTally, GoTo
  <2> QED BY <1>15, <2>1, <2>2 DEF InsertTally
<1>16. ASSUME NEW a \in Actors, Abort(a) PROVE Rows'
  BY <1>16, ActorsAssumption, LocalFields, <1>1 DEF Abort, GoTo
<1>17. ASSUME NEW x \in Publishers, OwnerPublishes(x) PROVE Rows'
  BY <1>17, ActorsAssumption, LocalFields DEF OwnerPublishes, GoTo
<1>18. ASSUME NEW x \in Publishers, AutoPublish(x) PROVE Rows'
  BY <1>18, ActorsAssumption, LocalFields DEF AutoPublish, GoTo
<1>19. ASSUME NEW x \in Publishers, LoadRecords(x) PROVE Rows'
  BY <1>19, ActorsAssumption, LocalFields DEF LoadRecords, GoTo
<1>20. ASSUME NEW x \in Publishers, LoadProof(x) PROVE Rows'
  BY <1>20, ActorsAssumption, LocalFields DEF LoadProof, GoTo
<1>21. ASSUME NEW x \in Publishers, BuildBatches(x) PROVE Rows'
  <2>1. local'[x].plan = local[x].plan /\ local'[x].todo = local[x].todo
    BY <1>21, LocalFields DEF BuildBatches, LocalTypes
  <2> QED BY <1>21, <2>1 DEF BuildBatches, GoTo
<1>22. ASSUME NEW x \in Publishers, CheckMaterial(x) PROVE Rows'
  <2>1. CASE Return(x)
    BY <1>22, <1>1, <2>1 DEF CheckMaterial
  <2>2. CASE UNCHANGED local /\ \E to \in {"reading", "roots"} : GoTo(x, to)
    BY <1>22, <1>on, <2>2 DEF CheckMaterial, Planning, TallySteps
  <2> QED BY <1>22, <2>1, <2>2 DEF CheckMaterial
<1>23. ASSUME NEW x \in Publishers, PlanCommits(x) PROVE Rows'
  <2>1. PICK plan \in SUBSET BatchIds :
          \E final \in BOOLEAN :
             local' = [local EXCEPT ![x].plan = plan, ![x].todo = plan, ![x].final = final]
    BY <1>23 DEF PlanCommits
  <2>2. local'[x].plan = plan /\ local'[x].todo = plan
    BY <2>1, LocalFields DEF LocalTypes
  <2> QED BY <1>23, <2>1, <2>2 DEF PlanCommits, GoTo
<1>24. ASSUME NEW x \in Publishers, FindPoll(x) PROVE Rows'
  BY <1>24, ActorsAssumption, LocalFields DEF FindPoll, GoTo
<1>25. ASSUME NEW x \in Publishers, CreatePoll(x) PROVE Rows'
  <2>1. CASE Return(x)
    BY <1>25, <1>1, <2>1 DEF CreatePoll
  <2>2. CASE UNCHANGED local /\ GoTo(x, "findRoot")
    BY <1>25, <2>2 DEF CreatePoll, GoTo
  <2> QED BY <1>25, <2>1, <2>2 DEF CreatePoll
<1>26. ASSUME NEW x \in Publishers, FindRoot(x) PROVE Rows'
  <2>1. CASE local[x].todo = {} /\ ~local[x].final /\ BeginRecording(x)
    BY <1>26, <1>2, <2>1 DEF FindRoot
  <2>2. CASE \E i \in local[x].todo :
               /\ i <= Len(chainRoots)
               /\ local' = [local EXCEPT ![x].todo = @ \ {i}]
               /\ UNCHANGED pc
    <3>1. PICK i \in local[x].todo : /\ i <= Len(chainRoots)
                                     /\ local' = [local EXCEPT ![x].todo = @ \ {i}]
                                     /\ UNCHANGED pc
      BY <2>2
    <3>2. local'[x].todo = local[x].todo \ {i} /\ local'[x].plan = local[x].plan
      BY <3>1, LocalFields DEF LocalTypes
    <3> QED BY <1>26, <3>1, <3>2 DEF FindRoot
  <2>3. CASE GoTo(x, "commit") /\ UNCHANGED local
    BY <1>26, <2>3 DEF FindRoot, GoTo
  <2>4. CASE GoTo(x, "findFinal") /\ UNCHANGED local
    BY <1>26, <2>4 DEF FindRoot, GoTo
  <2> QED BY <1>26, <2>1, <2>2, <2>3, <2>4 DEF FindRoot, First
<1>27. ASSUME NEW x \in Publishers, CommitRoots(x) PROVE Rows'
  <2>1. CASE Return(x) /\ UNCHANGED chainRoots
    BY <1>27, <1>1, <2>1 DEF CommitRoots
  <2>2. ASSUME NEW i \in local[x].todo, i = Len(chainRoots) + 1,
               chainRoots' = Append(chainRoots, Batch(local[x].records, i)),
               local' = [local EXCEPT ![x].todo = @ \ {i}], GoTo(x, "findRoot")
        PROVE  Rows'
    <3>1. local'[x].todo = local[x].todo \ {i} /\ local'[x].plan = local[x].plan
      BY <2>2, LocalFields DEF LocalTypes
    <3>2. Len(chainRoots) \in Nat /\ Len(chainRoots') = Len(chainRoots) + 1
      <4> DEFINE root == Batch(local[x].records, i)
      <4>1. root \in Seq(Requests)
        BY LocalFields, BatchIsSeq DEF BatchIds
      <4> HIDE DEF root
      <4> QED BY <2>2, <4>1, AppendProperties, LenProperties DEF root, StateTypes
    <3>3. \A k \in BatchIds : k <= Len(chainRoots) => k <= Len(chainRoots')
      BY <3>2 DEF BatchIds
    <3>4. RowsFollowChain'
      BY <1>27, <3>3 DEF CommitRoots
    <3>5. \A b \in Actors : local[b].plan \subseteq BatchIds
      BY LocalFields
    <3>6. i <= Len(chainRoots')
      BY <2>2, <3>2 DEF BatchIds
    <3> QED BY <1>27, <2>2, <3>1, <3>3, <3>4, <3>5, <3>6 DEF CommitRoots, GoTo
  <2> QED BY <1>27, <2>1, <2>2 DEF CommitRoots, First
<1>28. ASSUME NEW x \in Publishers, FindFinal(x) PROVE Rows'
  <2>1. local[x].todo = {}
    BY <1>28 DEF FindFinal, Prepared, LocalPrepared
  <2>2. CASE chainFinal # NoResult /\ BeginRecording(x)
    BY <1>28, <1>2, <2>1, <2>2 DEF FindFinal
  <2>3. CASE GoTo(x, "finalize") /\ UNCHANGED local
    BY <1>28, <2>3 DEF FindFinal, GoTo
  <2> QED BY <1>28, <2>2, <2>3 DEF FindFinal
<1>29. ASSUME NEW x \in Publishers, FinalizePoll(x) PROVE Rows'
  <2>1. local[x].todo = {}
    BY <1>29 DEF FinalizePoll, Prepared, LocalPrepared
  <2>2. CASE Return(x) /\ UNCHANGED chainFinal
    BY <1>29, <1>1, <2>2 DEF FinalizePoll
  <2>3. CASE chainFinal' # NoResult /\ BeginRecording(x)
    BY <1>29, <1>2, <2>1, <2>3 DEF FinalizePoll
  <2> QED BY <1>29, <2>2, <2>3, FinalTyped DEF FinalizePoll
<1>30. ASSUME NEW x \in Publishers, InsertRoot(x) PROVE Rows'
  <2>1. CASE Return(x) /\ UNCHANGED rootRow
    BY <1>30, <1>1, <2>1 DEF InsertRoot
  <2>2. ASSUME NEW i \in First(local[x].todo), rootRow[i] = NoResult,
               rootRow' = [rootRow EXCEPT ![i] = Batch(local[x].records, i)],
               GoTo(x, "mark"), UNCHANGED local
        PROVE  Rows'
    <3>1. i \in BatchIds /\ i \in local[x].plan
      BY LocalFields DEF First
    <3>2. rootRow' = [rootRow EXCEPT ![i] = Batch(local[x].records, i)]
          /\ rootRow \in [BatchIds -> Seq(Requests) \cup {NoResult}]
      BY <2>2 DEF StateTypes
    <3>3. \A k \in First(local[x].todo) : k = i
      BY LocalFields DEF First, BatchIds
    <3>4. \A e \in rootEvents : e.batch \in BatchIds /\ e.root # NoResult
      BY NoResultAssumption DEF StateTypes
    <3>5. \A b \in Actors : \A k \in First(local[b].todo) :
            k \in BatchIds /\ Batch(local[b].records, k) # NoResult
      BY LocalFields, BatchIsSeq, NoResultAssumption DEF First, BatchIds
    <3>6. RowsFollowChain'
      BY <1>30, <2>2, <3>1, <3>2, <3>4 DEF InsertRoot
    <3> QED BY <1>30, <2>2, <3>1, <3>2, <3>3, <3>5, <3>6 DEF InsertRoot, GoTo
  <2> QED BY <1>30, <2>1, <2>2 DEF InsertRoot
<1>31. ASSUME NEW x \in Publishers, MarkBatch(x) PROVE Rows'
  BY <1>31, ActorsAssumption, LocalFields DEF MarkBatch, GoTo, First
<1>32. ASSUME NEW x \in Publishers, RecordRootEvent(x) PROVE Rows'
  BY <1>32, ActorsAssumption, LocalFields DEF RecordRootEvent, GoTo, First
<1>33. ASSUME NEW x \in Publishers, RecordFinalEvent(x) PROVE Rows'
  BY <1>33 DEF RecordFinalEvent, GoTo, Prepared, LocalPrepared
<1>34. ASSUME NEW x \in Publishers, Respond(x) PROVE Rows'
  BY <1>34, ActorsAssumption, LocalFields, <1>1 DEF Respond, GoTo
<1>35. CASE UNCHANGED vars
  BY <1>35 DEF vars
<1> QED
  BY <1>3, <1>4, <1>5, <1>6, <1>7, <1>8, <1>9, <1>10, <1>11, <1>12, <1>13, <1>14,
     <1>15, <1>16, <1>17, <1>18, <1>19, <1>20, <1>21, <1>22, <1>23, <1>24, <1>25,
     <1>26, <1>27, <1>28, <1>29, <1>30, <1>31, <1>32, <1>33, <1>34, <1>35
     DEF Next, VoteStep, TallyStep, PublishStep

\* Whatever overlaps and wherever handlers are cut off, the database does not
\* run ahead of the chain: no root row without its batch account, no root event
\* without its row, no final event without the final account.
THEOREM RowsFollowTheChain == Spec => []RowsFollowChain
<1>1. Init => Rows
  BY RowsInit
<1>2. Types /\ Rows /\ [Next]_vars => Rows'
  BY RowsNext
<1>3. Rows => RowsFollowChain
  BY DEF Rows
<1> QED BY <1>1, <1>2, <1>3, TypesAlways, PTL DEF Spec

(* Which steps touch what. *)

\* Only the steps of vote requests touch votes.
LEMMA OffVotes ==
  ASSUME [Next]_vars
  PROVE  (\E r \in Requests : VoteStep(r)) \/ UNCHANGED voteVars
<1> USE DEF dbVars, chainVars, clockVars, offTally, offReads, offChain, offRecording
<1>1. ASSUME NEW a, TallyStep(a) PROVE UNCHANGED voteVars
  BY <1>1 DEF TallyStep, ReadVotes, GiveUp, VerifyTally, InsertTally
<1>2. ASSUME NEW x, PublishStep(x) PROVE UNCHANGED voteVars
  BY <1>1, <1>2 DEF PublishStep, LoadRecords, LoadProof, BuildBatches, CheckMaterial,
     PlanCommits, FindPoll, CreatePoll, FindRoot, CommitRoots, FindFinal, FinalizePoll,
     InsertRoot, MarkBatch, RecordRootEvent, RecordFinalEvent, Respond
<1>3. ASSUME NEW x, OwnerPublishes(x) \/ AutoPublish(x) PROVE UNCHANGED voteVars
  BY <1>3 DEF OwnerPublishes, AutoPublish
<1>4. ASSUME NEW a, BeginJob(a) \/ CompleteJob(a) \/ BeginSubmission(a) \/ Abort(a)
      PROVE  UNCHANGED voteVars
  BY <1>4 DEF BeginJob, CompleteJob, BeginSubmission, Abort
<1>5. CASE ClosePoll \/ ChainReachesClose \/ Sweep
  BY <1>5 DEF ClosePoll, ChainReachesClose, Sweep
<1>6. CASE UNCHANGED vars
  BY <1>6 DEF vars
<1> QED BY <1>1, <1>2, <1>3, <1>4, <1>5, <1>6 DEF Next

\* Which steps touch tally proofs, batch accounts and the final account.
LEMMA OffClosing ==
  ASSUME [Next]_vars
  PROVE  \/ \E a \in Actors : InsertTally(a)
         \/ \E x \in Publishers : CommitRoots(x) \/ FinalizePoll(x)
         \/ ClosePoll \/ ChainReachesClose
         \/ UNCHANGED <<clockVars, chainRoots, chainFinal, proofs>>
<1> DEFINE Same == UNCHANGED <<clockVars, chainRoots, chainFinal, proofs>>
<1> USE DEF dbVars, chainVars, tallyVars, offTally, offReads, offChain, offRecording
<1>1. ASSUME NEW r, VoteStep(r) PROVE Same
  BY <1>1 DEF VoteStep, BeginVote, InsertVote, InsertRow, AppendVoteAccepted, LoseRequest
<1>2. ASSUME NEW a \in Actors, TallyStep(a) PROVE Same \/ InsertTally(a)
  BY <1>2 DEF TallyStep, ReadVotes, GiveUp, VerifyTally
<1>3. ASSUME NEW x \in Publishers, PublishStep(x)
      PROVE  Same \/ InsertTally(x) \/ CommitRoots(x) \/ FinalizePoll(x)
  BY <1>2, <1>3 DEF PublishStep, LoadRecords, LoadProof, BuildBatches, CheckMaterial,
     PlanCommits, FindPoll, CreatePoll, FindRoot, FindFinal, InsertRoot, MarkBatch,
     RecordRootEvent, RecordFinalEvent, Respond, Actors
<1>4. ASSUME NEW x, OwnerPublishes(x) \/ AutoPublish(x) PROVE Same
  BY <1>4 DEF OwnerPublishes, AutoPublish
<1>5. ASSUME NEW a, BeginJob(a) \/ CompleteJob(a) \/ BeginSubmission(a) \/ Abort(a)
      PROVE  Same
  BY <1>5 DEF BeginJob, CompleteJob, BeginSubmission, Abort
<1>6. CASE Sweep
  BY <1>6 DEF Sweep
<1>7. CASE UNCHANGED vars
  BY <1>7 DEF vars
<1> QED BY <1>1, <1>2, <1>3, <1>4, <1>5, <1>6, <1>7 DEF Next, Actors

-----------------------------------------------------------------------------
(* What voters were told. *)

Answers ==
    /\ AnswersAreTrue
    /\ \A r \in Requests :
         /\ vote[r] = "inserted" => r \in Accepted
         /\ r \in Accepted => vote[r] \in {"inserted", "receipt", "lost"}

\* Nobody has an answer at first.
LEMMA AnswersInit ==
  Init => Answers
  BY DEF Init, Answers, AnswersAreTrue, OneRowPerVoter, Accepted, Range

\* Every step keeps the answers true.
LEMMA AnswersNext ==
  ASSUME Types, Answers, [Next]_vars
  PROVE  Answers'
<1> USE DEF Types, StateTypes, Answers, AnswersAreTrue, OneRowPerVoter
<1>1. ASSUME NEW r \in Requests, VoteStep(r) PROVE Answers'
  <2>1. CASE BeginVote(r)
    BY <2>1 DEF BeginVote, Accepted
  <2>2. CASE InsertVote(r)
    <3>1. CASE \E q \in Accepted : VoterOf[q] = VoterOf[r]
      BY <2>2, <3>1 DEF InsertVote, InsertRow, Accepted
    <3>2. CASE ~\E q \in Accepted : VoterOf[q] = VoterOf[r]
      <4>1. \A k \in PlacesOf(r) : Range(WithRow(r, k)) = Accepted \cup {r}
        BY RowInserted DEF PlacesOf, Accepted
      <4>2. Accepted' = Accepted \cup {r} /\ vote' = [vote EXCEPT ![r] = "inserted"]
        BY <2>2, <3>2, <4>1 DEF InsertVote, InsertRow, Accepted
      <4>3. UNCHANGED voteEvents
        BY <2>2 DEF InsertVote
      <4>4. OneRowPerVoter'
        <5>1. PICK k \in 0..Len(ledger) : ledger' = WithRow(r, k)
          BY <2>2, <3>2 DEF InsertVote, InsertRow, PlacesOf
        <5> QED BY <3>2, <5>1, RowOfNewVoter DEF OneRowPerVoter
      <4> QED BY <4>2, <4>3, <4>4
    <3> QED BY <3>1, <3>2
  <2>3. CASE AppendVoteAccepted(r)
    BY <2>3 DEF AppendVoteAccepted, Accepted
  <2>4. CASE LoseRequest(r)
    BY <2>4 DEF LoseRequest, InFlight, Accepted
  <2> QED BY <1>1, <2>1, <2>2, <2>3, <2>4 DEF VoteStep
<1>2. CASE UNCHANGED voteVars
  BY <1>2 DEF Accepted, voteVars
<1> QED BY <1>1, <1>2, OffVotes

\* A voter with a receipt has a row and an audit event, one who was told that the
\* vote is a duplicate has another row, and nobody has two, however requests overlap.
THEOREM AnswersStayTrue == Spec => []AnswersAreTrue
<1>1. Init => Answers
  BY AnswersInit
<1>2. Types /\ Answers /\ [Next]_vars => Answers'
  BY AnswersNext
<1>3. Answers => AnswersAreTrue
  BY DEF Answers
<1> QED BY <1>1, <1>2, <1>3, TypesAlways, PTL DEF Spec

-----------------------------------------------------------------------------
(* The final result is the last word on chain. *)

Closing == (chainClosed => closed) /\ FinalResultIsLast

\* There is no final result at first.
LEMMA ClosingInit ==
  Init => Closing
  BY DEF Init, Closing, FinalResultIsLast

\* Every step keeps the final result the last word: once it is there, no batch
\* follows.
LEMMA ClosingNext ==
  ASSUME Types, Closing, [Next]_vars
  PROVE  Closing'
<1> USE DEF Types, StateTypes, Closing, FinalResultIsLast, LatestChainRoot, Actors
<1>1. ASSUME NEW a \in Actors, InsertTally(a) PROVE Closing'
  <2>1. \A k \in DOMAIN proofs : proofs'[k] = proofs[k]
    <3>1. local[a].records \in Seq(Requests) /\ proofs' = Append(proofs, local[a].records)
      BY <1>1, LocalFields DEF InsertTally
    <3> QED BY <3>1, AppendProperties, LenProperties
  <2>2. UNCHANGED <<closed, chainClosed, chainRoots, chainFinal>>
    BY <1>1 DEF InsertTally, offTally, clockVars, chainVars
  <2> QED BY <2>1, <2>2 DEF Prepared, ResultHasProof
<1>2. ASSUME NEW x \in Publishers, CommitRoots(x) PROVE Closing'
  BY <1>2 DEF CommitRoots, offChain, clockVars, tallyVars
<1>3. ASSUME NEW x \in Publishers, FinalizePoll(x) PROVE Closing'
  <2>1. UNCHANGED <<closed, chainClosed, chainRoots, proofs>>
    BY <1>3 DEF FinalizePoll, offChain, clockVars, tallyVars
  <2>2. CASE UNCHANGED chainFinal
    BY <2>1, <2>2
  <2>3. CASE /\ Finalizable(local[x])
             /\ chainFinal' = Result(local[x])
    <3>1. local[x].records \in Seq(Requests) /\ local[x].records # <<>>
      BY <1>3, LocalFields DEF FinalizePoll, Prepared, LocalPrepared, Planning
    <3>2. chainClosed /\ LastBatch(local[x].records) = LatestChainRoot
      BY <2>3 DEF Finalizable
    <3>3. chainRoots # <<>>
      BY <3>1, <3>2, LastBatchNotEmpty
    <3> QED BY <2>1, <2>3, <3>2, <3>3 DEF Result
  <2> QED BY <1>3, <2>2, <2>3 DEF FinalizePoll
<1>4. CASE ClosePoll \/ ChainReachesClose
  BY <1>4 DEF ClosePoll, ChainReachesClose, chainVars, tallyVars
<1>5. CASE UNCHANGED <<clockVars, chainRoots, chainFinal, proofs>>
  BY <1>5 DEF clockVars
<1> QED BY <1>1, <1>2, <1>3, <1>4, <1>5, OffClosing

\* A final result is stored only after the poll closed on both clocks, on the
\* last batch of the chain, with a tally proof on record.
THEOREM FinalResultsAreLast == Spec => []FinalResultIsLast
<1>1. Init => Closing
  BY ClosingInit
<1>2. Types /\ Closing /\ [Next]_vars => Closing'
  BY ClosingNext
<1>3. Closing => FinalResultIsLast
  BY DEF Closing
<1> QED BY <1>1, <1>2, <1>3, TypesAlways, PTL DEF Spec

-----------------------------------------------------------------------------
(* Which races happened, and what the ledger does without them. *)

\* A race that happened is not forgotten.
LEMMA RacedGrows ==
  ASSUME [Next]_vars
  PROVE  raced \subseteq raced'
<1> USE DEF offTally, offReads, offChain, offRecording
<1>1. ASSUME NEW r, VoteStep(r) PROVE raced \subseteq raced'
  BY <1>1 DEF VoteStep, BeginVote, InsertVote, InsertRow, AppendVoteAccepted, LoseRequest
<1>2. ASSUME NEW a, TallyStep(a) PROVE raced \subseteq raced'
  BY <1>2 DEF TallyStep, ReadVotes, VerifyTally, InsertTally
<1>3. ASSUME NEW x, PublishStep(x) PROVE raced \subseteq raced'
  BY <1>2, <1>3 DEF PublishStep, LoadRecords, LoadProof, BuildBatches, CheckMaterial,
     PlanCommits, FindPoll, CreatePoll, FindRoot, CommitRoots, FindFinal, FinalizePoll,
     InsertRoot, MarkBatch, RecordRootEvent, RecordFinalEvent, Respond
<1>4. ASSUME NEW x, OwnerPublishes(x) \/ AutoPublish(x) PROVE UNCHANGED raced
  BY <1>4 DEF OwnerPublishes, AutoPublish
<1>5. ASSUME NEW a, BeginJob(a) \/ CompleteJob(a) \/ BeginSubmission(a) \/ Abort(a)
      PROVE  UNCHANGED raced
  BY <1>5 DEF BeginJob, CompleteJob, BeginSubmission, Abort
<1>6. CASE ClosePoll \/ ChainReachesClose \/ Sweep
  BY <1>6 DEF ClosePoll, ChainReachesClose, Sweep
<1>7. CASE UNCHANGED vars
  BY <1>7 DEF vars
<1> QED BY <1>1, <1>2, <1>3, <1>4, <1>5, <1>6, <1>7 DEF Next

\* What is not disturbed has not been before.
LEMMA DisturbedStays ==
  ASSUME [Next]_vars, ~Disturbed'
  PROVE  ~Disturbed
  BY RacedGrows DEF Disturbed

\* A request with a row that is not late: the poll is open, and every full batch
\* of the ledger stays.
NewRow(r) ==
    /\ ~closed
    /\ KeepsBatches(ledger', ledger)
    /\ Accepted' = Accepted \cup {r}

\* The ledger grows by a row of a vote; when that is late, the race is on record.
LEMMA LedgerSteps ==
  ASSUME Types, [Next]_vars
  PROVE  /\ Accepted \subseteq Accepted'
         /\ \/ UNCHANGED ledger
            \/ "vote" \in raced'
            \/ \E r \in Requests : NewRow(r)
<1>types. ledger \in Seq(Requests)
  BY DEF Types, StateTypes
<1>1. ASSUME NEW r \in Requests, NEW k \in 0..Len(ledger), ledger' = WithRow(r, k),
             ~IsLate(k)
      PROVE  NewRow(r)
  <2>1. Len(ledger) \in Nat /\ (Len(ledger) \div BatchSize) * BatchSize \in Nat
    BY <1>types, LenProperties, Division, BatchSizeAssumption
  <2>2. ~closed /\ (Len(ledger) \div BatchSize) * BatchSize <= k
    BY <1>1, <2>1 DEF IsLate
  <2>3. KeepsBatches(ledger', ledger)
    BY <1>types, <1>1, <2>2, RowKeepsBatches
  <2>4. Accepted' = Accepted \cup {r}
    BY <1>types, <1>1, RowInserted DEF Accepted
  <2> QED BY <2>2, <2>3, <2>4 DEF NewRow
<1>2. ASSUME NEW r \in Requests, InsertVote(r), ~UNCHANGED ledger
      PROVE  /\ Accepted \subseteq Accepted'
             /\ "vote" \in raced' \/ NewRow(r)
  <2>1. PICK k \in PlacesOf(r) :
          /\ ledger' = WithRow(r, k)
          /\ IsLate(k) => raced' = raced \cup {"vote"}
    BY <1>2 DEF InsertVote, InsertRow
  <2>2. k \in 0..Len(ledger)
    BY DEF PlacesOf
  <2>3. Accepted \subseteq Accepted'
    BY <1>types, <2>1, <2>2, RowInserted DEF Accepted
  <2> QED BY <1>1, <2>1, <2>2, <2>3
<1>3. ASSUME NEW r \in Requests, VoteStep(r), ~InsertVote(r) PROVE UNCHANGED ledger
  BY <1>3 DEF VoteStep, BeginVote, AppendVoteAccepted, LoseRequest
<1>4. UNCHANGED ledger => UNCHANGED Accepted
  BY DEF Accepted
<1> QED BY <1>2, <1>3, <1>4, OffVotes DEF voteVars

\* Undisturbed, the ledger keeps its full batches, and a closed poll's is final.
LEMMA LedgerKeeps ==
  ASSUME Types, [Next]_vars, ~Disturbed'
  PROVE  /\ ledger \in Seq(Requests) /\ ledger' \in Seq(Requests)
         /\ KeepsBatches(ledger', ledger)
         /\ closed => ledger' = ledger
<1>1. ledger \in Seq(Requests) /\ ledger' \in Seq(Requests)
  BY StateTypesNext DEF Types, StateTypes
<1>2. UNCHANGED ledger \/ \E r \in Requests : NewRow(r)
  BY LedgerSteps DEF Disturbed
<1> QED BY <1>1, <1>2, KeepsOwnBatches DEF NewRow

\* The poll closes once.
LEMMA ClosedSteps ==
  ASSUME [Next]_vars
  PROVE  UNCHANGED closed \/ ClosePoll
  BY OffClosing DEF InsertTally, CommitRoots, FinalizePoll, ChainReachesClose, offTally,
     offChain, clockVars

(* Batches that cannot change any more. *)

Settled(i, root) ==
    /\ i \in Nat \ {0} /\ i <= BatchCount(ledger)
    /\ Batch(ledger, i) = root
    /\ closed \/ i * BatchSize <= Len(ledger)

\* What is settled stays settled.
LEMMA SettledStays ==
  ASSUME Types, [Next]_vars, ~Disturbed', NEW i, NEW root, Settled(i, root)
  PROVE  Settled(i, root)'
<1>1. closed => closed'
  BY ClosedSteps DEF ClosePoll
<1>2. CASE UNCHANGED ledger
  BY <1>1, <1>2 DEF Settled, BatchCount, Batch
<1>3. CASE ~closed
  <2>1. i \in Nat \ {0} /\ i <= BatchCount(ledger) /\ i * BatchSize <= Len(ledger)
    BY <1>3 DEF Settled
  <2>2. /\ ledger \in Seq(Requests) /\ ledger' \in Seq(Requests)
        /\ KeepsBatches(ledger', ledger)
    BY LedgerKeeps
  <2>3. Batch(ledger', i) = Batch(ledger, i)
    BY <2>1, <2>2 DEF KeepsBatches
  <2>4. Len(ledger) \in Nat /\ Len(ledger') \in Nat /\ Len(ledger) <= Len(ledger')
    BY <2>2, LenProperties DEF KeepsBatches
  <2>5. i * BatchSize \in Nat
    BY <2>1, PreviousMultiple
  <2>6. i * BatchSize - BatchSize < Len(ledger') /\ i * BatchSize <= Len(ledger')
    BY <2>1, <2>4, <2>5, BatchSizeAssumption
  <2>7. i <= BatchCount(ledger')
    BY <2>1, <2>2, <2>6, BatchCountMeaning
  <2>8. BatchCount(ledger)' = BatchCount(ledger') /\ Batch(ledger, i)' = Batch(ledger', i)
    BY DEF BatchCount, Batch
  <2> QED BY <2>1, <2>3, <2>6, <2>7, <2>8 DEF Settled
<1> QED BY <1>2, <1>3, LedgerKeeps

\* A planned batch is full, or the records are complete.
LEMMA PlanSettles ==
  ASSUME ledger \in Seq(Requests), NEW s \in Seq(Requests), KeepsBatches(ledger, s),
         NEW i \in Nat \ {0}, i <= BatchCount(s),
         Len(Batch(s, i)) = BatchSize \/ (closed /\ s = ledger)
  PROVE  Settled(i, Batch(s, i))
<1>1. CASE closed /\ s = ledger
  BY <1>1 DEF Settled
<1>2. CASE Len(Batch(s, i)) = BatchSize
  <2>1. i * BatchSize <= Len(s)
    BY <1>2, FullBatch
  <2>2. Batch(ledger, i) = Batch(s, i)
    BY <2>1 DEF KeepsBatches
  <2>3. /\ Len(s) \in Nat /\ Len(ledger) \in Nat /\ Len(s) <= Len(ledger)
        /\ i * BatchSize \in Nat
    BY LenProperties, PreviousMultiple DEF KeepsBatches
  <2>4. i * BatchSize <= Len(ledger) /\ i * BatchSize - BatchSize < Len(ledger)
    BY <2>1, <2>3, BatchSizeAssumption
  <2>5. i <= BatchCount(ledger)
    BY <2>4, BatchCountMeaning
  <2> QED BY <2>2, <2>4, <2>5 DEF Settled
<1> QED BY <1>1, <1>2

\* What a step does to what a handler has read.
Kept(b) ==
    /\ local'[b].loaded = local[b].loaded /\ local'[b].records = local[b].records
    /\ local'[b].sealed = local[b].sealed /\ local'[b].proof = local[b].proof
    /\ local'[b].plan = local[b].plan

Rereads(b) ==
    \/ local'[b] = Fresh
    \/ ReadVotes(b)
    \/ /\ b \in Publishers
       /\ LoadRecords(b) \/ LoadProof(b) \/ BuildBatches(b) \/ PlanCommits(b)

\* A step keeps what a handler has read, or is one that reads.
LEMMA LocalSteps ==
  ASSUME Types, [Next]_vars, NEW b \in Actors
  PROVE  Kept(b) \/ Rereads(b)
<1> DEFINE Fine == Kept(b) \/ Rereads(b)
<1> USE DEF Types, Actors
<1>1. ASSUME NEW a \in Actors, Return(a) PROVE Fine
  BY <1>1 DEF Return, LocalTyped, Kept, Rereads
<1>2. ASSUME NEW x \in Actors, NEW todo,
             local' = [local EXCEPT ![x].todo = todo]
      PROVE  Fine
  BY <1>2, LocalFields DEF LocalTyped, LocalTypes, Kept
<1>3. ASSUME NEW x \in Publishers, BeginRecording(x) PROVE Fine
  BY <1>2, <1>3 DEF BeginRecording
<1>4. CASE UNCHANGED local
  BY <1>4 DEF Kept
<1>5. ASSUME NEW r \in Requests, BeginVote(r) PROVE Fine
  BY <1>5, <1>4 DEF BeginVote
<1>6. ASSUME NEW r \in Requests, InsertVote(r) PROVE Fine
  BY <1>6, <1>4 DEF InsertVote, InsertRow
<1>7. ASSUME NEW r \in Requests, AppendVoteAccepted(r) PROVE Fine
  BY <1>7, <1>4 DEF AppendVoteAccepted
<1>8. ASSUME NEW r \in Requests, LoseRequest(r) PROVE Fine
  BY <1>8, <1>4 DEF LoseRequest
<1>9. ASSUME ClosePoll PROVE Fine
  BY <1>9, <1>4 DEF ClosePoll
<1>10. ASSUME ChainReachesClose PROVE Fine
  BY <1>10, <1>4 DEF ChainReachesClose
<1>11. ASSUME Sweep PROVE Fine
  BY <1>11, <1>4 DEF Sweep
<1>12. ASSUME NEW w \in Provers, BeginJob(w) PROVE Fine
  BY <1>12, <1>4 DEF BeginJob
<1>13. ASSUME NEW w \in Provers, CompleteJob(w) PROVE Fine
  BY <1>13, <1>1 DEF CompleteJob
<1>14. ASSUME NEW s \in Submitters, BeginSubmission(s) PROVE Fine
  BY <1>14, <1>4 DEF BeginSubmission
<1>15. ASSUME NEW a \in Actors, ReadVotes(a) PROVE Fine
  <2>1. CASE b = a
    BY <1>15, <2>1 DEF Rereads
  <2>2. CASE b # a
    BY <1>15, <1>1, <2>2 DEF ReadVotes, GiveUp, Kept, LocalTyped
  <2> QED BY <2>1, <2>2
<1>16. ASSUME NEW a \in Actors, VerifyTally(a) PROVE Fine
  BY <1>16, <1>1, <1>4 DEF VerifyTally, GiveUp
<1>17. ASSUME NEW a \in Actors, InsertTally(a) PROVE Fine
  BY <1>17, <1>1, <1>4 DEF InsertTally
<1>18. ASSUME NEW a \in Actors, Abort(a) PROVE Fine
  BY <1>18, <1>1 DEF Abort
<1>19. ASSUME NEW x \in Publishers, OwnerPublishes(x) PROVE Fine
  BY <1>19, <1>4 DEF OwnerPublishes
<1>20. ASSUME NEW x \in Publishers, AutoPublish(x) PROVE Fine
  BY <1>20, <1>4 DEF AutoPublish
<1>21. ASSUME NEW x \in Publishers, LoadRecords(x) PROVE Fine
  <2>1. CASE b = x
    BY <1>21, <2>1 DEF Rereads
  <2>2. CASE b # x
    BY <1>21, <2>2 DEF LoadRecords, Kept, LocalTyped
  <2> QED BY <2>1, <2>2
<1>22. ASSUME NEW x \in Publishers, LoadProof(x) PROVE Fine
  <2>1. CASE b = x
    BY <1>22, <2>1 DEF Rereads
  <2>2. CASE b # x
    BY <1>22, <2>2 DEF LoadProof, Kept, LocalTyped
  <2> QED BY <2>1, <2>2
<1>23. ASSUME NEW x \in Publishers, BuildBatches(x) PROVE Fine
  <2>1. CASE b = x
    BY <1>23, <2>1 DEF Rereads
  <2>2. CASE b # x
    BY <1>23, <2>2 DEF BuildBatches, Kept, LocalTyped
  <2> QED BY <2>1, <2>2
<1>24. ASSUME NEW x \in Publishers, CheckMaterial(x) PROVE Fine
  BY <1>24, <1>1, <1>4 DEF CheckMaterial
<1>25. ASSUME NEW x \in Publishers, PlanCommits(x) PROVE Fine
  <2>1. CASE b = x
    BY <1>25, <2>1 DEF Rereads
  <2>2. CASE b # x
    BY <1>25, <2>2 DEF PlanCommits, Kept, LocalTyped
  <2> QED BY <2>1, <2>2
<1>26. ASSUME NEW x \in Publishers, FindPoll(x) PROVE Fine
  BY <1>26, <1>4 DEF FindPoll
<1>27. ASSUME NEW x \in Publishers, CreatePoll(x) PROVE Fine
  BY <1>27, <1>1, <1>4 DEF CreatePoll
<1>28. ASSUME NEW x \in Publishers, FindRoot(x) PROVE Fine
  BY <1>28, <1>3, <1>2, <1>4 DEF FindRoot
<1>29. ASSUME NEW x \in Publishers, CommitRoots(x) PROVE Fine
  BY <1>29, <1>1, <1>2, <1>4 DEF CommitRoots
<1>30. ASSUME NEW x \in Publishers, FindFinal(x) PROVE Fine
  BY <1>30, <1>3, <1>4 DEF FindFinal
<1>31. ASSUME NEW x \in Publishers, FinalizePoll(x) PROVE Fine
  BY <1>31, <1>1, <1>3, <1>4 DEF FinalizePoll
<1>32. ASSUME NEW x \in Publishers, InsertRoot(x) PROVE Fine
  BY <1>32, <1>1, <1>4 DEF InsertRoot
<1>33. ASSUME NEW x \in Publishers, MarkBatch(x) PROVE Fine
  BY <1>33, <1>4 DEF MarkBatch
<1>34. ASSUME NEW x \in Publishers, RecordRootEvent(x) PROVE Fine
  BY <1>34, <1>2, <1>4 DEF RecordRootEvent
<1>35. ASSUME NEW x \in Publishers, RecordFinalEvent(x) PROVE Fine
  BY <1>35, <1>4 DEF RecordFinalEvent
<1>36. ASSUME NEW x \in Publishers, Respond(x) PROVE Fine
  BY <1>36, <1>1 DEF Respond
<1>37. CASE UNCHANGED vars
  BY <1>37, <1>4 DEF vars
<1> QED
  BY <1>5, <1>6, <1>7, <1>8, <1>9, <1>10, <1>11, <1>12, <1>13, <1>14, <1>15, <1>16,
     <1>17, <1>18, <1>19, <1>20, <1>21, <1>22, <1>23, <1>24, <1>25, <1>26, <1>27,
     <1>28, <1>29, <1>30, <1>31, <1>32, <1>33, <1>34, <1>35, <1>36, <1>37
     DEF Next, VoteStep, TallyStep, PublishStep

\* Only insertRoot stores a root row.
LEMMA OffRows ==
  ASSUME [Next]_vars
  PROVE  (\E x \in Publishers : InsertRoot(x)) \/ UNCHANGED rootRow
<1> USE DEF dbVars, offTally, offReads, offChain, offRecording
<1>1. ASSUME NEW r, VoteStep(r) PROVE UNCHANGED rootRow
  BY <1>1 DEF VoteStep, BeginVote, InsertVote, InsertRow, AppendVoteAccepted, LoseRequest
<1>2. ASSUME NEW a, TallyStep(a) PROVE UNCHANGED rootRow
  BY <1>2 DEF TallyStep, ReadVotes, GiveUp, VerifyTally, InsertTally
<1>3. ASSUME NEW x, PublishStep(x) PROVE InsertRoot(x) \/ UNCHANGED rootRow
  BY <1>2, <1>3 DEF PublishStep, LoadRecords, LoadProof, BuildBatches, CheckMaterial,
     PlanCommits, FindPoll, CreatePoll, FindRoot, CommitRoots, FindFinal, FinalizePoll,
     MarkBatch, RecordRootEvent, RecordFinalEvent, Respond
<1>4. ASSUME NEW x, OwnerPublishes(x) \/ AutoPublish(x) PROVE UNCHANGED rootRow
  BY <1>4 DEF OwnerPublishes, AutoPublish
<1>5. ASSUME NEW a, BeginJob(a) \/ CompleteJob(a) \/ BeginSubmission(a) \/ Abort(a)
      PROVE  UNCHANGED rootRow
  BY <1>5 DEF BeginJob, CompleteJob, BeginSubmission, Abort
<1>6. CASE ClosePoll \/ ChainReachesClose \/ Sweep
  BY <1>6 DEF ClosePoll, ChainReachesClose, Sweep
<1>7. CASE UNCHANGED vars
  BY <1>7 DEF vars
<1> QED BY <1>1, <1>2, <1>3, <1>4, <1>5, <1>6, <1>7 DEF Next

\* What a handler has read of the votes.
ReadsLedger(a) ==
    /\ KeepsBatches(ledger, local[a].records)
    /\ a \notin Publishers => local[a].loaded = {}
    /\ closed /\ "records" \in local[a].loaded => local[a].records = ledger
    /\ local[a].sealed => closed /\ local[a].records = ledger
    /\ \A i \in local[a].plan : Settled(i, Batch(local[a].records, i))

\* What is anchored cannot change any more.
Anchors ==
    /\ \A i \in DOMAIN chainRoots : Settled(i, chainRoots[i])
    /\ \A i \in BatchIds : rootRow[i] # NoResult => Settled(i, rootRow[i])

Anchored == Anchors /\ \A a \in Actors : ReadsLedger(a)

\* Nothing is anchored at first.
LEMMA AnchoredInit ==
  Init => Anchored
<1> SUFFICES ASSUME Init PROVE Anchored
  OBVIOUS
<1>1. KeepsBatches(ledger, <<>>)
  <2>1. ledger = <<>> /\ ledger \in Seq(Requests)
    BY DEF Init
  <2> QED BY <2>1, KeepsOwnBatches
<1> QED BY <1>1 DEF Init, Anchored, Anchors, ReadsLedger, Fresh, BatchIds

\* What handlers have read keeps its full batches in the ledger, and a load that
\* spans the closing missed nothing, unless a race is on record.
LEMMA ReadsLedgerNext ==
  ASSUME Types, [Next]_vars, ~Disturbed', NEW b \in Actors, ReadsLedger(b)
  PROVE  ReadsLedger(b)'
<1>1. /\ ledger \in Seq(Requests) /\ ledger' \in Seq(Requests)
      /\ local[b].records \in Seq(Requests) /\ local[b].plan \subseteq BatchIds
  BY LedgerKeeps, LocalFields DEF Types
<1>2. KeepsBatches(ledger', local[b].records)
  BY <1>1, LedgerKeeps, KeepsBatchesOfBoth DEF ReadsLedger
<1>3. closed => closed' /\ ledger' = ledger
  BY LedgerKeeps, ClosedSteps DEF ClosePoll
<1>4. ASSUME NEW i \in local[b].plan, local'[b].records = local[b].records
      PROVE  Settled(i, Batch(local[b].records, i))'
  <2>1. PICK root : root = Batch(local[b].records, i)
    OBVIOUS
  <2>2. Settled(i, root)'
    BY <2>1, SettledStays DEF ReadsLedger
  <2>3. Batch(local[b].records, i)' = root
    BY <1>4, <2>1 DEF Batch
  <2> QED BY <2>2, <2>3 DEF Settled
<1>5. CASE Kept(b)
  <2>1. closed' /\ "records" \in local[b].loaded => local[b].records = ledger'
    <3>1. CASE closed
      BY <1>3, <3>1 DEF ReadsLedger
    <3>2. CASE ClosePoll
      <4>1. "load" \notin raced' /\ UNCHANGED ledger
        BY <3>2 DEF Disturbed, ClosePoll, voteVars
      <4>2. \A x \in Publishers : ~LoadIsStale(x)
        BY <3>2, <4>1 DEF ClosePoll
      <4> QED BY <4>1, <4>2 DEF LoadIsStale, ReadsLedger
    <3> QED BY <3>1, <3>2, ClosedSteps
  <2>2. \A i \in local[b].plan : Settled(i, Batch(local[b].records, i))'
    BY <1>4, <1>5 DEF Kept
  <2> QED BY <1>2, <1>3, <1>5, <2>1, <2>2 DEF Kept, ReadsLedger
<1>6. CASE local'[b] = Fresh
  <2>1. KeepsBatches(ledger', <<>>)
    BY <1>1, KeepsOwnBatches
  <2>2. /\ local'[b].loaded = {} /\ local'[b].records = <<>> /\ ~local'[b].sealed
        /\ local'[b].plan = {}
    BY <1>6 DEF Fresh
  <2> QED BY <2>1, <2>2 DEF ReadsLedger
<1>7. CASE /\ b \in Publishers /\ LoadRecords(b)
  <2>1. /\ UNCHANGED <<ledger, closed>> /\ local[b].plan = {}
        /\ local'[b].records = ledger /\ local'[b].plan = local[b].plan
        /\ local'[b].sealed = local[b].sealed
    BY <1>7, LocalFields
       DEF LoadRecords, LocalTypes, Types, LocalTyped, Prepared, LocalPrepared, Planning,
           offReads, clockVars, voteVars
  <2>2. KeepsBatches(ledger, ledger)
    BY <1>1, KeepsOwnBatches
  <2> QED BY <1>7, <2>1, <2>2 DEF ReadsLedger
<1>8. CASE /\ b \in Publishers /\ LoadProof(b)
  <2>1. /\ UNCHANGED <<ledger, closed>> /\ local[b].plan = {}
        /\ local'[b].records = local[b].records /\ local'[b].plan = local[b].plan
        /\ local'[b].sealed = local[b].sealed
        /\ local'[b].loaded = local[b].loaded \cup {"proof"}
    BY <1>8, LocalFields
       DEF LoadProof, LocalTypes, Types, LocalTyped, Prepared, LocalPrepared, Planning,
           offReads, clockVars, voteVars
  <2> QED BY <1>8, <2>1 DEF ReadsLedger
<1>9. CASE /\ b \in Publishers /\ BuildBatches(b)
  <2>1. /\ UNCHANGED <<ledger, closed>> /\ local[b].plan = {}
        /\ local'[b].records = local[b].records /\ local'[b].plan = local[b].plan
        /\ local'[b].sealed = closed /\ local'[b].loaded = {}
        /\ "records" \in local[b].loaded
    BY <1>9, LocalFields
       DEF BuildBatches, LocalTypes, Types, LocalTyped, Prepared, LocalPrepared, Planning,
           offReads, clockVars, voteVars
  <2> QED BY <1>9, <2>1 DEF ReadsLedger
<1>10. CASE b \in Publishers /\ PlanCommits(b)
  <2>1. /\ UNCHANGED <<ledger, closed>>
        /\ local'[b].records = local[b].records /\ local'[b].sealed = local[b].sealed
        /\ local'[b].loaded = local[b].loaded
    BY <1>10, LocalFields
       DEF PlanCommits, LocalTypes, Types, LocalTyped, offReads, clockVars, voteVars
  <2>2. ASSUME NEW i \in local'[b].plan
        PROVE  Settled(i, Batch(local[b].records, i))
    <3>1. /\ i \in BatchIds /\ i <= BatchCount(local[b].records)
          /\ Sealed(local[b], i)
      BY <1>10, <2>2, LocalFields DEF PlanCommits, LocalTypes, Types, LocalTyped
    <3>2. i \in Nat \ {0}
      BY <3>1 DEF BatchIds
    <3> QED BY <1>1, <3>1, <3>2, PlanSettles DEF ReadsLedger, Sealed
  <2>3. ASSUME NEW i \in local'[b].plan
        PROVE  Settled(i, Batch(local[b].records, i))'
    BY <2>1, <2>2 DEF Settled, Batch, BatchCount
  <2> QED BY <2>1, <2>3 DEF ReadsLedger
<1>11. CASE ReadVotes(b)
  <2>1. CASE Return(b)
    BY <1>6, <2>1 DEF Return, Types, LocalTyped
  <2>2. CASE local' = [local EXCEPT ![b].records = ledger]
    <3>1. /\ UNCHANGED <<ledger, closed>> /\ local[b].plan = {}
          /\ local'[b].records = ledger /\ local'[b].plan = local[b].plan
          /\ local'[b].sealed = local[b].sealed /\ local'[b].loaded = local[b].loaded
      BY <1>11, <2>2, LocalFields
         DEF ReadVotes, GiveUp, LocalTypes, Types, LocalTyped, Prepared, LocalPrepared, Planning,
             offTally, clockVars, voteVars
    <3>2. KeepsBatches(ledger, ledger)
      BY <1>1, KeepsOwnBatches
    <3> QED BY <3>1, <3>2 DEF ReadsLedger
  <2> QED BY <1>11, <2>1, <2>2 DEF ReadVotes, GiveUp
<1> QED BY <1>5, <1>6, <1>7, <1>8, <1>9, <1>10, <1>11, LocalSteps DEF Rereads

\* What a step anchors is settled, and what is anchored stays settled.
LEMMA AnchorsNext ==
  ASSUME Types, Rows, Anchored, [Next]_vars, ~Disturbed'
  PROVE  Anchors'
<1>1. ASSUME NEW i, NEW root, Settled(i, root) PROVE Settled(i, root)'
  BY <1>1, SettledStays
<1>2. /\ chainRoots \in Seq(Seq(Requests))
      /\ rootRow \in [BatchIds -> Seq(Requests) \cup {NoResult}]
  BY DEF Types, StateTypes
<1>3. ASSUME NEW x \in Publishers, NEW i \in local[x].todo
      PROVE  /\ Batch(local[x].records, i) \in Seq(Requests)
             /\ Settled(i, Batch(local[x].records, i))
  <2>1. i \in local[x].plan /\ x \in Actors
    BY <1>3 DEF Rows, OnChain, Actors
  <2> QED BY <2>1, LocalFields, BatchIsSeq DEF Anchored, ReadsLedger, Types, BatchIds
<1>4. \A i \in DOMAIN chainRoots' : \E root : chainRoots'[i] = root /\ Settled(i, root)
  <2>1. CASE UNCHANGED chainRoots
    BY <2>1 DEF Anchored, Anchors
  <2>2. ASSUME NEW x \in Publishers, CommitRoots(x)
        PROVE  \A i \in DOMAIN chainRoots' :
                 \E root : chainRoots'[i] = root /\ Settled(i, root)
    <3>1. ASSUME NEW i \in local[x].todo, i = Len(chainRoots) + 1,
                 chainRoots' = Append(chainRoots, Batch(local[x].records, i))
          PROVE  \A k \in DOMAIN chainRoots' :
                   \E root : chainRoots'[k] = root /\ Settled(k, root)
      <4>1. PICK root \in Seq(Requests) : root = Batch(local[x].records, i)
        BY <1>3
      <4>2. Settled(i, root) /\ chainRoots' = Append(chainRoots, root)
        BY <1>3, <3>1, <4>1
      <4>3. /\ Len(chainRoots') = Len(chainRoots) + 1
            /\ \A k \in 1..Len(chainRoots) : chainRoots'[k] = chainRoots[k]
            /\ chainRoots'[Len(chainRoots) + 1] = root
            /\ chainRoots' \in Seq(Seq(Requests))
        BY <1>2, <4>2, AppendProperties
      <4>4. /\ DOMAIN chainRoots' = 1..Len(chainRoots) + 1
            /\ DOMAIN chainRoots = 1..Len(chainRoots) /\ Len(chainRoots) \in Nat
        BY <1>2, <4>3, LenProperties
      <4>5. ASSUME NEW k \in DOMAIN chainRoots'
            PROVE  \E rt : chainRoots'[k] = rt /\ Settled(k, rt)
        <5>1. k \in 1..Len(chainRoots) \/ k = Len(chainRoots) + 1
          BY <4>4
        <5>2. CASE k \in 1..Len(chainRoots)
          BY <4>3, <4>4, <5>2 DEF Anchored, Anchors
        <5>3. CASE k = Len(chainRoots) + 1
          BY <3>1, <4>2, <4>3, <5>3
        <5> QED BY <5>1, <5>2, <5>3
      <4> QED BY <4>5
    <3> QED BY <2>1, <2>2, <3>1 DEF CommitRoots, First
  <2>3. ASSUME NEW x \in Publishers, FinalizePoll(x) PROVE UNCHANGED chainRoots
    BY <2>3 DEF FinalizePoll
  <2>4. ASSUME NEW a, InsertTally(a) PROVE UNCHANGED chainRoots
    BY <2>4 DEF InsertTally, offTally, chainVars
  <2>5. CASE ClosePoll \/ ChainReachesClose
    BY <2>5, <2>1 DEF ClosePoll, ChainReachesClose, chainVars
  <2> QED BY <2>1, <2>2, <2>3, <2>4, <2>5, OffClosing
<1>5. \A i \in BatchIds : rootRow'[i] # NoResult =>
        \E root : rootRow'[i] = root /\ Settled(i, root)
  <2>1. CASE UNCHANGED rootRow
    BY <2>1 DEF Anchored, Anchors
  <2>2. ASSUME NEW x \in Publishers, InsertRoot(x)
        PROVE  \A i \in BatchIds : rootRow'[i] # NoResult =>
                 \E root : rootRow'[i] = root /\ Settled(i, root)
    <3>1. CASE UNCHANGED rootRow
      BY <2>1, <3>1
    <3>2. ASSUME NEW i \in local[x].todo,
                 rootRow' = [rootRow EXCEPT ![i] = Batch(local[x].records, i)]
          PROVE  \A k \in BatchIds : rootRow'[k] # NoResult =>
                   \E root : rootRow'[k] = root /\ Settled(k, root)
      BY <1>2, <1>3, <3>2 DEF Anchored, Anchors
    <3> QED BY <2>2, <3>1, <3>2 DEF InsertRoot, First
  <2> QED BY <2>1, <2>2, OffRows
<1>6. \A i \in DOMAIN chainRoots' : Settled(i, chainRoots[i])'
  <2> SUFFICES ASSUME NEW i \in DOMAIN chainRoots' PROVE Settled(i, chainRoots[i])'
    OBVIOUS
  <2>1. PICK root : chainRoots'[i] = root /\ Settled(i, root)
    BY <1>4
  <2>2. Settled(i, root)'
    BY <1>1, <2>1
  <2> QED BY <2>1, <2>2 DEF Settled
<1>7. \A i \in BatchIds : rootRow'[i] # NoResult => Settled(i, rootRow[i])'
  <2> SUFFICES ASSUME NEW i \in BatchIds, rootRow'[i] # NoResult
               PROVE  Settled(i, rootRow[i])'
    OBVIOUS
  <2>1. PICK root : rootRow'[i] = root /\ Settled(i, root)
    BY <1>5
  <2>2. Settled(i, root)'
    BY <1>1, <2>1
  <2> QED BY <2>1, <2>2 DEF Settled
<1> QED BY <1>6, <1>7 DEF Anchors

\* Batches are anchored once they are settled.
LEMMA AnchoredAlways ==
  Spec => [](Types /\ Answers /\ Rows /\ (~Disturbed => Anchored))
<1> DEFINE Inv == Types /\ Answers /\ Rows /\ (~Disturbed => Anchored)
<1>1. Init => Inv
  BY TypesInit, AnswersInit, RowsInit, AnchoredInit
<1>2. Inv /\ [Next]_vars => Inv'
  <2> SUFFICES ASSUME Inv, [Next]_vars PROVE Inv'
    OBVIOUS
  <2>1. Types'
    BY LocalTypedNext, PcTypedNext, StateTypesNext, PreparedNext DEF Types
  <2>2. Answers' /\ Rows'
    BY AnswersNext, RowsNext
  <2>3. ASSUME ~Disturbed' PROVE Anchored'
    <3>1. Anchored
      BY <2>3, DisturbedStays
    <3>2. \A a \in Actors : ReadsLedger(a)'
      BY <2>3, <3>1, ReadsLedgerNext DEF Anchored
    <3> QED BY <2>3, <3>1, <3>2, AnchorsNext DEF Anchored
  <2> QED BY <2>1, <2>2, <2>3
<1> QED BY <1>1, <1>2, PTL DEF Spec

\* Whatever overlaps, a batch on chain is the batch of the ledger for good, so that
\* inclusion proofs lead to the anchored root, until a vote is accepted late or a
\* load that a vote outdated is sealed: nothing else in the code can break it.
THEOREM BatchesAreImmutable == Spec => []AnchoredBatchesAreImmutable
<1>1. (~Disturbed => Anchored) => AnchoredBatchesAreImmutable
  BY DEF Anchored, Anchors, Settled, AnchoredBatchesAreImmutable, BatchesAreOfLedger
<1> QED BY <1>1, AnchoredAlways, PTL

\* And a root row, also one repaired after a crash, has the root on chain.
THEOREM RowsMatchChain == Spec => []RootRowsMatchChain
<1>1. Types /\ Rows /\ (~Disturbed => Anchored) => RootRowsMatchChain
  <2> SUFFICES ASSUME Types, Rows, Anchored, NEW i \in BatchIds, rootRow[i] # NoResult
               PROVE  rootRow[i] = chainRoots[i]
    BY DEF RootRowsMatchChain
  <2>1. /\ i <= Len(chainRoots) /\ Len(chainRoots) \in Nat
        /\ DOMAIN chainRoots = 1..Len(chainRoots)
    BY LenProperties DEF Rows, RowsFollowChain, Types, StateTypes
  <2>2. i \in DOMAIN chainRoots
    BY <2>1 DEF BatchIds
  <2> QED BY <2>2 DEF Anchored, Anchors, Settled
<1> QED BY <1>1, AnchoredAlways, PTL

-----------------------------------------------------------------------------
(* Tally proofs count every vote on record, until handlers race. *)

Counts(a) ==
    /\ pc[a] \in {"inserting", "completing", "reload"} => closed
    /\ pc[a] = "inserting" => local[a].records = ledger
    /\ /\ local[a].proof # NoResult
       /\ pc[a] \notin {"load", "reload"} \/ "records" \in local[a].loaded
       => local[a].records = ledger

Counted ==
    /\ job # "none" => closed
    /\ \A k \in DOMAIN proofs : closed /\ proofs[k] = ledger
    /\ \A a \in Actors : Counts(a)

\* A result that is whole: that of all votes, with a tally proof on record.
Whole(e) ==
    /\ e.proof \in DOMAIN proofs
    /\ e = [root |-> LastBatch(ledger), votes |-> ledger, proof |-> e.proof]

ResultCounted ==
    /\ chainFinal # NoResult => Whole(chainFinal)
    /\ \A e \in finalEvents : Whole(e)

\* There is no tally at first.
LEMMA CountedInit ==
  Init => Counted /\ ResultCounted
  BY DEF Init, Counted, ResultCounted, Counts, Fresh

\* A job is queued and served only when the poll is closed; otherwise it fails
\* at most.
LEMMA OffJob ==
  ASSUME [Next]_vars
  PROVE  \/ UNCHANGED job
         \/ closed \/ job # "none"
         \/ \E w \in Provers : CompleteJob(w)
<1> DEFINE Fine == UNCHANGED job \/ closed \/ job # "none"
<1> USE DEF tallyVars, offTally, offReads, offChain, offRecording
<1>1. ASSUME NEW r, VoteStep(r) PROVE Fine
  BY <1>1 DEF VoteStep, BeginVote, CloseExpired, InsertVote, InsertRow, AppendVoteAccepted, LoseRequest
<1>2. ASSUME NEW a, TallyStep(a) PROVE Fine
  BY <1>2 DEF TallyStep, ReadVotes, GiveUp, VerifyTally, InsertTally
<1>3. ASSUME NEW x, PublishStep(x) PROVE Fine
  BY <1>2, <1>3 DEF PublishStep, LoadRecords, LoadProof, BuildBatches, CheckMaterial,
     ProofMissing, PlanCommits, FindPoll, CreatePoll, FindRoot, CommitRoots, FindFinal,
     FinalizePoll, InsertRoot, MarkBatch, RecordRootEvent, RecordFinalEvent, Respond
<1>4. ASSUME NEW x, OwnerPublishes(x) \/ AutoPublish(x) PROVE Fine
  BY <1>4 DEF OwnerPublishes, CloseExpired, AutoPublish
<1>5. ASSUME NEW a, BeginJob(a) \/ BeginSubmission(a) \/ Abort(a) PROVE Fine
  BY <1>5 DEF BeginJob, BeginSubmission, Abort
<1>6. CASE ClosePoll \/ ChainReachesClose \/ Sweep
  BY <1>6 DEF ClosePoll, ChainReachesClose, Sweep
<1>7. CASE UNCHANGED vars
  BY <1>7 DEF vars
<1> QED BY <1>1, <1>2, <1>3, <1>4, <1>5, <1>6, <1>7 DEF Next

\* Only one step records final events.
LEMMA OffFinalEvents ==
  ASSUME [Next]_vars
  PROVE  (\E x \in Publishers : RecordFinalEvent(x)) \/ UNCHANGED finalEvents
<1> USE DEF dbVars, offTally, offReads, offChain, offRecording
<1>1. ASSUME NEW r, VoteStep(r) PROVE UNCHANGED finalEvents
  BY <1>1 DEF VoteStep, BeginVote, InsertVote, InsertRow, AppendVoteAccepted, LoseRequest
<1>2. ASSUME NEW a, TallyStep(a) PROVE UNCHANGED finalEvents
  BY <1>2 DEF TallyStep, ReadVotes, GiveUp, VerifyTally, InsertTally
<1>3. ASSUME NEW x, PublishStep(x) PROVE RecordFinalEvent(x) \/ UNCHANGED finalEvents
  BY <1>2, <1>3 DEF PublishStep, LoadRecords, LoadProof, BuildBatches, CheckMaterial,
     PlanCommits, FindPoll, CreatePoll, FindRoot, CommitRoots, FindFinal, FinalizePoll,
     InsertRoot, MarkBatch, RecordRootEvent, Respond
<1>4. ASSUME NEW x, OwnerPublishes(x) \/ AutoPublish(x) PROVE UNCHANGED finalEvents
  BY <1>4 DEF OwnerPublishes, AutoPublish
<1>5. ASSUME NEW a, BeginJob(a) \/ CompleteJob(a) \/ BeginSubmission(a) \/ Abort(a)
      PROVE  UNCHANGED finalEvents
  BY <1>5 DEF BeginJob, CompleteJob, BeginSubmission, Abort
<1>6. CASE ClosePoll \/ ChainReachesClose \/ Sweep
  BY <1>6 DEF ClosePoll, ChainReachesClose, Sweep
<1>7. CASE UNCHANGED vars
  BY <1>7 DEF vars
<1> QED BY <1>1, <1>2, <1>3, <1>4, <1>5, <1>6, <1>7 DEF Next

\* Every step keeps a tally that is under way, or was loaded, up to date.
LEMMA CountsNext ==
  ASSUME Types, Anchored, Counted, [Next]_vars, raced' = {}
  PROVE  \A b \in Actors : Counts(b)'
<1> DEFINE Fine == \A b \in Actors : Counts(b)'
<1>1. closed => closed' /\ ledger' = ledger
  BY LedgerKeeps, ClosedSteps DEF ClosePoll, Disturbed
<1>2. \A b \in Actors :
        /\ local[b].proof # NoResult => closed
        /\ Counts(b)
        /\ closed /\ "records" \in local[b].loaded => local[b].records = ledger
  BY DEF Types, Prepared, LocalPrepared, Counted, Anchored, ReadsLedger
<1>3. ASSUME NEW b \in Actors, local'[b] = local[b], pc'[b] = pc[b] PROVE Counts(b)'
  <2>1. /\ local[b].proof # NoResult => closed
        /\ Counts(b)
    BY <1>2
  <2>2. /\ local'[b].proof = local[b].proof /\ local'[b].records = local[b].records
        /\ local'[b].loaded = local[b].loaded
    BY <1>3
  <2> QED BY <1>1, <1>3, <2>1, <2>2 DEF Counts
<1> USE DEF GoTo, LocalTyped, PcTyped
<1>4. ASSUME NEW a \in Actors, Return(a) PROVE Fine
  <2>1. Counts(a)'
    BY <1>4 DEF Return, Fresh, Types, Counts
  <2>2. \A b \in Actors : b # a => local'[b] = local[b] /\ pc'[b] = pc[b]
    BY <1>4 DEF Return, Types
  <2> QED BY <1>3, <2>1, <2>2
<1>5. CASE UNCHANGED <<pc, local>>
  BY <1>3, <1>5
\* Steps that neither tally nor load.
<1>6. ASSUME NEW a \in Actors, Kept(a), \A b \in Actors : b # a => local'[b] = local[b],
             NEW to, GoTo(a, to),
             to \in {"inserting", "completing", "reload"} => closed,
             to = "inserting" => local[a].records = ledger,
             pc[a] \notin {"load", "reload"} \/ (to = pc[a])
      PROVE  Fine
  <2>1. pc'[a] = to /\ \A b \in Actors : b # a => pc'[b] = pc[b]
    BY <1>6 DEF Types
  <2>2. Counts(a)'
    <3>1. /\ local[a].proof # NoResult => closed
          /\ Counts(a)
      BY <1>2
    <3>2. /\ local'[a].proof = local[a].proof /\ local'[a].records = local[a].records
          /\ local'[a].loaded = local[a].loaded
      BY <1>6 DEF Kept
    <3> QED BY <1>1, <1>6, <2>1, <3>1, <3>2 DEF Counts
  <2> QED BY <1>3, <1>6, <2>1, <2>2
<1>7. ASSUME NEW x \in Publishers, BeginRecording(x),
             pc[x] \notin {"load", "reload"}
      PROVE  Fine
  <2>1. x \in Actors /\ Kept(x)
    BY <1>7, LocalFields DEF BeginRecording, Types, Actors, Kept, LocalTypes
  <2>2. \A b \in Actors : b # x => local'[b] = local[b]
    BY <1>7, <2>1 DEF BeginRecording, Types
  <2>3. PICK to \in {"insertRoot", "finalEvent", "respond"} : GoTo(x, to)
    BY <1>7 DEF BeginRecording
  <2> QED BY <1>6, <1>7, <2>1, <2>2, <2>3
<1>8. ASSUME NEW a \in Actors, UNCHANGED local, NEW to, GoTo(a, to),
             to \in {"inserting", "completing", "reload"} => closed,
             to = "inserting" => local[a].records = ledger,
             pc[a] \notin {"load", "reload"} \/ (to = pc[a])
      PROVE  Fine
  BY <1>6, <1>8 DEF Kept
<1>9. ASSUME NEW r \in Requests, BeginVote(r) PROVE Fine
  BY <1>5, <1>9 DEF BeginVote
<1>10. ASSUME NEW r \in Requests, InsertVote(r) PROVE Fine
  BY <1>5, <1>10 DEF InsertVote, InsertRow
<1>11. ASSUME NEW r \in Requests, AppendVoteAccepted(r) PROVE Fine
  BY <1>5, <1>11 DEF AppendVoteAccepted
<1>12. ASSUME NEW r \in Requests, LoseRequest(r) PROVE Fine
  BY <1>5, <1>12 DEF LoseRequest
<1>13. ASSUME ClosePoll PROVE Fine
  BY <1>5, <1>13 DEF ClosePoll
<1>14. ASSUME ChainReachesClose PROVE Fine
  BY <1>5, <1>14 DEF ChainReachesClose
<1>15. ASSUME Sweep PROVE Fine
  BY <1>5, <1>15 DEF Sweep
<1>16. ASSUME NEW w \in Provers, BeginJob(w) PROVE Fine
  <2>1. closed /\ w \in Actors /\ pc[w] = "idle" /\ UNCHANGED local
    BY <1>16 DEF BeginJob, Counted, Actors
  <2>2. PICK to \in {"reading", "completing"} : GoTo(w, to)
    BY <1>16 DEF BeginJob
  <2> QED BY <1>8, <2>1, <2>2
<1>17. ASSUME NEW w \in Provers, CompleteJob(w) PROVE Fine
  BY <1>4, <1>17 DEF CompleteJob, Actors
<1>18. ASSUME NEW s \in Submitters, BeginSubmission(s) PROVE Fine
  BY <1>8, <1>18 DEF BeginSubmission, Actors
<1>19. ASSUME NEW a \in Actors, ReadVotes(a) PROVE Fine
  <2>1. CASE Return(a)
    BY <1>4, <2>1
  <2>2. CASE local' = [local EXCEPT ![a].records = ledger] /\ GoTo(a, "verifying")
    <3>1. UNCHANGED ledger
      BY <1>19 DEF ReadVotes, offTally, voteVars
    <3>2. pc'[a] = "verifying" /\ \A b \in Actors : b # a => pc'[b] = pc[b]
      BY <2>2 DEF Types
    <3>3. local'[a].records = ledger /\ \A b \in Actors : b # a => local'[b] = local[b]
      BY <2>2, LocalFields DEF Types, LocalTypes
    <3>4. Counts(a)'
      BY <3>1, <3>2, <3>3 DEF Counts
    <3> QED BY <1>3, <3>2, <3>3, <3>4
  <2> QED BY <1>19, <2>1, <2>2 DEF ReadVotes, GiveUp
<1>20. ASSUME NEW a \in Actors, VerifyTally(a) PROVE Fine
  <2>1. CASE Return(a)
    BY <1>4, <2>1
  <2>2. CASE ledger = local[a].records
    <3>1. closed /\ pc[a] = "verifying"
      BY <1>20, <2>2 DEF VerifyTally
    <3> QED BY <1>8, <1>20, <2>2, <3>1 DEF VerifyTally
  <2> QED BY <1>20, <2>1, <2>2 DEF VerifyTally, GiveUp
<1>21. ASSUME NEW a \in Actors, InsertTally(a) PROVE Fine
  <2>1. closed /\ pc[a] = "inserting"
    BY <1>2, <1>21 DEF InsertTally, Counts
  <2>2. CASE Return(a)
    BY <1>4, <2>2
  <2>3. CASE UNCHANGED local /\ \E to \in {"completing", "reload"} : GoTo(a, to)
    BY <1>8, <2>1, <2>3
  <2> QED BY <1>21, <2>2, <2>3 DEF InsertTally
<1>22. ASSUME NEW a \in Actors, Abort(a) PROVE Fine
  BY <1>4, <1>22 DEF Abort
<1>23. ASSUME NEW x \in Publishers, OwnerPublishes(x) PROVE Fine
  BY <1>8, <1>23 DEF OwnerPublishes, Actors
<1>24. ASSUME NEW x \in Publishers, AutoPublish(x) PROVE Fine
  BY <1>8, <1>24 DEF AutoPublish, Actors
<1>25. ASSUME NEW x \in Publishers, LoadRecords(x) PROVE Fine
  <2>1. x \in Actors /\ UNCHANGED pc
    BY <1>25 DEF LoadRecords, Actors
  <2>2. local'[x].records = ledger /\ \A b \in Actors : b # x => local'[b] = local[b]
    BY <1>25, <2>1, LocalFields DEF LoadRecords, Types, LocalTypes
  <2>3. UNCHANGED <<closed, ledger>> /\ pc'[x] = pc[x] /\ pc[x] \in {"load", "reload"}
    BY <1>25, <2>1 DEF LoadRecords, offReads, clockVars, voteVars
  <2>4. Counts(x)'
    BY <1>2, <2>1, <2>2, <2>3 DEF Counts
  <2> QED BY <1>3, <2>1, <2>2, <2>4
<1>26. ASSUME NEW x \in Publishers, LoadProof(x) PROVE Fine
  <2>1. x \in Actors /\ UNCHANGED pc
    BY <1>26 DEF LoadProof, Actors
  <2>2. /\ local'[x].records = local[x].records
        /\ local'[x].proof = LatestProof
        /\ local'[x].loaded = local[x].loaded \cup {"proof"}
        /\ \A b \in Actors : b # x => local'[b] = local[b]
    BY <1>26, <2>1, LocalFields DEF LoadProof, Types, LocalTypes
  <2>3. UNCHANGED <<closed, ledger>> /\ pc'[x] = pc[x] /\ pc[x] \in {"load", "reload"}
    BY <1>26, <2>1 DEF LoadProof, offReads, clockVars, voteVars
  <2>4. LatestProof # NoResult => closed
    <3>1. proofs # <<>> => Len(proofs) \in DOMAIN proofs
      BY LenProperties, EmptySeq DEF Types, StateTypes
    <3> QED BY <3>1 DEF LatestProof, Counted
  <2>5. Counts(x)'
    BY <1>2, <2>1, <2>2, <2>3, <2>4 DEF Counts
  <2> QED BY <1>3, <2>1, <2>2, <2>5
<1>27. ASSUME NEW x \in Publishers, BuildBatches(x) PROVE Fine
  <2>1. x \in Actors
    BY DEF Actors
  <2>2. /\ local'[x].records = local[x].records /\ local'[x].proof = local[x].proof
        /\ "records" \in local[x].loaded
        /\ \A b \in Actors : b # x => local'[b] = local[b]
    BY <1>27, <2>1, LocalFields DEF BuildBatches, Types, LocalTypes
  <2>3. /\ UNCHANGED <<closed, ledger>> /\ pc'[x] \in {"check", "roots"}
        /\ \A b \in Actors : b # x => pc'[b] = pc[b]
    BY <1>27, <2>1 DEF BuildBatches, offReads, clockVars, voteVars, Types
  <2>4. Counts(x)'
    BY <1>2, <2>1, <2>2, <2>3 DEF Counts
  <2> QED BY <1>3, <2>2, <2>3, <2>4
<1>28. ASSUME NEW x \in Publishers, CheckMaterial(x) PROVE Fine
  <2>1. x \in Actors
    BY DEF Actors
  <2>2. CASE Return(x)
    BY <1>4, <2>1, <2>2
  <2>3. CASE UNCHANGED local /\ GoTo(x, "reading") /\ closed
    BY <1>8, <1>28, <2>1, <2>3 DEF CheckMaterial
  <2>4. CASE UNCHANGED local /\ GoTo(x, "roots")
    BY <1>8, <1>28, <2>1, <2>4 DEF CheckMaterial
  <2> QED BY <1>28, <2>2, <2>3, <2>4 DEF CheckMaterial, ProofMissing
<1>29. ASSUME NEW x \in Publishers, PlanCommits(x) PROVE Fine
  <2>1. x \in Actors
    BY DEF Actors
  <2>2. /\ local'[x].records = local[x].records /\ local'[x].proof = local[x].proof
        /\ \A b \in Actors : b # x => local'[b] = local[b]
    BY <1>29, <2>1, LocalFields DEF PlanCommits, Types, LocalTypes
  <2>3. /\ UNCHANGED <<closed, ledger>> /\ pc[x] = "roots" /\ pc'[x] = "findPoll"
        /\ \A b \in Actors : b # x => pc'[b] = pc[b]
    BY <1>29, <2>1 DEF PlanCommits, offReads, clockVars, voteVars, Types
  <2>4. Counts(x)'
    BY <1>2, <2>1, <2>2, <2>3 DEF Counts
  <2> QED BY <1>3, <2>2, <2>3, <2>4
<1>30. ASSUME NEW x \in Publishers, FindPoll(x) PROVE Fine
  BY <1>8, <1>30 DEF FindPoll, Actors
<1>31. ASSUME NEW x \in Publishers, CreatePoll(x) PROVE Fine
  BY <1>4, <1>8, <1>31 DEF CreatePoll, Actors
<1>32. ASSUME NEW x \in Publishers, FindRoot(x) PROVE Fine
  <2>1. x \in Actors
    BY DEF Actors
  <2>2. ASSUME NEW i, local' = [local EXCEPT ![x].todo = @ \ {i}]
        PROVE  Kept(x) /\ \A b \in Actors : b # x => local'[b] = local[b]
    BY <2>1, <2>2, LocalFields DEF Kept, Types, LocalTypes
  <2>3. pc[x] = "findRoot"
    BY <1>32 DEF FindRoot
  <2>4. ASSUME NEW i, local' = [local EXCEPT ![x].todo = @ \ {i}], UNCHANGED pc
        PROVE  Fine
    <3>1. \A b \in Actors : pc'[b] = pc[b]
      BY <2>4
    <3>2. GoTo(x, "findRoot")
      BY <2>1, <2>3, <2>4 DEF Types
    <3> QED BY <1>6, <2>1, <2>2, <2>3, <2>4, <3>2
  <2>5. CASE UNCHANGED local /\ \E to \in {"commit", "findFinal"} : GoTo(x, to)
    BY <1>8, <2>1, <2>3, <2>5
  <2>6. CASE BeginRecording(x)
    BY <1>7, <2>3, <2>6
  <2> QED BY <1>32, <2>4, <2>5, <2>6 DEF FindRoot
<1>33. ASSUME NEW x \in Publishers, CommitRoots(x) PROVE Fine
  <2>1. x \in Actors
    BY DEF Actors
  <2>2. ASSUME NEW i, local' = [local EXCEPT ![x].todo = @ \ {i}]
        PROVE  Kept(x) /\ \A b \in Actors : b # x => local'[b] = local[b]
    BY <2>1, <2>2, LocalFields DEF Kept, Types, LocalTypes
  <2>3. pc[x] = "commit"
    BY <1>33 DEF CommitRoots
  <2>4. ASSUME NEW i, local' = [local EXCEPT ![x].todo = @ \ {i}], GoTo(x, "findRoot")
        PROVE  Fine
    BY <1>6, <2>1, <2>2, <2>3, <2>4
  <2>5. CASE Return(x)
    BY <1>4, <2>1, <2>5
  <2> QED BY <1>33, <2>4, <2>5 DEF CommitRoots
<1>34. ASSUME NEW x \in Publishers, FindFinal(x) PROVE Fine
  BY <1>7, <1>8, <1>34 DEF FindFinal, Actors
<1>35. ASSUME NEW x \in Publishers, FinalizePoll(x) PROVE Fine
  BY <1>4, <1>7, <1>35 DEF FinalizePoll, Actors
<1>36. ASSUME NEW x \in Publishers, InsertRoot(x) PROVE Fine
  BY <1>4, <1>8, <1>36 DEF InsertRoot, Actors
<1>37. ASSUME NEW x \in Publishers, MarkBatch(x) PROVE Fine
  BY <1>8, <1>37 DEF MarkBatch, Actors
<1>38. ASSUME NEW x \in Publishers, RecordRootEvent(x) PROVE Fine
  <2>1. x \in Actors
    BY DEF Actors
  <2>2. ASSUME NEW i, local' = [local EXCEPT ![x].todo = @ \ {i}]
        PROVE  Kept(x) /\ \A b \in Actors : b # x => local'[b] = local[b]
    BY <2>1, <2>2, LocalFields DEF Kept, Types, LocalTypes
  <2>3. pc[x] = "rootEvent"
    BY <1>38 DEF RecordRootEvent
  <2>4. ASSUME NEW i, local' = [local EXCEPT ![x].todo = @ \ {i}],
               NEW to \in {"insertRoot", "finalEvent", "respond"}, GoTo(x, to)
        PROVE  Fine
    BY <1>6, <2>1, <2>2, <2>3, <2>4
  <2> QED BY <1>38, <2>4 DEF RecordRootEvent
<1>39. ASSUME NEW x \in Publishers, RecordFinalEvent(x) PROVE Fine
  BY <1>8, <1>39 DEF RecordFinalEvent, Actors
<1>40. ASSUME NEW x \in Publishers, Respond(x) PROVE Fine
  BY <1>4, <1>40 DEF Respond, Actors
<1>41. CASE UNCHANGED vars
  BY <1>5, <1>41 DEF vars
<1> QED
  BY <1>9, <1>10, <1>11, <1>12, <1>13, <1>14, <1>15, <1>16, <1>17, <1>18, <1>19,
     <1>20, <1>21, <1>22, <1>23, <1>24, <1>25, <1>26, <1>27, <1>28, <1>29, <1>30,
     <1>31, <1>32, <1>33, <1>34, <1>35, <1>36, <1>37, <1>38, <1>39, <1>40, <1>41
     DEF Next, VoteStep, TallyStep, PublishStep, Actors

\* Every step keeps the stored tally proofs up to date.
LEMMA CountedNext ==
  ASSUME Types, Anchored, Counted, [Next]_vars, raced' = {}
  PROVE  Counted'
<1>1. closed => closed' /\ ledger' = ledger
  BY LedgerKeeps, ClosedSteps DEF ClosePoll, Disturbed
<1>2. job' # "none" => closed'
  <2>1. ASSUME NEW w \in Provers, CompleteJob(w) PROVE closed
    BY <2>1 DEF CompleteJob, Counted, Counts, Actors
  <2> QED BY <1>1, <2>1, OffJob DEF Counted
<1>3. \A k \in DOMAIN proofs' : closed' /\ proofs'[k] = ledger'
  <2>1. CASE UNCHANGED proofs
    BY <1>1, <2>1 DEF Counted
  <2>2. ASSUME NEW a \in Actors, InsertTally(a)
        PROVE  \A k \in DOMAIN proofs' : closed' /\ proofs'[k] = ledger'
    <3>1. closed /\ proofs' = Append(proofs, ledger) /\ ledger' = ledger
      BY <1>1, <2>2 DEF InsertTally, Counted, Counts
    <3>2. proofs \in Seq(Seq(Requests)) /\ ledger \in Seq(Requests)
      BY DEF Types, StateTypes
    <3>3. /\ Len(proofs') = Len(proofs) + 1 /\ proofs' \in Seq(Seq(Requests))
          /\ \A k \in 1..Len(proofs) : proofs'[k] = proofs[k]
          /\ proofs'[Len(proofs) + 1] = ledger
      BY <3>1, <3>2, AppendProperties
    <3>4. /\ DOMAIN proofs' = 1..Len(proofs) + 1
          /\ DOMAIN proofs = 1..Len(proofs) /\ Len(proofs) \in Nat
      BY <3>2, <3>3, LenProperties
    <3> QED BY <1>1, <3>1, <3>3, <3>4 DEF Counted
  <2>3. ASSUME NEW x, CommitRoots(x) \/ FinalizePoll(x) PROVE UNCHANGED proofs
    BY <2>3 DEF CommitRoots, FinalizePoll, offChain, tallyVars
  <2>4. CASE ClosePoll \/ ChainReachesClose
    BY <2>1, <2>4 DEF ClosePoll, ChainReachesClose, tallyVars
  <2> QED BY <2>1, <2>2, <2>3, <2>4, OffClosing
<1> QED BY <1>2, <1>3, CountsNext DEF Counted

\* The result of a call that has one is that of all votes.
LEMMA WholeResult ==
  ASSUME Types, Counted, NEW x \in Publishers, pc[x] \in {"finalize", "finalEvent"}
  PROVE  closed /\ Whole(Result(local[x]))
<1>1. x \in Actors
  BY DEF Actors
<1>2. local[x].proof \in DOMAIN proofs /\ local[x].proof # NoResult
  BY <1>1 DEF Types, Prepared, LocalPrepared
<1>3. local[x].records = ledger /\ closed /\ proofs[local[x].proof] = ledger
  BY <1>1, <1>2 DEF Counted, Counts
<1> QED BY <1>2, <1>3 DEF Result, Whole

\* Tally proofs are kept.
LEMMA ProofsStay ==
  ASSUME Types, [Next]_vars
  PROVE  \A p \in DOMAIN proofs : p \in DOMAIN proofs' /\ proofs'[p] = proofs[p]
<1>1. ASSUME NEW a \in Actors, InsertTally(a)
      PROVE  \A p \in DOMAIN proofs : p \in DOMAIN proofs' /\ proofs'[p] = proofs[p]
  <2>1. proofs \in Seq(Seq(Requests)) /\ local[a].records \in Seq(Requests)
    BY LocalFields DEF Types, StateTypes
  <2>2. proofs' = Append(proofs, local[a].records)
    BY <1>1 DEF InsertTally
  <2> QED BY <2>1, <2>2, AppendProperties, LenProperties
<1>2. ASSUME NEW x, CommitRoots(x) \/ FinalizePoll(x) PROVE UNCHANGED proofs
  BY <1>2 DEF CommitRoots, FinalizePoll, offChain, tallyVars
<1>3. CASE ClosePoll \/ ChainReachesClose
  BY <1>3 DEF ClosePoll, ChainReachesClose, tallyVars
<1> QED BY <1>1, <1>2, <1>3, OffClosing

\* Every step keeps the result on chain, and the announced one, whole.
LEMMA ResultCountedNext ==
  ASSUME Types, Rows, Closing, Counted, ResultCounted, [Next]_vars, raced' = {}
  PROVE  ResultCounted'
<1>1. closed => ledger' = ledger
  BY LedgerKeeps DEF Disturbed
<1>2. chainFinal # NoResult => closed
  BY DEF Closing, FinalResultIsLast
<1>3. ASSUME NEW e, Whole(e), closed PROVE Whole(e)'
  BY <1>1, <1>3, ProofsStay DEF Whole, LastBatch, Batch, BatchCount
<1>4. \/ UNCHANGED chainFinal
      \/ \E x \in Publishers :
           /\ pc[x] = "finalize" /\ chainFinal = NoResult
           /\ chainFinal' = Result(local[x])
  BY OffClosing DEF InsertTally, CommitRoots, FinalizePoll, Finalizable, ClosePoll,
     ChainReachesClose, offTally, chainVars
<1>5. chainFinal' # NoResult => Whole(chainFinal)'
  <2> SUFFICES ASSUME chainFinal' # NoResult PROVE Whole(chainFinal)'
    OBVIOUS
  <2>1. PICK final : final = chainFinal'
    OBVIOUS
  <2>2. Whole(final) /\ closed
    <3>1. CASE UNCHANGED chainFinal
      BY <1>2, <2>1, <3>1 DEF ResultCounted
    <3> QED BY <1>4, <2>1, <3>1, WholeResult
  <2>3. Whole(final)'
    BY <1>3, <2>2
  <2> QED BY <2>1, <2>3 DEF Whole
<1>6. \A e \in finalEvents' : Whole(e)'
  <2>1. finalEvents # {} => closed
    BY <1>2 DEF Rows, RowsFollowChain
  <2>2. \A e \in finalEvents : Whole(e)'
    BY <1>3, <2>1 DEF ResultCounted
  <2>3. ASSUME NEW x \in Publishers, RecordFinalEvent(x)
        PROVE  \A e \in finalEvents' : Whole(e)'
    <3>1. PICK new : new = Result(local[x])
      OBVIOUS
    <3>2. pc[x] = "finalEvent" /\ finalEvents' = finalEvents \cup {new}
      BY <2>3, <3>1 DEF RecordFinalEvent
    <3>3. Whole(new) /\ closed
      BY <3>1, <3>2, WholeResult
    <3> QED BY <1>3, <2>2, <3>2, <3>3
  <2> QED BY <2>2, <2>3, OffFinalEvents
<1> QED BY <1>5, <1>6 DEF ResultCounted

\* Handlers and tally proofs have votes on record, also when handlers raced.
Recorded ==
    /\ \A a \in Actors : Range(local[a].records) \subseteq Accepted
    /\ \A k \in DOMAIN proofs : Range(proofs[k]) \subseteq Accepted

\* Nothing is read or proved at first.
LEMMA RecordedInit ==
  Init => Recorded
  BY EmptySeq DEF Init, Recorded, Fresh, Range

\* No vote on record is ever removed.
LEMMA RecordedNext ==
  ASSUME Types, Recorded, [Next]_vars
  PROVE  Recorded'
<1>1. Accepted \subseteq Accepted'
  BY LedgerSteps
<1>2. ASSUME NEW a \in Actors
      PROVE  \/ local'[a].records = local[a].records
             \/ local'[a].records = <<>>
             \/ local'[a].records = ledger
  <2>1. CASE Kept(a)
    BY <2>1 DEF Kept
  <2>2. CASE local'[a] = Fresh
    BY <2>2 DEF Fresh
  <2>3. CASE ReadVotes(a)
    <3>1. CASE Return(a)
      BY <2>2, <3>1 DEF Return, Types, LocalTyped
    <3>2. CASE local' = [local EXCEPT ![a].records = ledger]
      BY <3>2, LocalFields DEF Types, LocalTyped, LocalTypes
    <3> QED BY <2>3, <3>1, <3>2 DEF ReadVotes, GiveUp
  <2>4. CASE LoadRecords(a) \/ LoadProof(a) \/ BuildBatches(a) \/ PlanCommits(a)
    <3> USE LocalFields DEF Types, LocalTyped, LocalTypes
    <3>1. CASE LoadRecords(a)
      BY <3>1 DEF LoadRecords
    <3>2. CASE LoadProof(a)
      BY <3>2 DEF LoadProof
    <3>3. CASE BuildBatches(a)
      BY <3>3 DEF BuildBatches
    <3>4. CASE PlanCommits(a)
      BY <3>4 DEF PlanCommits
    <3> QED BY <2>4, <3>1, <3>2, <3>3, <3>4
  <2> QED BY <2>1, <2>2, <2>3, <2>4, LocalSteps DEF Rereads
<1>3. Range(<<>>) = {} /\ Range(ledger) = Accepted
  BY DEF Range, Accepted
<1>4. ASSUME NEW a \in Actors PROVE Range(local'[a].records) \subseteq Accepted'
  BY <1>1, <1>2, <1>3 DEF Recorded
<1>5. \A k \in DOMAIN proofs' : Range(proofs'[k]) \subseteq Accepted
  <2>1. CASE UNCHANGED proofs
    BY <2>1 DEF Recorded
  <2>2. ASSUME NEW a \in Actors, InsertTally(a)
        PROVE  \A k \in DOMAIN proofs' : Range(proofs'[k]) \subseteq Accepted
    <3>1. PICK records \in Seq(Requests) : records = local[a].records
      BY LocalFields DEF Types
    <3>2. proofs' = Append(proofs, records) /\ Range(records) \subseteq Accepted
      BY <2>2, <3>1 DEF InsertTally, Recorded
    <3>3. /\ Len(proofs') = Len(proofs) + 1 /\ proofs' \in Seq(Seq(Requests))
          /\ \A k \in 1..Len(proofs) : proofs'[k] = proofs[k]
          /\ proofs'[Len(proofs) + 1] = records
      BY <3>2, AppendProperties DEF Types, StateTypes
    <3>4. /\ DOMAIN proofs' = 1..Len(proofs) + 1
          /\ DOMAIN proofs = 1..Len(proofs) /\ Len(proofs) \in Nat
      BY <3>3, LenProperties DEF Types, StateTypes
    <3>5. \A k \in DOMAIN proofs' : k \in 1..Len(proofs) \/ k = Len(proofs) + 1
      BY <3>4
    <3> QED BY <3>2, <3>3, <3>4, <3>5 DEF Recorded
  <2>3. ASSUME NEW x, CommitRoots(x) \/ FinalizePoll(x) PROVE UNCHANGED proofs
    BY <2>3 DEF CommitRoots, FinalizePoll, offChain, tallyVars
  <2>4. CASE ClosePoll \/ ChainReachesClose
    BY <2>1, <2>4 DEF ClosePoll, ChainReachesClose, tallyVars
  <2> QED BY <2>1, <2>2, <2>3, <2>4, OffClosing
<1> QED BY <1>1, <1>4, <1>5 DEF Recorded

\* All of this holds in every state.
LEMMA CountedAlways ==
  Spec => [](/\ Types /\ Answers /\ Rows /\ Closing /\ Recorded
             /\ raced = {} => Counted /\ ResultCounted)
<1> DEFINE Inv == Closing /\ Recorded /\ (raced = {} => Counted /\ ResultCounted)
           Known == Types /\ Answers /\ Rows /\ (~Disturbed => Anchored)
<1>1. Init => Inv
  BY CountedInit, ClosingInit, RecordedInit
<1>2. Known /\ Inv /\ [Next]_vars => Inv'
  <2> SUFFICES ASSUME Known, Inv, [Next]_vars PROVE Inv'
    OBVIOUS
  <2>1. Closing' /\ Recorded'
    BY ClosingNext, RecordedNext
  <2>2. ASSUME raced' = {} PROVE Counted' /\ ResultCounted'
    <3>1. raced = {} /\ ~Disturbed
      BY <2>2, RacedGrows DEF Disturbed
    <3> QED BY <2>2, <3>1, CountedNext, ResultCountedNext
  <2> QED BY <2>1, <2>2
<1>3. Spec => []Known
  BY AnchoredAlways
<1> HIDE DEF Inv, Known
<1>4. Spec => [](Known /\ Inv)
  BY <1>1, <1>2, <1>3, PTL DEF Spec
<1>5. Known /\ Inv =>
        /\ Types /\ Answers /\ Rows /\ Closing /\ Recorded
        /\ raced = {} => Counted /\ ResultCounted
  BY DEF Known, Inv
<1> QED BY <1>4, <1>5, PTL

\* However publications are cut off and repeated, an announced result has the
\* roots and the votes of the one on chain, and is that one when only one tally
\* proof was made, until handlers race.
THEOREM AnnouncedResultsAreOnChain == Spec => []AnnouncedResultIsOnChain
<1>1. Types /\ Rows /\ (raced = {} => ResultCounted) => AnnouncedResultIsOnChain
  <2> SUFFICES ASSUME Types, Rows, ResultCounted, NEW e \in finalEvents
               PROVE  /\ chainFinal # NoResult
                      /\ e.root = chainFinal.root /\ e.votes = chainFinal.votes
                      /\ Len(proofs) = 1 => e = chainFinal
    BY DEF AnnouncedResultIsOnChain
  <2>1. chainFinal # NoResult
    BY DEF Rows, RowsFollowChain
  <2>2. Whole(e) /\ Whole(chainFinal)
    BY <2>1 DEF ResultCounted
  <2>3. Len(proofs) = 1 => e.proof = 1 /\ chainFinal.proof = 1
    BY <2>2, LenProperties DEF Whole, Types, StateTypes
  <2> QED BY <2>1, <2>2, <2>3 DEF Whole
<1> QED BY <1>1, CountedAlways, PTL

\* A sequence in which no voter is repeated has as many voters as votes.
LEMMA OneVoteEach ==
  ASSUME NEW s \in Seq(Requests),
         \A i, j \in DOMAIN s : VoterOf[s[i]] = VoterOf[s[j]] => i = j
  PROVE  Cardinality({VoterOf[r] : r \in Range(s)}) = Len(s)
<1> DEFINE voters == {VoterOf[r] : r \in Range(s)}
           voter == [i \in 1..Len(s) |-> VoterOf[s[i]]]
<1>1. Len(s) \in Nat /\ DOMAIN s = 1..Len(s)
  BY LenProperties
<1>2. voter \in Bijection(1..Len(s), voters)
  <2>1. \A i \in 1..Len(s) : voter[i] \in voters
    BY <1>1 DEF Range
  <2>2. \A v \in voters : \E i \in 1..Len(s) : voter[i] = v
    BY <1>1 DEF Range
  <2>3. \A i, j \in 1..Len(s) : voter[i] = voter[j] => i = j
    BY <1>1
  <2> QED BY <2>1, <2>2, <2>3, Fun_IsBij
<1>3. ExistsBijection(1..Len(s), voters)
  BY <1>2 DEF ExistsBijection
<1> QED BY <1>1, <1>3, FS_CountingElements

\* The result on chain counts every vote on record, one per voter, and those under
\* its roots, until handlers race.
THEOREM ResultsCountEveryVote == Spec => []ResultCountsEveryVote
<1>1. Types /\ Answers /\ (raced = {} => ResultCounted) => ResultCountsEveryVote
  <2> DEFINE counted == chainFinal.votes
  <2> SUFFICES ASSUME Types, Answers, ResultCounted, chainFinal # NoResult
               PROVE  /\ Range(counted) = Accepted
                      /\ Cardinality({VoterOf[r] : r \in Range(counted)}) = Len(counted)
                      /\ ProofMatchesRoots
    BY DEF ResultCountsEveryVote
  <2>1. counted = ledger /\ ledger \in Seq(Requests) /\ chainFinal.root = LastBatch(ledger)
    BY DEF ResultCounted, Whole, Types, StateTypes
  <2>2. Cardinality({VoterOf[r] : r \in Range(ledger)}) = Len(ledger)
    BY <2>1, OneVoteEach DEF Answers, AnswersAreTrue, OneRowPerVoter
  <2> QED BY <2>1, <2>2 DEF Accepted, ProofMatchesRoots
<1> QED BY <1>1, CountedAlways, PTL

\* The clocks and the final account: a step that stores a result is finalize_poll's.
LEMMA FinalSteps ==
  ASSUME Types, [Next]_vars
  PROVE  \/ UNCHANGED chainFinal
         \/ /\ UNCHANGED <<closed, ledger>>
            /\ \E x \in Publishers :
                 /\ pc[x] = "finalize" /\ Finalizable(local[x])
                 /\ chainFinal' = Result(local[x])
<1>1. ASSUME NEW x \in Publishers, FinalizePoll(x), ~UNCHANGED chainFinal
      PROVE  /\ UNCHANGED <<closed, ledger>>
             /\ pc[x] = "finalize" /\ Finalizable(local[x])
             /\ chainFinal' = Result(local[x])
  BY <1>1 DEF FinalizePoll, offChain, clockVars, voteVars
<1>2. ASSUME NEW a, InsertTally(a) \/ CommitRoots(a) PROVE UNCHANGED chainFinal
  BY <1>2 DEF InsertTally, CommitRoots, offTally, chainVars
<1>3. CASE ClosePoll \/ ChainReachesClose
  BY <1>3 DEF ClosePoll, ChainReachesClose, chainVars
<1> QED BY <1>1, <1>2, <1>3, OffClosing

\* Whatever races, no ballot is taken back, the poll does not reopen, and one
\* result is announced after it closed, of ballots on record.
LEMMA LapseSteps ==
  ASSUME Types, Closing, Recorded, [Next]_vars
  PROVE  Promise!Lapse
<1> USE DEF Promise!Lapse
<1>1. Accepted \subseteq Accepted' /\ (closed => closed')
  <2>1. Accepted \subseteq Accepted'
    BY LedgerSteps
  <2>2. closed => closed'
    BY ClosedSteps DEF ClosePoll
  <2> QED BY <2>1, <2>2
<1>2. CASE UNCHANGED chainFinal
  <2>1. UNCHANGED (IF chainFinal = NoResult THEN NoResult ELSE Range(chainFinal.votes))
    BY <1>2
  <2> QED BY <1>1, <2>1
<1>3. ASSUME NEW x \in Publishers, pc[x] = "finalize", Finalizable(local[x]),
             chainFinal' = Result(local[x])
      PROVE  Promise!Lapse
  <2>1. chainFinal = NoResult /\ closed
    BY <1>3 DEF Finalizable, Closing
  <2>2. chainFinal' # NoResult
    BY <1>3, FinalTyped
  <2>3. Range(chainFinal'.votes) \subseteq Accepted
    <3>1. x \in Actors /\ local[x].proof \in DOMAIN proofs
      BY <1>3 DEF Actors, Types, Prepared, LocalPrepared
    <3>2. chainFinal'.votes = proofs[local[x].proof]
      BY <1>3 DEF Result
    <3> QED BY <3>1, <3>2 DEF Recorded
  <2> QED BY <1>1, <2>1, <2>2, <2>3
<1> QED BY <1>2, <1>3, FinalSteps

\* Until handlers race, every step is a ballot, the closing, the announcement or
\* none of them.
LEMMA ElectionSteps ==
  ASSUME Types, Counted, [Next]_vars, raced' = {}
  PROVE  [Promise!ElectionNext]_(Promise!electionVars)
<1> USE DEF Promise!ElectionNext, Promise!Cast, Promise!Close, Promise!Announce,
            Promise!electionVars
<1>1. ASSUME NEW r \in Requests, VoteStep(r)
      PROVE  [Promise!ElectionNext]_(Promise!electionVars)
  <2>1. UNCHANGED <<closed, chainFinal>>
    BY <1>1 DEF VoteStep, BeginVote, InsertVote, InsertRow, AppendVoteAccepted, LoseRequest,
       clockVars, chainVars
  <2>2. CASE UNCHANGED ledger
    BY <2>1, <2>2 DEF Accepted
  <2>3. ASSUME NEW q \in Requests, NewRow(q)
        PROVE  Promise!Cast(q)
    BY <2>1, <2>3 DEF NewRow
  <2> QED BY <2>2, <2>3, LedgerSteps
<1>2. CASE UNCHANGED voteVars
  <2>1. UNCHANGED Accepted
    BY <1>2 DEF voteVars, Accepted
  <2>2. CASE UNCHANGED <<closed, chainFinal>>
    BY <2>1, <2>2
  <2>3. CASE ClosePoll
    BY <2>1, <2>3 DEF ClosePoll, chainVars
  <2>4. ASSUME NEW x \in Publishers, pc[x] = "finalize", Finalizable(local[x]),
               chainFinal' = Result(local[x]), UNCHANGED closed
        PROVE  Promise!Announce
    <3>1. closed /\ chainFinal'.votes = ledger
      <4>1. PICK final : final = Result(local[x])
        OBVIOUS
      <4>2. closed /\ Whole(final)
        BY <2>4, <4>1, WholeResult
      <4>3. final.votes = ledger
        BY <4>2 DEF Whole
      <4> QED BY <2>4, <4>1, <4>2, <4>3
    <3>2. chainFinal' # NoResult /\ chainFinal = NoResult
      BY <2>4, FinalTyped DEF Finalizable
    <3>3. Accepted # {}
      <4>1. x \in Actors /\ Planning(x)
        BY <2>4 DEF Actors, Planning
      <4>2. ledger # <<>> /\ ledger \in Seq(Requests)
        BY <4>1 DEF Types, StateTypes, Prepared, LocalPrepared
      <4>3. 1 \in DOMAIN ledger
        BY <4>2, LenProperties, EmptySeq
      <4> QED BY <4>3 DEF Accepted, Range
    <3> QED BY <2>1, <2>4, <3>1, <3>2, <3>3 DEF Accepted
  <2> QED BY <2>2, <2>3, <2>4, FinalSteps, ClosedSteps DEF ClosePoll, chainVars
<1> QED BY <1>1, <1>2, OffVotes

\* Votes, closing and final result implement what the poll promises: ballots
\* are accepted until it closes, and one result is announced that counts all.
\* After a race, what was accepted and announced still stands.
THEOREM VotingImplementsElection == Spec => ImplementsElection
<1> DEFINE Known == /\ Types /\ Answers /\ Rows /\ Closing /\ Recorded
                    /\ raced = {} => Counted /\ ResultCounted
           Step == Promise!ElectionNext \/ (raced' # {} /\ Promise!Lapse)
<1>1. Init => Promise!ElectionInit
  BY DEF Init, Promise!ElectionInit, Accepted, Range
<1>2. Known /\ [Next]_vars => [Step]_(Promise!electionVars)
  <2> SUFFICES ASSUME Known, [Next]_vars PROVE [Step]_(Promise!electionVars)
    OBVIOUS
  <2>1. CASE raced' # {}
    BY <2>1, LapseSteps
  <2>2. CASE raced' = {}
    <3>1. Counted
      BY <2>2, RacedGrows
    <3> QED BY <2>2, <3>1, ElectionSteps
  <2> QED BY <2>1, <2>2
<1>3. Spec => []Known
  BY CountedAlways
<1> HIDE DEF Known
<1> QED BY <1>1, <1>2, <1>3, PTL DEF Spec, ImplementsElection
=============================================================================
