----------------------------- MODULE DataLemmas -----------------------------
(***************************************************************************)
(* Facts about tables, finite sets and sets of numbers that the proofs of  *)
(* several components need.  The least and the greatest number of a set    *)
(* come from the well-foundedness of the order on the naturals, which does *)
(* without an induction principle over a predicate.                        *)
(***************************************************************************)
EXTENDS SequencesExt, FiniteSetTheorems, SequenceTheorems, WellFoundedInduction, TLAPS

-----------------------------------------------------------------------------
(* Tables: rows in the order of their numbers. *)

\* Rows have numbers and are of their type.
LEMMA RowOfTable ==
  ASSUME NEW T, NEW rows \in Seq(T)
  PROVE  /\ Len(rows) \in Nat /\ DOMAIN rows = 1..Len(rows)
         /\ \A n \in DOMAIN rows : rows[n] \in T /\ n \in Nat
<1>1. Len(rows) \in Nat /\ DOMAIN rows = 1..Len(rows)
  BY LenProperties
<1>2. \A n \in 1..Len(rows) : rows[n] \in T
  BY ElementOfSeq
<1> QED BY <1>1, <1>2

\* A row that is inserted is the last.
LEMMA RowInserted ==
  ASSUME NEW T, NEW rows \in Seq(T), NEW e \in T, NEW next, next = Append(rows, e)
  PROVE  /\ next \in Seq(T) /\ Len(next) = Len(rows) + 1
         /\ DOMAIN next = DOMAIN rows \cup {Len(rows) + 1}
         /\ Len(rows) + 1 \notin DOMAIN rows
         /\ next[Len(rows) + 1] = e
         /\ \A n \in DOMAIN rows : next[n] = rows[n]
<1>1. Len(rows) \in Nat /\ DOMAIN rows = 1..Len(rows)
  BY LenProperties
<1>2. next \in Seq(T) /\ Len(next) = Len(rows) + 1 /\ next[Len(rows) + 1] = e
      /\ \A n \in 1..Len(rows) : next[n] = rows[n]
  BY AppendProperties
<1>3. DOMAIN next = 1..(Len(rows) + 1)
  BY <1>2, LenProperties
<1> QED BY <1>1, <1>2, <1>3

\* A row that is updated keeps its number, and the others stay.
LEMMA RowUpdated ==
  ASSUME NEW T, NEW rows \in Seq(T), NEW n \in DOMAIN rows, NEW e \in T, NEW next,
         next = [rows EXCEPT ![n] = e]
  PROVE  /\ next \in Seq(T) /\ DOMAIN next = DOMAIN rows /\ Len(next) = Len(rows)
         /\ next[n] = e
         /\ \A m \in DOMAIN rows : m # n => next[m] = rows[m]
<1>1. DOMAIN rows = 1..Len(rows)
  BY LenProperties
<1>2. next \in Seq(T) /\ Len(next) = Len(rows)
      /\ \A m \in 1..Len(rows) : next[m] = IF m = n THEN e ELSE rows[m]
  BY <1>1, ExceptSeq
<1>3. DOMAIN next = 1..Len(next)
  BY <1>2, LenProperties
<1> QED BY <1>1, <1>2, <1>3

\* A table of which every row is updated.
LEMMA TableUpdated ==
  ASSUME NEW T, NEW rows \in Seq(T), NEW U, NEW next \in [DOMAIN rows -> U]
  PROVE  next \in Seq(U) /\ Len(next) = Len(rows)
<1>1. DOMAIN rows = 1..Len(rows) /\ Len(rows) \in Nat
  BY LenProperties
<1>2. next \in [1..Len(rows) -> U]
  BY <1>1
<1>3. next \in Seq(U)
  BY <1>1, <1>2, SeqDef
<1>4. DOMAIN next = 1..Len(next) /\ Len(next) \in Nat
  BY <1>3, LenProperties
<1> QED BY <1>1, <1>2, <1>3, <1>4

-----------------------------------------------------------------------------
(* Sets. *)

\* A set of numbers that is not empty has a least element ...
LEMMA LeastExists ==
  ASSUME NEW S \in SUBSET Nat, S # {}
  PROVE  \E m \in S : \A n \in S : m <= n
<1> DEFINE Less == {pair \in Nat \X Nat : pair[1] < pair[2]}
<1>1. IsWellFoundedOn(Less, Nat)
  BY NatLessThanWellFounded DEF OpToRel
<1>2. S \subseteq Nat
  OBVIOUS
<1>3. \E x \in S : \A y \in S : <<y, x>> \notin Less
  <2> HIDE DEF Less
  <2> QED BY <1>1, <1>2, WFMin, Zenon
<1>4. PICK x \in S : \A y \in S : <<y, x>> \notin Less
  BY <1>3, Zenon
<1>5. \A y \in S : ~(y < x)
  BY <1>4
<1> QED BY <1>2, <1>4, <1>5

\* ... and a greatest one, when it is finite.
LEMMA GreatestExists ==
  ASSUME NEW S \in SUBSET Nat, S # {}, IsFiniteSet(S)
  PROVE  \E m \in S : \A n \in S : n <= m
<1> DEFINE Above(x) == {n \in S : x < n}
           Counts == {Cardinality(Above(x)) : x \in S}
<1>1. \A x \in S : IsFiniteSet(Above(x)) /\ Cardinality(Above(x)) \in Nat
  <2> TAKE x \in S
  <2>1. Above(x) \in SUBSET S
    OBVIOUS
  <2> QED BY <2>1, FS_Subset, FS_CardinalityType
<1>2. Counts \in SUBSET Nat /\ Counts # {}
  BY <1>1
<1>3. PICK c \in Counts : \A d \in Counts : c <= d
  BY <1>2, LeastExists
<1>4. PICK m \in S : c = Cardinality(Above(m))
  OBVIOUS
<1> SUFFICES ASSUME NEW n \in S, m < n PROVE FALSE
  OBVIOUS
<1>5. Above(n) \in SUBSET Above(m) /\ n \in Above(m) /\ n \notin Above(n)
  <2>1. m \in Nat /\ n \in Nat /\ m < n /\ n \in S
    OBVIOUS
  <2>2. \A x \in Above(n) : x \in Above(m)
    BY <2>1
  <2>3. n \in Above(m) /\ n \notin Above(n)
    BY <2>1
  <2> HIDE DEF Above
  <2> QED BY <2>2, <2>3
<1>6. Cardinality(Above(n)) < Cardinality(Above(m))
  BY <1>1, <1>5, FS_Subset
<1>7. Cardinality(Above(n)) \in Counts /\ Cardinality(Above(m)) \in Nat /\ Cardinality(Above(n)) \in Nat
  BY <1>1
<1>8. c <= Cardinality(Above(n))
  BY <1>3, <1>7
<1> QED BY <1>4, <1>6, <1>7, <1>8

\* A finite set can be listed.
LEMMA SetIsListed ==
  ASSUME NEW S, IsFiniteSet(S)
  PROVE  SetToSeq(S) \in Seq(S)
<1>1. Cardinality(S) \in Nat /\ ExistsBijection(1..Cardinality(S), S)
  BY FS_CardinalityType
<1>2. \E f \in [1..Cardinality(S) -> S] : IsInjective(f)
  BY <1>1 DEF ExistsBijection, Bijection, Injection
<1>3. SetToSeq(S) \in [1..Cardinality(S) -> S]
  BY <1>2 DEF SetToSeq
<1> QED BY <1>1, <1>3, SeqDef
=============================================================================
