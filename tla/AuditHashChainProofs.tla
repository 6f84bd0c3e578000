------------------------ MODULE AuditHashChainProofs ------------------------
(***************************************************************************)
(* The properties of AuditHashChain for any number of calls and streams    *)
(* and any number of attempts.                                             *)
(***************************************************************************)
EXTENDS AuditHashChain, SequenceTheorems, TLAPS

\* A row's hash is as long as the chain up to it: the abstraction of SHA-256
\* in this model, and what lets lengths stand for positions.
HashLengths ==
    \A s \in Streams : \A i \in DOMAIN chain[s] : Len(chain[s][i].hash) = i

\* What a running call knows.  Each attempt it used up was lost to an event
\* inserted since; the hash it holds is the tail's unless the chain has grown.
Knowledge ==
    \A c \in Calls :
        LET length == Len(chain[StreamOf[c]]) IN
        /\ pc[c] = "reading" => attempt[c] >= 1 /\ length >= startLen[c] + attempt[c] - 1
        /\ pc[c] = "appending" =>
             /\ attempt[c] >= 1
             /\ Len(previous[c]) >= startLen[c] + attempt[c] - 1
             /\ Len(previous[c]) <= length
             /\ Len(previous[c]) = length => TailIsPrevious(c)

ChainInv ==
    /\ TypeOK /\ ChainsAreLinked /\ HashLengths /\ AnswersMatchChain
    /\ Knowledge /\ ConflictsMeanProgress

USE StreamAssumption, AttemptsAssumption

-----------------------------------------------------------------------------
(* The two ways a step changes the chain. *)

\* A row is only added at the end of the stream, and its hash is typed.
LEMMA InsertShape ==
    ASSUME TypeOK, NEW c \in Calls, Insert(c)
    PROVE  LET s == StreamOf[c]
               row == [event |-> c, previous |-> previous[c],
                       hash |-> Append(previous[c], c)] IN
           /\ row \in Row
           /\ chain' \in [Streams -> Seq(Row)]
           /\ \A t \in Streams : t # s => chain'[t] = chain[t]
           /\ chain'[s] = Append(chain[s], row)
           /\ Len(chain'[s]) = Len(chain[s]) + 1
           /\ \A i \in 1..Len(chain[s]) : chain'[s][i] = chain[s][i]
           /\ chain'[s][Len(chain[s]) + 1] = row
<1> DEFINE s == StreamOf[c]
           row == [event |-> c, previous |-> previous[c], hash |-> Append(previous[c], c)]
<1>1. s \in Streams /\ previous[c] \in Seq(Calls) /\ chain[s] \in Seq(Row)
  BY DEF TypeOK
<1>2. Append(previous[c], c) \in Seq(Calls)
  BY <1>1
<1>3. row \in Row
  BY <1>1, <1>2 DEF Row
<1>4. chain' = [chain EXCEPT ![s] = Append(@, row)]
  BY DEF Insert, Hash
<1>5. chain'[s] = Append(chain[s], row) /\ \A t \in Streams : t # s => chain'[t] = chain[t]
  BY <1>1, <1>4 DEF TypeOK
<1>6. chain' \in [Streams -> Seq(Row)]
  BY <1>1, <1>3, <1>4 DEF TypeOK
<1> HIDE DEF row
<1>7. /\ Len(chain'[s]) = Len(chain[s]) + 1
      /\ \A i \in 1..Len(chain[s]) : chain'[s][i] = chain[s][i]
      /\ chain'[s][Len(chain[s]) + 1] = row
  BY <1>1, <1>3, <1>5
<1> QED
  BY <1>3, <1>5, <1>6, <1>7 DEF row

\* The tail hash is as long as its stream.
LEMMA TailLength ==
    ASSUME TypeOK, HashLengths, NEW s \in Streams
    PROVE  TailHash(s) \in Seq(Calls) /\ Len(TailHash(s)) = Len(chain[s])
<1>1. chain[s] \in Seq(Row)
  BY DEF TypeOK
<1>2. CASE chain[s] = <<>>
  BY <1>2 DEF TailHash, Genesis
<1>3. CASE chain[s] # <<>>
  <2>1. Len(chain[s]) \in DOMAIN chain[s]
    BY <1>1, <1>3
  <2>2. chain[s][Len(chain[s])] \in Row
    BY <1>1, <2>1
  <2> QED
    BY <1>3, <2>1, <2>2 DEF TailHash, HashLengths, Row
<1> QED
  BY <1>2, <1>3

-----------------------------------------------------------------------------
(* The invariant is inductive. *)

\* Every step keeps every variable typed.
LEMMA TypeNext == TypeOK /\ HashLengths /\ [Next]_vars => TypeOK'
<1> SUFFICES ASSUME TypeOK, HashLengths, [Next]_vars PROVE TypeOK'
  OBVIOUS
<1>1. ASSUME NEW c \in Calls, Begin(c) PROVE TypeOK'
  <2>1. chain[StreamOf[c]] \in Seq(Row) /\ 1 \in 0..MaxAttempts
    BY DEF TypeOK
  <2>2. Len(chain[StreamOf[c]]) \in Nat
    BY <2>1
  <2> QED
    BY <1>1, <2>1, <2>2 DEF TypeOK, Begin, GoTo
<1>2. ASSUME NEW c \in Calls, ReadTail(c) PROVE TypeOK'
  BY <1>2, TailLength DEF TypeOK, ReadTail, GoTo
<1>3. ASSUME NEW c \in Calls, AppendEvent(c) \/ LoseAnswer(c) PROVE TypeOK'
  <2>1. chain' \in [Streams -> Seq(Row)]
    BY <1>3, InsertShape DEF AppendEvent, LoseAnswer
  <2> QED
    BY <1>3, <2>1 DEF TypeOK, AppendEvent, LoseAnswer, GoTo
<1>4. ASSUME NEW c \in Calls, MissTail(c) PROVE TypeOK'
  <2>1. CASE attempt[c] < MaxAttempts
    <3>1. attempt[c] + 1 \in 0..MaxAttempts
      BY <2>1 DEF TypeOK
    <3> QED
      BY <1>4, <2>1, <3>1 DEF TypeOK, MissTail, Retry, GoTo
  <2>2. CASE ~(attempt[c] < MaxAttempts)
    BY <1>4, <2>2 DEF TypeOK, MissTail, Retry, GoTo
  <2> QED
    BY <2>1, <2>2
<1>5. ASSUME NEW c \in Calls, FailCall(c) PROVE TypeOK'
  BY <1>5 DEF TypeOK, FailCall, GoTo
<1>6. CASE UNCHANGED vars
  BY <1>6 DEF TypeOK, vars
<1> QED
  BY <1>1, <1>2, <1>3, <1>4, <1>5, <1>6 DEF Next, Step

\* An accepted event extends the hash chain of its stream.
LEMMA LinksNext ==
    ASSUME ChainInv, NEW c \in Calls, Insert(c), TailIsPrevious(c)
    PROVE  ChainsAreLinked' /\ HashLengths'
<1> DEFINE s == StreamOf[c]
           row == [event |-> c, previous |-> previous[c], hash |-> Append(previous[c], c)]
           n == Len(chain[s])
<1>1. /\ s \in Streams /\ chain[s] \in Seq(Row) /\ n \in Nat
      /\ previous[c] \in Seq(Calls)
  BY DEF ChainInv, TypeOK
<1>2. /\ chain' \in [Streams -> Seq(Row)]
      /\ \A t \in Streams : t # s => chain'[t] = chain[t]
      /\ Len(chain'[s]) = n + 1
      /\ \A i \in 1..n : chain'[s][i] = chain[s][i]
      /\ chain'[s][n + 1] = row
  BY InsertShape DEF ChainInv
<1>3. previous[c] = TailHash(s) /\ Len(previous[c]) = n
  BY <1>1, TailLength DEF TailIsPrevious, ChainInv
<1>4. row.previous = IF n + 1 = 1 THEN Genesis ELSE chain[s][n].hash
  BY <1>1, <1>3 DEF TailHash
<1>5. Len(row.hash) = n + 1 /\ row.hash = Hash(row.previous, row.event) /\ row.event = c
  BY <1>1, <1>3 DEF Hash
<1> HIDE DEF row
<1>6. ASSUME NEW t \in Streams, NEW i \in DOMAIN chain'[t]
      PROVE  /\ chain'[t][i].previous = IF i = 1 THEN Genesis ELSE chain'[t][i - 1].hash
             /\ chain'[t][i].hash = Hash(chain'[t][i].previous, chain'[t][i].event)
             /\ StreamOf[chain'[t][i].event] = t
             /\ Len(chain'[t][i].hash) = i
  <2>1. CASE t # s
    BY <1>2, <1>6, <2>1 DEF ChainInv, ChainsAreLinked, HashLengths
  <2>2. CASE t = s /\ i \in 1..n
    <3>1. i \in DOMAIN chain[s] /\ (i # 1 => i - 1 \in 1..n)
      BY <1>1, <2>2
    <3>2. chain'[s][i] = chain[s][i] /\ (i # 1 => chain'[s][i - 1] = chain[s][i - 1])
      BY <1>2, <2>2, <3>1
    <3> QED
      BY <2>2, <3>1, <3>2 DEF ChainInv, ChainsAreLinked, HashLengths
  <2>3. CASE t = s /\ i = n + 1
    <3>1. n + 1 # 1 => chain'[s][n] = chain[s][n]
      <4>1. n + 1 # 1 => n \in 1..n
        BY <1>1
      <4> QED
        BY <1>2, <4>1
    <3>2. (n + 1) - 1 = n
      BY <1>1
    <3> QED
      BY <1>2, <1>4, <1>5, <2>3, <3>1, <3>2
  <2>4. t = s => i \in 1..n \/ i = n + 1
    BY <1>1, <1>2, <1>6
  <2> QED
    BY <2>1, <2>2, <2>3, <2>4
<1> QED
  BY <1>6 DEF ChainsAreLinked, HashLengths

\* An accepted event is recorded, and the records of the others stay.
LEMMA RecordedNext ==
    ASSUME TypeOK, NEW c \in Calls, Insert(c), NEW d \in Calls
    PROVE  Recorded(d)' <=> Recorded(d) \/ d = c
<1> DEFINE s == StreamOf[c]
           n == Len(chain[s])
           row == [event |-> c, previous |-> previous[c], hash |-> Append(previous[c], c)]
<1>1. /\ s \in Streams /\ StreamOf[d] \in Streams /\ chain[s] \in Seq(Row) /\ n \in Nat
  BY DEF TypeOK
<1>2. /\ chain' \in [Streams -> Seq(Row)]
      /\ \A t \in Streams : t # s => chain'[t] = chain[t]
      /\ Len(chain'[s]) = n + 1
      /\ \A i \in 1..n : chain'[s][i] = chain[s][i]
      /\ chain'[s][n + 1] = row
  BY InsertShape
<1>3. DOMAIN chain'[s] = 1..(n + 1) /\ DOMAIN chain[s] = 1..n
  BY <1>1, <1>2
<1>4. chain'[s][n + 1].event = c
  BY <1>2
<1> HIDE DEF row
<1>5. CASE StreamOf[d] # s
  BY <1>1, <1>2, <1>5 DEF Recorded
<1>6. CASE StreamOf[d] = s
  <2>1. Recorded(d)' <=> \E i \in 1..(n + 1) : chain'[s][i].event = d
    BY <1>3, <1>6 DEF Recorded
  <2>2. Recorded(d) <=> \E i \in 1..n : chain'[s][i].event = d
    BY <1>2, <1>3, <1>6 DEF Recorded
  <2>3. 1..(n + 1) = 1..n \cup {n + 1}
    BY <1>1
  <2> QED
    BY <1>4, <2>1, <2>2, <2>3
<1> QED
  BY <1>5, <1>6

\* The parts of the invariant hold together: a step of one call keeps what
\* every other call knows.
LEMMA ChainInvariant == Spec => []ChainInv
<1> USE DEF GoTo
<1>1. Init => ChainInv
  BY DEF Init, ChainInv, TypeOK, ChainsAreLinked, HashLengths, AnswersMatchChain,
         Recorded, Knowledge, ConflictsMeanProgress, Genesis
<1>2. ChainInv /\ [Next]_vars => ChainInv'
  <2> SUFFICES ASSUME ChainInv, [Next]_vars PROVE ChainInv'
    OBVIOUS
  <2>0. TypeOK'
    BY TypeNext DEF ChainInv
  <2>L. /\ \A s \in Streams : Len(chain[s]) \in Nat
        /\ \A c \in Calls : /\ StreamOf[c] \in Streams
                            /\ Len(chain[StreamOf[c]]) \in Nat
                            /\ Len(previous[c]) \in Nat
                            /\ startLen[c] \in Nat /\ attempt[c] \in Nat
    BY DEF ChainInv, TypeOK
  <2>1. ASSUME NEW c \in Calls, AppendEvent(c) \/ LoseAnswer(c) PROVE ChainInv'
    <3>1. Insert(c) /\ TailIsPrevious(c) /\ pc[c] = "appending"
      BY <2>1 DEF AppendEvent, LoseAnswer
    <3>2. ChainsAreLinked' /\ HashLengths'
      BY <3>1, LinksNext
    <3>3. /\ pc' \in {[pc EXCEPT ![c] = "appended"], [pc EXCEPT ![c] = "failed"]}
          /\ UNCHANGED <<attempt, previous, startLen>>
      BY <2>1 DEF AppendEvent, LoseAnswer
    <3>3a. pc'[c] \in {"appended", "failed"} /\ \A d \in Calls \ {c} : pc'[d] = pc[d]
      BY <3>3 DEF ChainInv, TypeOK
    <3>4. AnswersMatchChain'
      <4>1. \A d \in Calls : Recorded(d)' <=> Recorded(d) \/ d = c
        BY <3>1, RecordedNext DEF ChainInv
      <4> QED
        BY <3>3a, <4>1 DEF ChainInv, AnswersMatchChain
    <3>5. \A t \in Streams : /\ t # StreamOf[c] => chain'[t] = chain[t]
                             /\ t = StreamOf[c] => Len(chain'[t]) = Len(chain[t]) + 1
      BY <3>1, InsertShape DEF ChainInv
    <3>6. Knowledge'
      <4> SUFFICES ASSUME NEW d \in Calls, pc'[d] \in {"reading", "appending"}
                   PROVE  LET length == Len(chain'[StreamOf[d]]) IN
                          /\ pc'[d] = "reading" =>
                               attempt'[d] >= 1 /\ length >= startLen'[d] + attempt'[d] - 1
                          /\ pc'[d] = "appending" =>
                               /\ attempt'[d] >= 1
                               /\ Len(previous'[d]) >= startLen'[d] + attempt'[d] - 1
                               /\ Len(previous'[d]) <= length
                               /\ Len(previous'[d]) = length => TailIsPrevious(d)'
        BY DEF Knowledge
      <4>1. d # c /\ pc'[d] = pc[d]
        BY <3>3a
      <4>2. CASE StreamOf[d] # StreamOf[c]
        <5>1. chain'[StreamOf[d]] = chain[StreamOf[d]]
          BY <2>L, <3>5, <4>2
        <5> QED
          BY <3>3, <4>1, <5>1 DEF ChainInv, Knowledge, TailIsPrevious, TailHash
      <4>3. CASE StreamOf[d] = StreamOf[c]
        <5>1. Len(chain'[StreamOf[d]]) = Len(chain[StreamOf[d]]) + 1
          BY <2>L, <3>5, <4>3
        <5>2. UNCHANGED <<attempt, previous, startLen>>
          BY <3>3
        <5> QED
          BY <2>L, <4>1, <5>1, <5>2 DEF ChainInv, Knowledge
      <4> QED
        BY <4>2, <4>3
    <3>7. ConflictsMeanProgress'
      <4>1. \A d \in Calls : pc'[d] = "conflict" => pc[d] = "conflict"
        BY <3>3a
      <4>2. \A d \in Calls : Len(chain'[StreamOf[d]]) \in {Len(chain[StreamOf[d]]),
                                                          Len(chain[StreamOf[d]]) + 1}
        BY <2>L, <3>5
      <4> QED
        BY <2>L, <3>3, <4>1, <4>2 DEF ChainInv, ConflictsMeanProgress
    <3> QED
      BY <2>0, <3>2, <3>4, <3>6, <3>7 DEF ChainInv
  <2>2. ASSUME chain' = chain, NEW c \in Calls,
               \A d \in Calls \ {c} : /\ pc'[d] = pc[d] /\ attempt'[d] = attempt[d]
                                      /\ previous'[d] = previous[d]
                                      /\ startLen'[d] = startLen[d],
               Begin(c) \/ ReadTail(c) \/ MissTail(c) \/ FailCall(c)
        PROVE  ChainInv'
    <3>1. ChainsAreLinked' /\ HashLengths' /\ \A d \in Calls : Recorded(d)' <=> Recorded(d)
      BY <2>2 DEF ChainInv, ChainsAreLinked, HashLengths, Recorded
    <3>2. /\ pc[c] \in {"idle", "reading", "appending"}
          /\ pc'[c] \in {"reading", "appending", "conflict", "failed"}
      BY <2>2 DEF Begin, ReadTail, MissTail, Retry, FailCall, ChainInv, TypeOK
    <3>3. AnswersMatchChain'
      BY <2>2, <3>1, <3>2 DEF ChainInv, AnswersMatchChain
    <3>4. \A d \in Calls : TailHash(StreamOf[d])' = TailHash(StreamOf[d])
      BY <2>2 DEF TailHash
    <3>5. Knowledge' /\ ConflictsMeanProgress'
      <4> SUFFICES ASSUME NEW d \in Calls
            PROVE  LET length == Len(chain[StreamOf[d]]) IN
                   /\ pc'[d] = "reading" =>
                        attempt'[d] >= 1 /\ length >= startLen'[d] + attempt'[d] - 1
                   /\ pc'[d] = "appending" =>
                        /\ attempt'[d] >= 1
                        /\ Len(previous'[d]) >= startLen'[d] + attempt'[d] - 1
                        /\ Len(previous'[d]) <= length
                        /\ Len(previous'[d]) = length
                             => previous'[d] = TailHash(StreamOf[d])
                   /\ pc'[d] = "conflict" => length >= startLen'[d] + MaxAttempts
        BY <2>2, <3>4 DEF Knowledge, ConflictsMeanProgress, TailIsPrevious
      <4>1. CASE d # c
        BY <2>2, <4>1 DEF ChainInv, Knowledge, ConflictsMeanProgress, TailIsPrevious
      <4>2. CASE d = c /\ Begin(c)
        BY <2>L, <4>2 DEF Begin, ChainInv, TypeOK
      <4>3. CASE d = c /\ ReadTail(c)
        BY <2>L, <4>3, TailLength DEF ReadTail, ChainInv, TypeOK, Knowledge
      <4>4. CASE d = c /\ MissTail(c)
        <5>1. /\ pc[c] = "appending" /\ ~TailIsPrevious(c) /\ startLen'[c] = startLen[c]
              /\ attempt[c] \in 0..MaxAttempts
          BY <4>4 DEF MissTail, ChainInv, TypeOK
        <5>2. Len(chain[StreamOf[c]]) >= startLen[c] + attempt[c]
          BY <2>L, <5>1 DEF ChainInv, Knowledge
        <5>3. \/ /\ pc'[c] = "reading" /\ attempt'[c] = attempt[c] + 1
              \/ /\ pc'[c] = "conflict" /\ attempt[c] = MaxAttempts
          BY <4>4, <5>1 DEF MissTail, Retry, ChainInv, TypeOK
        <5> QED
          BY <2>L, <4>4, <5>1, <5>2, <5>3
      <4>5. CASE d = c /\ FailCall(c)
        BY <4>5 DEF FailCall, ChainInv, TypeOK
      <4> QED
        BY <2>2, <4>1, <4>2, <4>3, <4>4, <4>5
    <3> QED
      BY <2>0, <3>1, <3>3, <3>5 DEF ChainInv
  <2>3. ASSUME NEW c \in Calls, Begin(c) \/ ReadTail(c) \/ MissTail(c) \/ FailCall(c)
        PROVE  /\ chain' = chain
               /\ \A d \in Calls \ {c} : /\ pc'[d] = pc[d] /\ attempt'[d] = attempt[d]
                                         /\ previous'[d] = previous[d]
                                         /\ startLen'[d] = startLen[d]
    BY <2>3 DEF Begin, ReadTail, MissTail, Retry, FailCall, ChainInv, TypeOK
  <2>4. CASE UNCHANGED vars
    BY <2>4 DEF vars, ChainInv, TypeOK, ChainsAreLinked, HashLengths, AnswersMatchChain,
                Recorded, Knowledge, TailIsPrevious, TailHash, ConflictsMeanProgress
  <2> QED
    BY <2>1, <2>2, <2>3, <2>4 DEF Next, Step
<1> QED
  BY <1>1, <1>2, PTL DEF Spec

-----------------------------------------------------------------------------
(* The theorems. *)

\* No append tries more often than the loop of append allows, and rows are
\* rows, for any number of calls.
THEOREM ChainTypes == Spec => []TypeOK
BY ChainInvariant, PTL DEF ChainInv

\* Whatever the concurrency, every stream of backend_audit_events is one hash
\* chain from the genesis hash.
THEOREM StreamsAreHashChains == Spec => []ChainsAreLinked
BY ChainInvariant, PTL DEF ChainInv

\* An append that returned recorded its event, one that lost the race did not.
THEOREM AppendAnswersTruly == Spec => []AnswersMatchChain
BY ChainInvariant, PTL DEF ChainInv

\* An append gives up only after MaxAttempts other events got into its stream.
THEOREM ConflictsNeedProgress == Spec => []ConflictsMeanProgress
BY ChainInvariant, PTL DEF ChainInv

\* The streams are append-only logs that record no event twice.
THEOREM RefinesAuditLog == Spec => ImplementsAuditLog
<1>1. Init => Log!LogInit
  BY DEF Init, Log!LogInit, events
<1>2. ChainInv /\ [Next]_vars => [Log!LogNext]_events
  <2> SUFFICES ASSUME ChainInv, [Next]_vars PROVE [Log!LogNext]_events
    OBVIOUS
  <2>1. ASSUME NEW c \in Calls, AppendEvent(c) \/ LoseAnswer(c)
        PROVE  Log!Record(StreamOf[c], c)
    <3> DEFINE s == StreamOf[c]
               n == Len(chain[s])
               row == [event |-> c, previous |-> previous[c],
                       hash |-> Append(previous[c], c)]
    <3>1. Insert(c) /\ pc[c] = "appending"
      BY <2>1 DEF AppendEvent, LoseAnswer
    <3>2. s \in Streams /\ chain[s] \in Seq(Row) /\ n \in Nat
      BY DEF ChainInv, TypeOK
    <3>3. /\ chain' \in [Streams -> Seq(Row)]
          /\ \A t \in Streams : t # s => chain'[t] = chain[t]
          /\ Len(chain'[s]) = n + 1
          /\ \A i \in 1..n : chain'[s][i] = chain[s][i]
          /\ chain'[s][n + 1].event = c
      <4>1. /\ chain' \in [Streams -> Seq(Row)]
            /\ \A t \in Streams : t # s => chain'[t] = chain[t]
            /\ Len(chain'[s]) = n + 1
            /\ \A i \in 1..n : chain'[s][i] = chain[s][i]
            /\ chain'[s][n + 1] = row
        BY <3>1, InsertShape DEF ChainInv
      <4>2. row.event = c
        OBVIOUS
      <4> QED
        BY <4>1, <4>2
    <3>4. ASSUME NEW t \in Streams, NEW i \in DOMAIN chain[t] PROVE chain[t][i].event # c
      BY <3>1, <3>4 DEF ChainInv, ChainsAreLinked, AnswersMatchChain, Recorded
    <3>5. \A t \in Streams : c \notin Log!Range(events[t])
      BY <3>4 DEF Log!Range, events
    <3>6. events' = [events EXCEPT ![s] = Append(@, c)]
      <4> DEFINE eventsOf(rows) == [i \in DOMAIN rows |-> rows[i].event]
      <4>1. events[s] = eventsOf(chain[s]) /\ events'[s] = eventsOf(chain'[s])
        BY <3>2 DEF events
      <4>2. Len(eventsOf(chain[s])) = n /\ eventsOf(chain[s]) \in Seq(Calls)
        <5>1. \A i \in 1..n : chain[s][i].event \in Calls
          <6>1. \A i \in 1..n : chain[s][i] \in Row
            BY <3>2
          <6> QED
            BY <6>1 DEF Row
        <5>2. DOMAIN chain[s] = 1..n
          BY <3>2, LenProperties
        <5>3. eventsOf(chain[s]) \in [1..n -> Calls]
          BY <5>1, <5>2
        <5>4. eventsOf(chain[s]) \in Seq(Calls)
          BY <3>2, <5>3, SeqDef
        <5> HIDE DEF eventsOf
        <5>5. Len(eventsOf(chain[s])) = n
          BY <3>2, <5>3, <5>4, LenProperties
        <5> QED
          BY <5>4, <5>5
      <4>3. DOMAIN chain'[s] = 1..(n + 1) /\ DOMAIN chain[s] = 1..n
        BY <3>2, <3>3
      <4>4. eventsOf(chain'[s]) = Append(eventsOf(chain[s]), c)
        <5>1. \A i \in 1..(n + 1) :
                chain'[s][i].event = IF i <= n THEN chain[s][i].event ELSE c
          BY <3>2, <3>3
        <5>2. eventsOf(chain'[s]) =
                [i \in 1..(n + 1) |-> IF i <= n THEN eventsOf(chain[s])[i] ELSE c]
          BY <3>2, <4>3, <5>1
        <5> HIDE DEF eventsOf
        <5>3. Append(eventsOf(chain[s]), c) =
                [i \in 1..(n + 1) |-> IF i <= n THEN eventsOf(chain[s])[i] ELSE c]
          BY <3>2, <4>2
        <5> QED
          BY <5>2, <5>3
      <4>5. \A t \in Streams : t # s => events'[t] = events[t]
        BY <3>3 DEF events
      <4>6. events' = [t \in Streams |-> events'[t]] /\ events = [t \in Streams |-> events[t]]
        BY DEF events
      <4> HIDE DEF eventsOf
      <4>7. events'[s] = Append(events[s], c)
        BY <4>1, <4>4
      <4> QED
        BY <3>2, <4>5, <4>6, <4>7
    <3> QED
      BY <3>5, <3>6 DEF Log!Record
  <2>2. ASSUME NEW c \in Calls, Begin(c) \/ ReadTail(c) \/ MissTail(c) \/ FailCall(c)
        PROVE  UNCHANGED events
    BY <2>2 DEF Begin, ReadTail, MissTail, FailCall, events
  <2>3. CASE UNCHANGED vars
    BY <2>3 DEF vars, events
  <2> QED
    BY <2>1, <2>2, <2>3, StreamAssumption DEF Next, Step, Log!LogNext
<1> QED
  BY <1>1, <1>2, ChainInvariant, PTL DEF Spec, ImplementsAuditLog, Log!LogSpec
=============================================================================
