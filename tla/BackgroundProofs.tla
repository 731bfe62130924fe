-------------------------- MODULE BackgroundProofs --------------------------
(***************************************************************************)
(* Theorems about the background writers, for any number of notifications, *)
(* audit entries and faults.                                               *)
(***************************************************************************)
EXTENDS Background, SequenceTheorems, TLAPS

-----------------------------------------------------------------------------
(* The whole and its parts                                                 *)

\* A step is, for each writer, one of its own steps or none.
LEMMA PartsStep ==
    ASSUME [BackgroundNext]_<<outboxVars, auditVars>>
    PROVE  [OutboxNext]_outboxVars /\ [Audit!Next]_Audit!vars
BY DEF BackgroundNext, OutboxStep, AuditStep, Audit!vars, auditVars

-----------------------------------------------------------------------------
(* The audit queue                                                         *)

\* Entries accepted and not known to be written, in the order they will be.
Pending == batch \o queue

AuditTypes ==
    /\ recorded \in 0..Entries
    /\ queue \in Seq(1..Entries)
    /\ batch \in Seq(1..Entries)
    /\ stored \subseteq 1..recorded

\* A batch is in flight only while a write is.
BatchInv == flush # "writing" => batch = <<>>

\* The queue is in the order of recording, up to n.
Ordered(q, n) ==
    /\ \A i \in 1..Len(q) : q[i] <= n
    /\ \A i, j \in 1..Len(q) : i < j => q[i] < q[j]

Member(e, q) == \E i \in 1..Len(q) : q[i] = e

\* No accepted entry has disappeared.
Kept == \A e \in 1..recorded : e \in dropped \/ Member(e, Pending) \/ e \in stored

AuditInv ==
    AuditTypes /\ BatchInv /\ Ordered(Pending, recorded) /\ Kept /\ Audit!StoredInOrder

\* splice(0, BATCH_SIZE) cuts the queue in two.
LEMMA DrainCuts ==
    ASSUME NEW S, NEW q \in Seq(S)
    PROVE  /\ Audit!First(q) \in Seq(S)
           /\ Audit!Rest(q) \in Seq(S)
           /\ Audit!First(q) \o Audit!Rest(q) = q
           /\ q = <<>> => Audit!First(q) = <<>>
<1>1. Len(q) \in Nat /\ AuditBatch \in Nat \ {0}
  BY AuditAssumption
<1>2. SubSeq(q, 1, Len(q)) = q
  BY SubSeqFull
<1>3. CASE Len(q) < AuditBatch
  <2>1. Audit!First(q) = q
    BY <1>2, <1>3 DEF Audit!First
  <2>2. Audit!Rest(q) = <<>>
    BY <1>1, <1>3, SubSeqEmpty DEF Audit!Rest
  <2>3. q \o <<>> = q
    BY ConcatEmptySeq
  <2> QED
    BY <2>1, <2>2, <2>3
<1>4. CASE ~(Len(q) < AuditBatch)
  <2>1. Audit!First(q) = SubSeq(q, 1, AuditBatch) /\ Audit!Rest(q) = SubSeq(q, AuditBatch + 1, Len(q))
    BY <1>4 DEF Audit!First, Audit!Rest
  <2>2. /\ 1 \in 1..Len(q) + 1
        /\ AuditBatch \in 1 - 1 .. Len(q)
        /\ Len(q) \in AuditBatch .. Len(q)
    BY <1>1, <1>4
  <2>3. SubSeq(q, 1, AuditBatch) \o SubSeq(q, AuditBatch + 1, Len(q)) = SubSeq(q, 1, Len(q))
    BY <2>2, ConcatAdjacentSubSeq
  <2>4. SubSeq(q, 1, AuditBatch) \in Seq(S)
    BY <1>1, <1>4, SubSeqProperties
  <2>5. SubSeq(q, AuditBatch + 1, Len(q)) \in Seq(S)
    BY <1>1, <1>4, SubSeqProperties
  <2>6. q # <<>>
    BY <1>1, <1>4
  <2> QED
    BY <1>2, <2>1, <2>3, <2>4, <2>5, <2>6
<1> QED
  BY <1>3, <1>4

\* Members and order of a queue are those of its two parts.
LEMMA MembersOfConcat ==
    ASSUME NEW S, NEW s \in Seq(S), NEW t \in Seq(S), NEW e
    PROVE  Member(e, s \o t) <=> Member(e, s) \/ Member(e, t)
<1>1. /\ Len(s \o t) = Len(s) + Len(t) /\ Len(s) \in Nat /\ Len(t) \in Nat
      /\ \A i \in 1..Len(s) + Len(t) : (s \o t)[i] = IF i <= Len(s) THEN s[i] ELSE t[i - Len(s)]
  BY ConcatProperties
<1>2. ASSUME Member(e, s \o t) PROVE Member(e, s) \/ Member(e, t)
  <2>1. PICK i \in 1..Len(s) + Len(t) : (s \o t)[i] = e
    BY <1>1, <1>2 DEF Member
  <2>2. CASE i <= Len(s)
    BY <1>1, <2>1, <2>2 DEF Member
  <2>3. CASE ~(i <= Len(s))
    <3>1. i - Len(s) \in 1..Len(t) /\ t[i - Len(s)] = e
      BY <1>1, <2>1, <2>3
    <3> QED
      BY <3>1 DEF Member
  <2> QED
    BY <2>2, <2>3
<1>3. ASSUME Member(e, s) PROVE Member(e, s \o t)
  BY <1>1, <1>3 DEF Member
<1>4. ASSUME Member(e, t) PROVE Member(e, s \o t)
  <2>1. PICK i \in 1..Len(t) : t[i] = e
    BY <1>4 DEF Member
  <2>2. i + Len(s) \in 1..Len(s) + Len(t) /\ (s \o t)[i + Len(s)] = t[i]
    BY <1>1
  <2> QED
    BY <1>1, <2>1, <2>2 DEF Member
<1> QED
  BY <1>2, <1>3, <1>4

\* The end of an ordered queue is ordered.
LEMMA EndIsOrdered ==
    ASSUME NEW s \in Seq(1..Entries), NEW t \in Seq(1..Entries), NEW n,
           Ordered(s \o t, n)
    PROVE  Ordered(t, n)
<1>1. /\ Len(s \o t) = Len(s) + Len(t) /\ Len(s) \in Nat /\ Len(t) \in Nat
      /\ \A i \in 1..Len(s) + Len(t) : (s \o t)[i] = IF i <= Len(s) THEN s[i] ELSE t[i - Len(s)]
  BY ConcatProperties
<1>2. \A i \in 1..Len(t) : i + Len(s) \in 1..Len(s \o t) /\ (s \o t)[i + Len(s)] = t[i]
  BY <1>1
<1>3. \A i \in 1..Len(t) : t[i] <= n
  BY <1>2 DEF Ordered
<1>4. ASSUME NEW i \in 1..Len(t), NEW j \in 1..Len(t), i < j PROVE t[i] < t[j]
  <2>1. i + Len(s) < j + Len(s)
    BY <1>1, <1>4
  <2> QED
    BY <1>2, <2>1 DEF Ordered
<1> QED
  BY <1>3, <1>4 DEF Ordered

\* What the queue and the batch hold is what is pending.
LEMMA BufferedIsPending ==
    ASSUME AuditTypes, NEW e
    PROVE  e \in Audit!Buffered <=> Member(e, Pending)
<1>1. Member(e, Pending) <=> Member(e, batch) \/ Member(e, queue)
  BY MembersOfConcat DEF Pending, AuditTypes
<1>2. DOMAIN batch = 1..Len(batch) /\ DOMAIN queue = 1..Len(queue)
  BY DEF AuditTypes
<1>3. /\ e \in Audit!ToSet(batch) <=> Member(e, batch)
      /\ e \in Audit!ToSet(queue) <=> Member(e, queue)
  BY <1>2 DEF Audit!ToSet, Member
<1> QED
  BY <1>1, <1>3 DEF Audit!Buffered

\* A new entry goes to the end of what is pending.
LEMMA Appended ==
    ASSUME NEW S, NEW s \in Seq(S), NEW e \in S
    PROVE  /\ Append(s, e) \in Seq(S)
           /\ \A x : Member(x, Append(s, e)) <=> Member(x, s) \/ x = e
<1>1. /\ Append(s, e) \in Seq(S)
      /\ Len(Append(s, e)) = Len(s) + 1 /\ Len(s) \in Nat
      /\ \A i \in 1..Len(s) : Append(s, e)[i] = s[i]
      /\ Append(s, e)[Len(s) + 1] = e
  OBVIOUS
<1>2. ASSUME NEW x, Member(x, Append(s, e)) PROVE Member(x, s) \/ x = e
  <2>1. PICK i \in 1..Len(s) + 1 : Append(s, e)[i] = x
    BY <1>1, <1>2 DEF Member
  <2>2. CASE i = Len(s) + 1
    BY <1>1, <2>1, <2>2
  <2>3. CASE i # Len(s) + 1
    <3>1. i \in 1..Len(s)
      BY <1>1, <2>3
    <3> QED
      BY <1>1, <2>1, <3>1 DEF Member
  <2> QED
    BY <2>2, <2>3
<1>3. ASSUME NEW x, Member(x, s) \/ x = e PROVE Member(x, Append(s, e))
  <2>1. Len(s) + 1 \in 1..Len(s) + 1 /\ \A i \in 1..Len(s) : i \in 1..Len(s) + 1
    BY <1>1
  <2> QED
    BY <1>1, <1>3, <2>1 DEF Member
<1> QED
  BY <1>1, <1>2, <1>3

\* ... and keeps it in order.
LEMMA AppendedInOrder ==
    ASSUME NEW s \in Seq(1..Entries), NEW n \in Nat, Ordered(s, n)
    PROVE  Ordered(Append(s, n + 1), n + 1)
<1> DEFINE a == Append(s, n + 1)
<1>1. /\ Len(a) = Len(s) + 1 /\ Len(s) \in Nat
      /\ \A i \in 1..Len(s) : a[i] = s[i] /\ s[i] \in Int /\ s[i] <= n
      /\ a[Len(s) + 1] = n + 1
  BY AuditAssumption DEF Ordered
<1> HIDE DEF a
<1>2. \A i \in 1..Len(a) : i \in 1..Len(s) \/ i = Len(s) + 1
  BY <1>1
<1>3. \A i \in 1..Len(a) : a[i] <= n + 1
  BY <1>1, <1>2
<1>4. ASSUME NEW i \in 1..Len(a), NEW j \in 1..Len(a), i < j PROVE a[i] < a[j]
  <2>1. i \in 1..Len(s)
    BY <1>1, <1>2, <1>4
  <2>2. CASE j \in 1..Len(s)
    BY <1>1, <1>4, <2>1, <2>2 DEF Ordered
  <2>3. CASE j = Len(s) + 1
    BY <1>1, <2>1, <2>3
  <2> QED
    BY <1>2, <2>2, <2>3
<1>5. Ordered(a, n + 1)
  BY <1>3, <1>4 DEF Ordered
<1> QED
  BY <1>5 DEF a

\* A drain that starts or goes on leaves pending the queue it was given.
LEMMA Drained ==
    ASSUME NEW q \in Seq(1..Entries), Audit!Drain(q)
    PROVE  /\ queue' \in Seq(1..Entries) /\ batch' \in Seq(1..Entries)
           /\ Pending' = q
           /\ BatchInv'
BY DrainCuts DEF Audit!Drain, Pending, BatchInv

\* A write adds the rows of the batch.
LEMMA Inserted ==
    ASSUME AuditTypes, NEW e
    PROVE  e \in Audit!Insert(batch) <=> e \in stored \/ Member(e, batch)
<1>1. DOMAIN batch = 1..Len(batch)
  BY DEF AuditTypes
<1> QED
  BY <1>1 DEF Audit!Insert, Audit!ToSet, Member

\* The batch is the oldest of what is pending: writing it leaves no hole.
LEMMA WrittenInOrder ==
    ASSUME AuditInv
    PROVE  /\ Audit!Insert(batch) \subseteq 1..recorded
           /\ \A e \in 1..recorded, f \in Audit!Insert(batch) :
                 e < f /\ e \notin dropped => e \in Audit!Insert(batch)
<1>1. /\ AuditTypes /\ Ordered(Pending, recorded) /\ Kept /\ Audit!StoredInOrder
      /\ batch \in Seq(1..Entries) /\ queue \in Seq(1..Entries)
      /\ recorded \in Nat /\ Entries \in Nat
  BY AuditAssumption DEF AuditInv, AuditTypes
<1>2. /\ Len(Pending) = Len(batch) + Len(queue) /\ Len(batch) \in Nat /\ Len(queue) \in Nat
      /\ \A i \in 1..Len(batch) + Len(queue) :
            Pending[i] = IF i <= Len(batch) THEN batch[i] ELSE queue[i - Len(batch)]
  BY <1>1, ConcatProperties DEF Pending
<1>3. \A i \in 1..Len(batch) : i \in 1..Len(Pending) /\ batch[i] = Pending[i] /\ batch[i] \in 1..Entries
  BY <1>1, <1>2
<1>4. \A j \in 1..Len(queue) : /\ j + Len(batch) \in 1..Len(Pending)
                               /\ queue[j] = Pending[j + Len(batch)]
                               /\ queue[j] \in 1..Entries
  <2> SUFFICES ASSUME NEW j \in 1..Len(queue)
               PROVE  /\ j + Len(batch) \in 1..Len(Pending)
                      /\ queue[j] = Pending[j + Len(batch)]
                      /\ queue[j] \in 1..Entries
    OBVIOUS
  <2>1. /\ j + Len(batch) \in 1..Len(batch) + Len(queue)
        /\ ~(j + Len(batch) <= Len(batch))
        /\ (j + Len(batch)) - Len(batch) = j
    BY <1>2
  <2>2. queue[j] \in 1..Entries
    BY <1>1
  <2> QED
    BY <1>2, <2>1, <2>2
<1>5. ASSUME NEW f, Member(f, batch)
      PROVE  f \in 1..recorded
  <2>1. PICK i \in 1..Len(batch) : batch[i] = f
    BY <1>5 DEF Member
  <2>2. f \in 1..Entries /\ f <= recorded
    BY <1>1, <1>3, <2>1 DEF Ordered
  <2> QED
    BY <1>1, <2>2
<1>6. ASSUME NEW e, NEW f, Member(e, queue), Member(f, batch)
      PROVE  f < e
  <2>1. PICK i \in 1..Len(batch) : batch[i] = f
    BY <1>6 DEF Member
  <2>2. PICK j \in 1..Len(queue) : queue[j] = e
    BY <1>6 DEF Member
  <2>3. i < j + Len(batch)
    BY <1>2
  <2> QED
    BY <1>1, <1>3, <1>4, <2>1, <2>2, <2>3 DEF Ordered
<1>7. Audit!Insert(batch) \subseteq 1..recorded
  BY <1>1, <1>5, Inserted DEF AuditTypes
<1>8. ASSUME NEW e \in 1..recorded, NEW f \in Audit!Insert(batch), e < f, e \notin dropped
      PROVE  e \in Audit!Insert(batch)
  <2>1. e \in Nat /\ f \in Nat
    BY <1>1, <1>7
  <2>2. CASE f \in stored
    BY <1>1, <1>8, <2>2, Inserted DEF Audit!StoredInOrder
  <2>3. CASE Member(f, batch)
    <3>1. e \in stored \/ Member(e, Pending)
      BY <1>1, <1>8 DEF Kept
    <3>2. Member(e, Pending) => Member(e, batch) \/ Member(e, queue)
      BY <1>1, MembersOfConcat DEF Pending
    <3>3. ~Member(e, queue)
      BY <1>6, <1>8, <2>1, <2>3
    <3> QED
      BY <1>1, <3>1, <3>2, <3>3, Inserted
  <2> QED
    BY <1>1, <2>2, <2>3, Inserted
<1> QED
  BY <1>7, <1>8

\* Every step of AuditService keeps the invariant.
LEMMA AuditInvStep == AuditInv /\ [Audit!Next]_Audit!vars => AuditInv'
<1> SUFFICES ASSUME AuditInv, [Audit!Next]_Audit!vars PROVE AuditInv'
  OBVIOUS
<1>0. /\ Pending \in Seq(1..Entries)
      /\ flush # "writing" => Pending = queue
  <2>1. batch \in Seq(1..Entries) /\ queue \in Seq(1..Entries)
    BY DEF AuditInv, AuditTypes
  <2>2. batch \o queue \in Seq(1..Entries) /\ <<>> \o queue = queue
    BY <2>1, ConcatProperties, ConcatEmptySeq
  <2> QED
    BY <2>2 DEF Pending, AuditInv, BatchInv
<1>1. ASSUME Pending' = Pending, AuditTypes', BatchInv', UNCHANGED <<recorded, dropped>>,
             stored \subseteq stored', Audit!StoredInOrder'
      PROVE  AuditInv'
  <2>1. Ordered(Pending, recorded)'
    BY <1>1 DEF AuditInv
  <2>2. Kept'
    BY <1>1 DEF AuditInv, Kept
  <2> QED
    BY <1>1, <2>1, <2>2 DEF AuditInv
<1>2. CASE UNCHANGED Audit!vars
  <2>1. Pending' = Pending /\ BatchInv' /\ AuditTypes'
    BY <1>2 DEF Audit!vars, Pending, AuditInv, BatchInv, AuditTypes
  <2> QED
    BY <1>1, <1>2, <2>1 DEF Audit!vars, AuditInv, Audit!StoredInOrder
<1>3. CASE Audit!Record
  <2>1. /\ recorded \in Nat /\ recorded < Entries /\ recorded' = recorded + 1
        /\ recorded + 1 \in 1..Entries
        /\ UNCHANGED stored
        /\ stored \subseteq 1..recorded'
        /\ \A f \in stored : f \in 1..recorded
    BY <1>3, AuditAssumption DEF Audit!Record, AuditInv, AuditTypes
  <2>0. dropped \subseteq dropped'
    BY <1>3 DEF Audit!Record
  <2>4. Audit!StoredInOrder'
    <3>1. \A e \in 1..recorded', f \in stored : e < f => e \in 1..recorded
      BY <2>1
    <3> QED
      BY <2>0, <2>1, <3>1 DEF AuditInv, Audit!StoredInOrder
  <2>2. CASE Audit!Full
    <3>1. dropped' = dropped \cup {recorded + 1} /\ UNCHANGED <<queue, batch, flush>>
      BY <1>3, <2>2 DEF Audit!Record
    <3>2. Pending' = Pending /\ BatchInv' /\ AuditTypes'
      BY <2>1, <3>1, AuditAssumption DEF Pending, AuditInv, BatchInv, AuditTypes
    <3>3. Ordered(Pending, recorded)'
      <4>1. \A i \in 1..Len(Pending) : Pending[i] \in Int
        BY <1>0, AuditAssumption
      <4> QED
        BY <2>1, <3>2, <4>1 DEF AuditInv, Ordered
    <3>4. Kept'
      BY <2>1, <3>1, <3>2 DEF AuditInv, Kept
    <3> QED
      BY <2>4, <3>2, <3>3, <3>4 DEF AuditInv
  <2>3. CASE ~Audit!Full
    <3> DEFINE q == Append(queue, recorded + 1)
    <3>1. q \in Seq(1..Entries)
      BY <2>1 DEF AuditInv, AuditTypes
    <3>2. dropped' = dropped
      BY <1>3, <2>3 DEF Audit!Record
    <3>3. /\ queue' \in Seq(1..Entries) /\ batch' \in Seq(1..Entries) /\ BatchInv'
          /\ Pending' = Append(Pending, recorded + 1)
      <4>1. CASE Len(q) >= AuditBatch /\ flush = "none"
        <5>1. Audit!Drain(q)
          BY <1>3, <2>3, <4>1 DEF Audit!Record
        <5>2. Pending = queue
          BY <1>0, <4>1
        <5> QED
          BY <3>1, <5>1, <5>2, Drained
      <4>2. CASE ~(Len(q) >= AuditBatch /\ flush = "none")
        <5>1. queue' = q /\ batch' = batch /\ flush' = flush
          BY <1>3, <2>3, <4>2 DEF Audit!Record
        <5>2. batch \o Append(queue, recorded + 1) = Append(batch \o queue, recorded + 1)
          BY <2>1 DEF AuditInv, AuditTypes
        <5> QED
          BY <3>1, <5>1, <5>2 DEF Pending, AuditInv, AuditTypes, BatchInv
      <4> QED
        BY <4>1, <4>2
    <3>4. AuditTypes'
      BY <2>1, <3>3 DEF AuditInv, AuditTypes
    <3>5. Ordered(Append(Pending, recorded + 1), recorded + 1)
      BY <1>0, <2>1, AppendedInOrder DEF AuditInv
    <3>6. Ordered(Pending, recorded)'
      BY <2>1, <3>3, <3>5
    <3>7. \A x : Member(x, Append(Pending, recorded + 1)) <=> Member(x, Pending) \/ x = recorded + 1
      BY <1>0, <2>1, Appended
    <3>8. Kept'
      BY <2>1, <3>2, <3>3, <3>7 DEF AuditInv, Kept
    <3> QED
      BY <2>4, <3>3, <3>4, <3>6, <3>8 DEF AuditInv
  <2> QED
    BY <2>2, <2>3
<1>4. CASE Audit!TimerFlush
  <2>1. /\ Audit!Drain(queue) /\ Pending = queue
        /\ UNCHANGED <<recorded, dropped, stored>>
    BY <1>0, <1>4 DEF Audit!TimerFlush
  <2>2. AuditTypes' /\ BatchInv' /\ Pending' = Pending
    BY <2>1, Drained DEF AuditInv, AuditTypes
  <2> QED
    BY <1>1, <2>1, <2>2 DEF AuditInv, Audit!StoredInOrder
<1>5. CASE Audit!WriteSucceeds
  <2>1. /\ Audit!Drain(queue) /\ stored' = Audit!Insert(batch)
        /\ UNCHANGED <<recorded, dropped>>
    BY <1>5 DEF Audit!WriteSucceeds
  <2>2. AuditTypes' /\ BatchInv' /\ Pending' = queue
    BY <2>1, Drained, WrittenInOrder DEF AuditInv, AuditTypes
  <2>3. Ordered(queue, recorded)
    BY EndIsOrdered DEF AuditInv, AuditTypes, Pending
  <2>4. Ordered(Pending, recorded)'
    BY <2>1, <2>2, <2>3
  <2>5. \A e : Member(e, Pending) => Member(e, batch) \/ Member(e, queue)
    BY MembersOfConcat DEF Pending, AuditInv, AuditTypes
  <2>6. \A e : e \in stored \/ Member(e, batch) => e \in stored'
    BY <2>1, Inserted DEF AuditInv
  <2>7. Audit!StoredInOrder'
    BY <2>1, WrittenInOrder DEF Audit!StoredInOrder
  <2>8. Kept'
    BY <2>1, <2>2, <2>5, <2>6 DEF AuditInv, Kept
  <2> QED
    BY <2>2, <2>4, <2>7, <2>8 DEF AuditInv
<1>6. CASE Audit!WriteFails
  <2>1. /\ stored' = stored \/ stored' = Audit!Insert(batch)
        /\ queue' = Pending /\ batch' = <<>>
        /\ flush' = "settled" /\ UNCHANGED <<recorded, dropped>>
    BY <1>6 DEF Audit!WriteFails, Audit!PutBack, Pending
  <2>2. stored' \subseteq 1..recorded /\ stored \subseteq stored'
    BY <2>1, Inserted, WrittenInOrder DEF AuditInv, AuditTypes
  <2>5. Audit!StoredInOrder'
    BY <2>1, WrittenInOrder DEF AuditInv, Audit!StoredInOrder
  <2>3. <<>> \o Pending = Pending /\ <<>> \in Seq(1..Entries)
    BY <1>0, ConcatEmptySeq
  <2>4. AuditTypes' /\ BatchInv' /\ Pending' = Pending
    <3>1. Pending' = batch' \o queue'
      BY DEF Pending
    <3> QED
      BY <1>0, <2>1, <2>2, <2>3, <3>1 DEF AuditInv, AuditTypes, BatchInv
  <2> QED
    BY <1>1, <2>1, <2>2, <2>4, <2>5
<1>7. CASE Audit!Finally \/ Audit!Down
  <2>1. UNCHANGED <<recorded, dropped, queue, batch, stored>>
    BY <1>7 DEF Audit!Finally, Audit!Down
  <2>2. AuditTypes' /\ BatchInv' /\ Pending' = Pending
    BY <1>7, <2>1 DEF Audit!Finally, Audit!Down, AuditInv, AuditTypes, BatchInv, Pending
  <2> QED
    BY <1>1, <2>1, <2>2 DEF AuditInv, Audit!StoredInOrder
<1>8. CASE Audit!Destroy
  <2>1. UNCHANGED <<recorded, dropped, stored>>
    BY <1>8 DEF Audit!Destroy
  <2>2. AuditTypes' /\ BatchInv' /\ Pending' = Pending
    <3>1. CASE flush = "none"
      BY <1>0, <1>8, <2>1, <3>1, Drained DEF Audit!Destroy, AuditInv, AuditTypes
    <3>2. CASE flush # "none"
      BY <1>8, <2>1, <3>2 DEF Audit!Destroy, AuditInv, AuditTypes, BatchInv, Pending
    <3> QED
      BY <3>1, <3>2
  <2> QED
    BY <1>1, <2>1, <2>2 DEF AuditInv, Audit!StoredInOrder
<1> QED
  BY <1>2, <1>3, <1>4, <1>5, <1>6, <1>7, <1>8 DEF Audit!Next

\* The invariant in every state, with both writers at work.
LEMMA AuditAlways == BackgroundSpec => []AuditInv
<1>1. BackgroundInit => AuditInv
  <2> SUFFICES ASSUME Audit!Init PROVE AuditInv
    BY DEF BackgroundInit
  <2>1. <<>> \o <<>> = <<>> /\ Len(<<>>) = 0 /\ <<>> \in Seq(1..Entries)
    BY ConcatEmptySeq
  <2> QED
    BY <2>1, AuditAssumption
    DEF Audit!Init, AuditInv, AuditTypes, BatchInv, Ordered, Kept, Pending, Audit!StoredInOrder
<1>2. AuditInv /\ [BackgroundNext]_<<outboxVars, auditVars>> => AuditInv'
  BY PartsStep, AuditInvStep
<1> QED
  BY <1>1, <1>2, PTL DEF BackgroundSpec

\* AuditService (audit.service.ts): an entry record() accepted is in the queue, in
\* the batch being written or in the table, whichever writes fail and however a
\* shutdown falls in.
THEOREM NoEntryIsLost == BackgroundSpec => []NothingLost
<1>1. AuditInv => NothingLost
  BY BufferedIsPending DEF AuditInv, Kept, NothingLost, Audit!NothingLost
<1> QED
  BY <1>1, AuditAlways, PTL

\* drain and its failing writes (audit.service.ts): the table holds the accepted
\* entries up to some point and none after it, for any batch size, queue limit and
\* number of failures.
THEOREM TrailHasNoHole == BackgroundSpec => []StoredInOrder
<1>1. AuditInv => StoredInOrder
  BY DEF AuditInv, StoredInOrder
<1> QED
  BY <1>1, AuditAlways, PTL

\* Failed batches go back to the front: what is still to be written is in the
\* order it was recorded, and no entry is in it twice.
THEOREM PendingIsInOrder == BackgroundSpec => []Ordered(Pending, recorded)
<1>1. AuditInv => Ordered(Pending, recorded)
  BY DEF AuditInv
<1> QED
  BY <1>1, AuditAlways, PTL

-----------------------------------------------------------------------------
(* The outbox                                                              *)

OutboxTypes ==
    /\ status \in [Ids -> Status]
    /\ retries \in [Ids -> 0..MaxRetries]
    /\ delivered \in [Ids -> Nat]
    /\ worker \in [Workers -> Pass]
    /\ outboxFaults \in Nat

\* A row that is still to be sent has an attempt left, and so has the row in hand.
AttemptLeft ==
    /\ \A n \in Ids : status[n] \in {"ABSENT", "QUEUED", "SENDING"} => retries[n] < MaxRetries
    /\ \A w \in Workers : worker[w].pc \in {"send", "mark", "fail"} =>
          worker[w].row \in Ids /\ worker[w].attempt < MaxRetries

RetryInv == OutboxTypes /\ AttemptLeft

\* The row in hand is claimed.
HandHeld ==
    \A w \in Workers : worker[w].pc \in {"send", "mark", "fail"} => status[worker[w].row] = "SENDING"

Marking(n) == \E w \in Workers : worker[w].pc = "mark" /\ worker[w].row = n

\* The copies of a row that may be sent again are paid for by faults; the last
\* copy of one that was sent need not be.
CopiesPaid ==
    \A n \in Ids :
        /\ delivered[n] <= outboxFaults + 1
        /\ status[n] \in {"ABSENT", "QUEUED", "SENDING"} /\ ~Marking(n) => delivered[n] <= outboxFaults

CopyInv == RetryInv /\ HandHeld /\ CopiesPaid

\* A process between two passes.
LEMMA RestingIsPass == Resting \in Pass /\ Resting.pc = "idle"
BY OutboxAssumption DEF Resting, Pass

\* Every step of the outbox, of any number of processes, keeps the attempts bounded.
LEMMA RetryInvStep == RetryInv /\ [OutboxNext]_outboxVars => RetryInv'
<1> SUFFICES ASSUME RetryInv, [OutboxNext]_outboxVars PROVE RetryInv'
  OBVIOUS
<1> USE OutboxAssumption
<1> USE DEF RetryInv
<1>0. ASSUME NEW w \in Workers, NEW pc \in {"claim", "mark", "fail"}, Goto(w, pc),
             worker[w].pc \in {"send", "mark"}
      PROVE  /\ worker' \in [Workers -> Pass]
             /\ \A v \in Workers : worker'[v].pc \in {"send", "mark", "fail"} =>
                   worker'[v].row \in Ids /\ worker'[v].attempt < MaxRetries
  <2> DEFINE p == [worker[w] EXCEPT !.pc = pc]
  <2>1. worker[w] \in Pass
    BY DEF OutboxTypes
  <2>2. p \in Pass /\ p.pc = pc /\ p.row = worker[w].row /\ p.attempt = worker[w].attempt
    BY <2>1 DEF Pass
  <2>3. worker' = [worker EXCEPT ![w] = p]
    BY <1>0 DEF Goto
  <2>4. p.row \in Ids /\ p.attempt < MaxRetries
    BY <1>0, <2>2 DEF AttemptLeft
  <2> HIDE DEF p
  <2> QED
    BY <2>2, <2>3, <2>4 DEF OutboxTypes, AttemptLeft
<1>1. CASE UNCHANGED outboxVars
  BY <1>1 DEF outboxVars, OutboxTypes, AttemptLeft
<1>2. ASSUME NEW n \in Ids, NEW ch \in Channels, Enqueue(n, ch) PROVE RetryInv'
  BY <1>2 DEF Enqueue, NextId, OutboxTypes, AttemptLeft, Status
<1>3. ASSUME NEW n \in Ids, EnqueueInApp(n) PROVE RetryInv'
  BY <1>3 DEF EnqueueInApp, OutboxTypes, AttemptLeft, Status
<1>4. ASSUME NEW w \in Workers, BeginPass(w) PROVE RetryInv'
  <2> DEFINE p == [Resting EXCEPT !.pc = "claim", !.left = BatchSize]
  <2>1. p \in Pass /\ p.pc = "claim"
    <3>1. BatchSize \in 0..BatchSize
      OBVIOUS
    <3> QED
      BY <3>1, RestingIsPass DEF Pass
  <2>2. status' \in [Ids -> Status]
    BY <1>4 DEF BeginPass, OutboxTypes, Status
  <2>3. \A n \in Ids : status'[n] = status[n] \/ status[n] = "SENDING"
    BY <1>4 DEF BeginPass, Abandoned
  <2>4. worker' = [worker EXCEPT ![w] = p] /\ UNCHANGED <<retries, delivered, outboxFaults>>
    BY <1>4 DEF BeginPass
  <2> HIDE DEF p
  <2> QED
    BY <2>1, <2>2, <2>3, <2>4 DEF OutboxTypes, AttemptLeft
<1>5. ASSUME NEW w \in Workers, Claim(w) PROVE RetryInv'
  <2>1. PICK n \in Due :
            /\ status' = [status EXCEPT ![n] = "SENDING"]
            /\ worker' = [worker EXCEPT ![w] =
                            [@ EXCEPT !.pc = "send", !.row = n, !.attempt = retries[n],
                                      !.left = worker[w].left - 1]]
    BY <1>5 DEF Claim
  <2> DEFINE p == [worker[w] EXCEPT !.pc = "send", !.row = n, !.attempt = retries[n],
                                    !.left = worker[w].left - 1]
  <2>2. n \in Ids /\ n \in 0..Rows /\ status[n] = "QUEUED" /\ retries[n] \in 0..MaxRetries
    BY DEF Due, Ids, OutboxTypes
  <2>3. worker[w] \in Pass /\ worker[w].left \in 0..BatchSize /\ worker[w].left > 0
    BY <1>5 DEF Claim, OutboxTypes, Pass
  <2>4. p \in Pass /\ p.row = n /\ p.attempt = retries[n]
    <3>1. worker[w].left - 1 \in 0..BatchSize
      BY <2>3
    <3> QED
      BY <2>2, <2>3, <3>1 DEF Pass
  <2>5. worker' = [worker EXCEPT ![w] = p] /\ UNCHANGED <<retries, delivered, outboxFaults>>
    BY <1>5, <2>1 DEF Claim
  <2> HIDE DEF p
  <2> QED
    BY <2>1, <2>2, <2>4, <2>5 DEF OutboxTypes, AttemptLeft, Status
<1>6. ASSUME NEW w \in Workers, EndPass(w) PROVE RetryInv'
  BY <1>6, RestingIsPass DEF EndPass, OutboxTypes, AttemptLeft
<1>7. ASSUME NEW w \in Workers, SendSucceeds(w) PROVE RetryInv'
  BY <1>7, <1>0 DEF SendSucceeds, OutboxTypes, AttemptLeft
<1>8. ASSUME NEW w \in Workers, SendFails(w) PROVE RetryInv'
  BY <1>8, <1>0 DEF SendFails, OutboxTypes, AttemptLeft
<1>9. ASSUME NEW w \in Workers, SendFailsLate(w) PROVE RetryInv'
  BY <1>9, <1>0 DEF SendFailsLate, OutboxTypes, AttemptLeft
<1>10. ASSUME NEW w \in Workers, MarkSent(w) PROVE RetryInv'
  BY <1>10, <1>0 DEF MarkSent, OutboxTypes, AttemptLeft, Status
<1>11. ASSUME NEW w \in Workers, MarkSentFails(w) PROVE RetryInv'
  BY <1>11, <1>0 DEF MarkSentFails, OutboxTypes, AttemptLeft
<1>12. ASSUME NEW w \in Workers, RecordFailure(w) PROVE RetryInv'
  <2> DEFINE p == [worker[w] EXCEPT !.pc = "claim"]
             n == worker[w].row
             a == worker[w].attempt
  <2>1. worker[w] \in Pass /\ n \in Ids /\ a < MaxRetries /\ a \in 0..MaxRetries
    BY <1>12 DEF RecordFailure, OutboxTypes, AttemptLeft, Pass
  <2>2. p \in Pass /\ p.pc = "claim"
    BY <2>1 DEF Pass
  <2>3. /\ status' = [status EXCEPT ![n] = IF a + 1 >= MaxRetries THEN "FAILED" ELSE "QUEUED"]
        /\ retries' = [retries EXCEPT ![n] = a + 1]
        /\ worker' = [worker EXCEPT ![w] = p]
        /\ UNCHANGED <<delivered, outboxFaults>>
    BY <1>12 DEF RecordFailure, Goto, Exhausted
  <2> HIDE DEF p, n, a
  <2> QED
    BY <2>1, <2>2, <2>3 DEF OutboxTypes, AttemptLeft, Status
<1>13. ASSUME NEW w \in Workers, Shutdown(w) PROVE RetryInv'
  <2> DEFINE p == [worker[w] EXCEPT !.stopping = TRUE]
  <2>1. worker[w] \in Pass
    BY DEF OutboxTypes
  <2>2. p \in Pass /\ p.pc = worker[w].pc /\ p.row = worker[w].row /\ p.attempt = worker[w].attempt
    BY <2>1 DEF Pass
  <2>3. /\ worker' = [worker EXCEPT ![w] = p] /\ UNCHANGED <<status, retries, delivered>>
        /\ outboxFaults' = outboxFaults + 1
    BY <1>13 DEF Shutdown
  <2> HIDE DEF p
  <2> QED
    BY <2>2, <2>3 DEF OutboxTypes, AttemptLeft
<1>14. ASSUME NEW w \in Workers, CrashPass(w) PROVE RetryInv'
  BY <1>14, RestingIsPass DEF CrashPass, OutboxTypes, AttemptLeft
<1>15. ASSUME NEW n \in Ids, LeaseRunsOut(n) \/ BackoffEnds(n) PROVE RetryInv'
  BY <1>15 DEF LeaseRunsOut, BackoffEnds, OutboxTypes, AttemptLeft
<1> QED
  BY <1>1, <1>2, <1>3, <1>4, <1>5, <1>6, <1>7, <1>8, <1>9, <1>10, <1>11, <1>12, <1>13,
     <1>14, <1>15 DEF OutboxNext, RunPass

LEMMA RetryAlways == BackgroundSpec => []RetryInv
<1>1. BackgroundInit => RetryInv
  BY OutboxAssumption, RestingIsPass
  DEF BackgroundInit, OutboxInit, RetryInv, OutboxTypes, AttemptLeft, Status
<1>2. RetryInv /\ [BackgroundNext]_<<outboxVars, auditVars>> => RetryInv'
  BY PartsStep, RetryInvStep
<1> QED
  BY <1>1, <1>2, PTL DEF BackgroundSpec

\* There is one process that delivers.
OneWorker == \A v, w \in Workers : v = w

\* Every step of the outbox keeps the copies paid for, when one process delivers.
LEMMA CopyInvStep == OneWorker /\ CopyInv /\ [OutboxNext]_outboxVars => CopyInv'
<1> SUFFICES ASSUME OneWorker, CopyInv, [OutboxNext]_outboxVars PROVE HandHeld' /\ CopiesPaid'
  BY RetryInvStep DEF CopyInv
<1>0. /\ OutboxTypes /\ AttemptLeft /\ HandHeld /\ CopiesPaid
      /\ \A n \in Ids : delivered[n] \in Nat
      /\ outboxFaults \in Nat
      /\ \A v, w \in Workers : v = w
  BY DEF CopyInv, RetryInv, OneWorker, OutboxTypes
<1> HIDE DEF CopyInv, RetryInv
<1>1. CASE UNCHANGED outboxVars
  BY <1>0, <1>1 DEF outboxVars, HandHeld, CopiesPaid, Marking
<1>2. ASSUME NEW n \in Ids, NEW ch \in Channels, Enqueue(n, ch) PROVE HandHeld' /\ CopiesPaid'
  BY <1>0, <1>2 DEF Enqueue, NextId, OutboxTypes, AttemptLeft, HandHeld, CopiesPaid, Marking
<1>3. ASSUME NEW n \in Ids, EnqueueInApp(n) PROVE HandHeld' /\ CopiesPaid'
  BY <1>0, <1>3 DEF EnqueueInApp, NextId, OutboxTypes, AttemptLeft, HandHeld, CopiesPaid, Marking
<1>4. ASSUME NEW w \in Workers, BeginPass(w) PROVE HandHeld' /\ CopiesPaid'
  BY <1>0, <1>4 DEF BeginPass, OutboxTypes, HandHeld, CopiesPaid, Marking, Resting, Abandoned
<1>5. ASSUME NEW w \in Workers, Claim(w) PROVE HandHeld' /\ CopiesPaid'
  BY <1>0, <1>5 DEF Claim, Due, OutboxTypes, HandHeld, CopiesPaid, Marking, Pass
<1>6. ASSUME NEW w \in Workers, EndPass(w) PROVE HandHeld' /\ CopiesPaid'
  BY <1>0, <1>6, RestingIsPass DEF EndPass, OutboxTypes, HandHeld, CopiesPaid, Marking
<1>7. ASSUME NEW w \in Workers, SendSucceeds(w) PROVE HandHeld' /\ CopiesPaid'
  BY <1>0, <1>7 DEF SendSucceeds, Goto, OutboxTypes, AttemptLeft, HandHeld, CopiesPaid, Marking, Pass
<1>8. ASSUME NEW w \in Workers, SendFails(w) PROVE HandHeld' /\ CopiesPaid'
  BY <1>0, <1>8 DEF SendFails, Goto, OutboxTypes, HandHeld, CopiesPaid, Marking, Pass
<1>9. ASSUME NEW w \in Workers, SendFailsLate(w) PROVE HandHeld' /\ CopiesPaid'
  BY <1>0, <1>9 DEF SendFailsLate, Goto, OutboxTypes, AttemptLeft, HandHeld, CopiesPaid, Marking, Pass
<1>10. ASSUME NEW w \in Workers, MarkSent(w) PROVE HandHeld' /\ CopiesPaid'
  BY <1>0, <1>10 DEF MarkSent, Goto, OutboxTypes, AttemptLeft, HandHeld, CopiesPaid, Marking, Pass
<1>11. ASSUME NEW w \in Workers, MarkSentFails(w) PROVE HandHeld' /\ CopiesPaid'
  BY <1>0, <1>11 DEF MarkSentFails, Goto, OutboxTypes, HandHeld, CopiesPaid, Marking, Pass
<1>12. ASSUME NEW w \in Workers, RecordFailure(w) PROVE HandHeld' /\ CopiesPaid'
  BY <1>0, <1>12 DEF RecordFailure, Goto, OutboxTypes, AttemptLeft, HandHeld, CopiesPaid, Marking, Pass
<1>13. ASSUME NEW w \in Workers, Shutdown(w) PROVE HandHeld' /\ CopiesPaid'
  BY <1>0, <1>13 DEF Shutdown, OutboxTypes, HandHeld, CopiesPaid, Marking, Pass
<1>14. ASSUME NEW w \in Workers, CrashPass(w) PROVE HandHeld' /\ CopiesPaid'
  BY <1>0, <1>14, RestingIsPass DEF CrashPass, OutboxTypes, HandHeld, CopiesPaid, Marking
<1>15. ASSUME NEW n \in Ids, LeaseRunsOut(n) \/ BackoffEnds(n) PROVE HandHeld' /\ CopiesPaid'
  BY <1>0, <1>15 DEF LeaseRunsOut, BackoffEnds, HandHeld, CopiesPaid, Marking
<1> QED
  BY <1>1, <1>2, <1>3, <1>4, <1>5, <1>6, <1>7, <1>8, <1>9, <1>10, <1>11, <1>12, <1>13,
     <1>14, <1>15 DEF OutboxNext, RunPass

\* MAX_RETRIES (notification-outbox.service.ts): however many processes deliver and
\* whichever of them fail, no row is recorded with more failures than allowed, and
\* a row that may be claimed has an attempt left.
THEOREM AttemptsAreBounded ==
    BackgroundSpec => [](\A n \in Ids : /\ retries[n] <= MaxRetries
                                        /\ status[n] = "QUEUED" => retries[n] < MaxRetries)
<1>1. RetryInv => \A n \in Ids : /\ retries[n] <= MaxRetries
                                 /\ status[n] = "QUEUED" => retries[n] < MaxRetries
  BY OutboxAssumption DEF RetryInv, OutboxTypes, AttemptLeft
<1> QED
  BY <1>1, RetryAlways, PTL

\* The claim of the delivery worker: with one process, every copy of a message
\* beyond the first is paid for by a crash, a shutdown or a failing statement.
THEOREM OneWorkerPaysForCopies == OneWorker => (BackgroundSpec => []ExtraCopiesNeedFaults)
<1> SUFFICES ASSUME OneWorker PROVE BackgroundSpec => []ExtraCopiesNeedFaults
  OBVIOUS
<1>1. BackgroundInit => CopyInv
  BY OutboxAssumption, RestingIsPass
  DEF BackgroundInit, OutboxInit, CopyInv, RetryInv, OutboxTypes, AttemptLeft, HandHeld, CopiesPaid,
      Status
<1>2. CopyInv /\ [BackgroundNext]_<<outboxVars, auditVars>> => CopyInv'
  BY PartsStep, CopyInvStep
<1>3. CopyInv => ExtraCopiesNeedFaults
  BY DEF CopyInv, RetryInv, OutboxTypes, CopiesPaid, ExtraCopiesNeedFaults
<1> QED
  BY <1>1, <1>2, <1>3, PTL DEF BackgroundSpec

=============================================================================
