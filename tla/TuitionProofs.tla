--------------------------- MODULE TuitionProofs ---------------------------
(***************************************************************************)
(* Invoice numbers have no gap, a close loses only races, and the money of *)
(* every invoice adds up, for any number of requests, closes and           *)
(* registrations in flight and any table.                                  *)
(***************************************************************************)
EXTENDS Tuition, Sums, FiniteSetTheorems, TLAPS

Issued == {i \in invoices : i.no # 0}

\* How many invoices bear a number of the sequence.
Count == Cardinality(Issued)

\* The three tables of requests keep their domains.
Tables ==
    /\ create = [k \in Clerks |-> create[k]]
    /\ close = [g \in Closers |-> close[g]]
    /\ fee = [f \in Registrars |-> fee[f]]

\* The numbers in use, and how many rows bear them.
Numbered ==
    /\ IsFiniteSet(Issued)
    /\ \A i \in invoices : i.no \in Nat
    /\ Numbers \ {0} = 1..Count

\* A number that an issuer has read and not yet used is at most the next one:
\* whoever read earlier holds one that is taken, and loses its insert.
Pending(op) == op.at = "INSERT" => op.no \in 1..(Count + 1)

Reads ==
    /\ \A k \in Clerks : Pending(create[k])
    /\ \A g \in Closers : Pending(close[g])
    /\ \A f \in Registrars : Pending(fee[f])

Inv == Tables /\ Numbered /\ Reads

\* The numbered rows of the table can be counted.
LEMMA CountIsNat == Numbered => Count \in Nat
  BY FS_CardinalityType DEF Numbered, Count

\* nextInvoiceNo answers one more than there are numbered invoices.
LEMMA NextIsFree == Numbered => NextNumber = Count + 1
<1> SUFFICES ASSUME Numbered PROVE NextNumber = Count + 1
  OBVIOUS
<1>1. Count \in Nat
  BY CountIsNat
<1>2. \A m \in Numbers : m \in 0..Count
  <2>1. \A m \in Numbers : m = 0 \/ m \in 1..Count
    BY DEF Numbered
  <2> QED
    BY <2>1, <1>1
<1>3. Count \in Numbers \cup {0}
  <2>1. CASE Count = 0
    BY <2>1
  <2>2. CASE Count # 0
    <3>1. Count \in 1..Count
      BY <2>2, <1>1
    <3> QED
      BY <3>1 DEF Numbered
  <2> QED
    BY <2>1, <2>2
<1> DEFINE top == CHOOSE n \in Numbers \cup {0} : \A m \in Numbers : m <= n
<1>4. \E n \in Numbers \cup {0} : \A m \in Numbers : m <= n
  BY <1>1, <1>2, <1>3
<1>5. top \in Numbers \cup {0} /\ \A m \in Numbers : m <= top
  BY <1>4
<1>6. NextNumber = 1 + top
  BY DEF NextNumber
<1> HIDE DEF top
<1>7. top \in 0..Count
  BY <1>1, <1>2, <1>5
<1>8. top >= Count
  <2>1. CASE Count = 0
    BY <2>1, <1>7
  <2>2. CASE Count # 0
    BY <2>2, <1>3, <1>5
  <2> QED
    BY <2>1, <2>2
<1>9. top = Count
  BY <1>1, <1>7, <1>8
<1> QED
  BY <1>1, <1>6, <1>9

\* An insert that no index refuses takes the next number, and the sequence
\* grows by one.
LEMMA InsertExtends ==
    ASSUME Numbered, NEW row, row.no \in 1..(Count + 1), row.no \notin Numbers,
           invoices' = invoices \cup {row}
    PROVE  Numbered' /\ Count' = Count + 1
<1>1. Count \in Nat
  BY CountIsNat
<1>2. row.no = Count + 1
  <2>1. row.no \notin 1..Count
    BY DEF Numbered
  <2> QED
    BY <1>1, <2>1
<1>3. row \notin Issued
  BY DEF Issued, Numbers
<1>4. Issued' = Issued \cup {row}
  BY <1>1, <1>2 DEF Issued
<1>5. IsFiniteSet(Issued') /\ Count' = Count + 1
  BY <1>3, <1>4, FS_AddElement DEF Numbered, Count
<1>6. \A i \in invoices' : i.no \in Nat
  BY <1>1, <1>2 DEF Numbered
<1>7. Numbers' \ {0} = 1..Count'
  <2>1. Numbers' = Numbers \cup {Count + 1}
    BY <1>2 DEF Numbers
  <2>2. 1..Count' = 1..Count \cup {Count + 1}
    BY <1>1, <1>5
  <2>3. Numbers' \ {0} = (Numbers \ {0}) \cup {Count + 1}
    BY <1>1, <2>1
  <2> QED
    BY <2>2, <2>3 DEF Numbered
<1> QED
  BY <1>5, <1>6, <1>7 DEF Numbered

\* A step that leaves the table alone and only moves requests keeps the numbers.
LEMMA SameTable ==
    ASSUME UNCHANGED invoices
    PROVE  Count' = Count /\ (Numbered => Numbered')
  BY DEF Count, Issued, Numbered, Numbers

\* A request keeps its state, leaves its insert, or reads the next number.
Moves(old, new) == \/ new = old
                   \/ new.at # "INSERT"
                   \/ new.no = Count + 1

\* A number that was within the bound stays there when the table grows.
LEMMA ReadsStay ==
    ASSUME Numbered, Reads,
           Count' = Count \/ Count' = Count + 1,
           \A k \in Clerks : Moves(create[k], create'[k]),
           \A g \in Closers : Moves(close[g], close'[g]),
           \A f \in Registrars : Moves(fee[f], fee'[f])
    PROVE  Reads'
<1>1. Count \in Nat
  BY CountIsNat
<1>2. ASSUME NEW old, NEW new, Pending(old), Moves(old, new)
      PROVE  new.at = "INSERT" => new.no \in 1..(Count' + 1)
  BY <1>1, <1>2 DEF Pending, Moves
<1>3. \A k \in Clerks : Pending(create[k])'
  BY <1>2 DEF Reads, Pending
<1>4. \A g \in Closers : Pending(close[g])'
  BY <1>2 DEF Reads, Pending
<1>5. \A f \in Registrars : Pending(fee[f])'
  BY <1>2 DEF Reads, Pending
<1> QED
  BY <1>3, <1>4, <1>5 DEF Reads

\* What a step of BillingService.create does.
LEMMA CreateStep ==
    ASSUME Inv, NEW k \in Clerks,
           \/ \E dto \in Bodies : StartCreate(k, dto)
           \/ ApplyDiscount(k) \/ RefuseDiscount(k)
           \/ ReadNumber(k) \/ InsertInvoice(k) \/ LoseInsert(k) \/ EndCreate(k)
    PROVE  Inv'
<1> USE DEF Inv
<1>1. CASE InsertInvoice(k)
  <2> DEFINE c == create[k]
             row == InvoiceRow(c.no, c.student, c.type, c.period, c.lines, c.discount)
  <2>1. row.no = c.no
    BY DEF InvoiceRow
  <2>2. c.no \in 1..(Count + 1) /\ c.no \notin Numbers
    BY <1>1 DEF InsertInvoice, Clash, Reads, Pending
  <2>3. invoices' = invoices \cup {row}
    BY <1>1 DEF InsertInvoice
  <2> HIDE DEF row
  <2>4. Numbered' /\ Count' = Count + 1
    BY <2>1, <2>2, <2>3, InsertExtends
  <2>5. Tables'
    BY <1>1 DEF InsertInvoice, Tables
  <2>6. /\ \A j \in Clerks : Moves(create[j], create'[j])
        /\ \A g \in Closers : Moves(close[g], close'[g])
        /\ \A f \in Registrars : Moves(fee[f], fee'[f])
    BY <1>1 DEF InsertInvoice, Tables, Moves, NoCreate
  <2> QED
    BY <2>4, <2>5, <2>6, ReadsStay
<1>2. CASE ~InsertInvoice(k)
  <2>1. UNCHANGED <<invoices, close, fee>> /\ Tables'
    BY <1>2 DEF StartCreate, ApplyDiscount, RefuseDiscount, ReadNumber, LoseInsert, EndCreate, Tables
  <2>2. NextNumber = Count + 1
    BY NextIsFree
  <2>3. \A j \in Clerks : Moves(create[j], create'[j])
    <3>1. CASE \E dto \in Bodies : StartCreate(k, dto)
      BY <3>1 DEF StartCreate, Tables, Moves
    <3>2. CASE ReadNumber(k)
      BY <2>2, <3>2 DEF ReadNumber, Attempt, Tables, Moves
    <3>3. CASE LoseInsert(k)
      BY <3>3 DEF LoseInsert, Attempt, Tables, Moves
    <3>4. CASE EndCreate(k)
      BY <3>4 DEF EndCreate, NoCreate, Tables, Moves
    <3>5. CASE ApplyDiscount(k)
      BY <3>5 DEF ApplyDiscount, Tables, Moves
    <3>6. CASE RefuseDiscount(k)
      BY <3>6 DEF RefuseDiscount, NoCreate, Tables, Moves
    <3> QED
      BY <1>2, <3>1, <3>2, <3>3, <3>4, <3>5, <3>6
  <2>4. /\ \A g \in Closers : Moves(close[g], close'[g])
        /\ \A f \in Registrars : Moves(fee[f], fee'[f])
    BY <2>1 DEF Moves
  <2> QED
    BY <2>1, <2>3, <2>4, SameTable, ReadsStay
<1> QED
  BY <1>1, <1>2

\* What a step of BillingService.generateMonthly does.
LEMMA CloseStep ==
    ASSUME Inv, NEW g \in Closers,
           \/ \E p \in Periods, wanted \in SUBSET Classes \ {{}} : ReadRates(g, p, wanted)
           \/ ReadEnrollments(g) \/ InsertTuition(g) \/ SkipExisting(g)
           \/ BreakOff(g) \/ Report(g) \/ EndClose(g)
           \/ \E s \in Students : NextStudent(g, s)
    PROVE  Inv'
<1> USE DEF Inv
<1>1. CASE InsertTuition(g)
  <2> DEFINE b == close[g]
             row == InvoiceRow(b.no, b.student, "TUITION", b.period, b.lines[b.student], 0)
  <2>1. row.no = b.no
    BY DEF InvoiceRow
  <2>2. b.no \in 1..(Count + 1) /\ b.no \notin Numbers
    BY <1>1 DEF InsertTuition, Clash, Reads, Pending
  <2>3. invoices' = invoices \cup {row}
    BY <1>1 DEF InsertTuition
  <2> HIDE DEF row
  <2>4. Numbered' /\ Count' = Count + 1
    BY <2>1, <2>2, <2>3, InsertExtends
  <2>5. Tables'
    BY <1>1 DEF InsertTuition, Tables
  <2>6. /\ \A k \in Clerks : Moves(create[k], create'[k])
        /\ \A h \in Closers : Moves(close[h], close'[h])
        /\ \A f \in Registrars : Moves(fee[f], fee'[f])
    BY <1>1 DEF InsertTuition, Turn, Tables, Moves
  <2> QED
    BY <2>4, <2>5, <2>6, ReadsStay
<1>2. CASE ~InsertTuition(g)
  <2>1. UNCHANGED <<invoices, create, fee>> /\ Tables'
    BY <1>2 DEF ReadRates, ReadEnrollments, SkipExisting, BreakOff, Report, EndClose,
                NextStudent, Tables
  <2>2. NextNumber = Count + 1
    BY NextIsFree
  <2>3. \A h \in Closers : Moves(close[h], close'[h])
    <3>1. CASE \E p \in Periods, wanted \in SUBSET Classes \ {{}} : ReadRates(g, p, wanted)
      BY <3>1 DEF ReadRates, Tables, Moves
    <3>2. CASE ReadEnrollments(g)
      BY <3>2 DEF ReadEnrollments, Tables, Moves
    <3>3. CASE SkipExisting(g) \/ Report(g)
      BY <3>3 DEF SkipExisting, Report, Turn, Tables, Moves
    <3>4. CASE BreakOff(g) \/ EndClose(g)
      BY <3>4 DEF BreakOff, EndClose, NoClose, Tables, Moves
    <3>5. CASE \E s \in Students : NextStudent(g, s)
      BY <2>2, <3>5 DEF NextStudent, Turn, Tables, Moves
    <3> QED
      BY <1>2, <3>1, <3>2, <3>3, <3>4, <3>5
  <2>4. /\ \A k \in Clerks : Moves(create[k], create'[k])
        /\ \A f \in Registrars : Moves(fee[f], fee'[f])
    BY <2>1 DEF Moves
  <2> QED
    BY <2>1, <2>3, <2>4, SameTable, ReadsStay
<1> QED
  BY <1>1, <1>2

\* What a step of createExamFeeInvoice does.
LEMMA FeeStep ==
    ASSUME Inv, NEW f \in Registrars,
           (\E s \in Students : StartFee(f, s)) \/ InsertFee(f) \/ LoseFee(f)
    PROVE  Inv'
<1> USE DEF Inv
<1>1. CASE InsertFee(f)
  <2> DEFINE row == InvoiceRow(fee[f].no, fee[f].student, "EXAM_FEE", 0, [i \in {1} |-> Fee], 0)
  <2>1. row.no = fee[f].no
    BY DEF InvoiceRow
  <2>2. fee[f].no \in 1..(Count + 1) /\ fee[f].no \notin Numbers
    BY <1>1 DEF InsertFee, Clash, Reads, Pending
  <2>3. invoices' = invoices \cup {row}
    BY <1>1 DEF InsertFee
  <2> HIDE DEF row
  <2>4. Numbered' /\ Count' = Count + 1
    BY <2>1, <2>2, <2>3, InsertExtends
  <2>5. Tables'
    BY <1>1 DEF InsertFee, Tables
  <2>6. /\ \A k \in Clerks : Moves(create[k], create'[k])
        /\ \A g \in Closers : Moves(close[g], close'[g])
        /\ \A h \in Registrars : Moves(fee[h], fee'[h])
    BY <1>1 DEF InsertFee, NoFee, Tables, Moves
  <2> QED
    BY <2>4, <2>5, <2>6, ReadsStay
<1>2. CASE ~InsertFee(f)
  <2>1. UNCHANGED <<invoices, create, close>> /\ Tables'
    BY <1>2 DEF StartFee, LoseFee, Tables
  <2>2. NextNumber = Count + 1
    BY NextIsFree
  <2>3. \A h \in Registrars : Moves(fee[h], fee'[h])
    BY <1>2, <2>2 DEF StartFee, LoseFee, NoFee, Tables, Moves
  <2>4. /\ \A k \in Clerks : Moves(create[k], create'[k])
        /\ \A g \in Closers : Moves(close[g], close'[g])
    BY <2>1 DEF Moves
  <2> QED
    BY <2>1, <2>3, <2>4, SameTable, ReadsStay
<1> QED
  BY <1>1, <1>2

\* Settings, codes, profiles, enrolments and the calendar have no part in it.
LEMMA IdleStep ==
    ASSUME Inv, UNCHANGED <<invoices, create, close, fee>>
    PROVE  Inv'
<1>1. Tables'
  BY DEF Inv, Tables
<1>2. /\ \A k \in Clerks : Moves(create[k], create'[k])
      /\ \A g \in Closers : Moves(close[g], close'[g])
      /\ \A f \in Registrars : Moves(fee[f], fee'[f])
  BY DEF Moves
<1> QED
  BY <1>1, <1>2, SameTable, ReadsStay DEF Inv

\* Every step of an issuer or of an administrator keeps the invariant.
LEMMA InvStep == Inv /\ [TuitionNext]_tuitionVars => Inv'
<1> SUFFICES ASSUME Inv, [TuitionNext]_tuitionVars PROVE Inv'
  OBVIOUS
<1>1. CASE UNCHANGED tuitionVars
  BY <1>1, IdleStep DEF tuitionVars
<1>2. CASE AdminNext
  <2>1. UNCHANGED <<invoices, create, close, fee>>
    BY <1>2 DEF AdminNext, UpdateTuitionRates, CreateDiscountCode, UpdateDiscountCode,
                DeleteDiscountCode, ChangeProfile, ChangeEnrollment, Midnight
  <2> QED
    BY <2>1, IdleStep
<1>3. CASE IssueNext
  BY <1>3, CreateStep, CloseStep, FeeStep DEF IssueNext
<1> QED
  BY <1>1, <1>2, <1>3 DEF TuitionNext

\* The table starts with rows that have no number of the sequence.
LEMMA InvInit == TuitionInit => Inv
<1> SUFFICES ASSUME TuitionInit PROVE Inv
  OBVIOUS
<1>1. \A i \in invoices : i.no = 0
  BY DEF TuitionInit, Legacy
<1>2. Issued = {}
  BY <1>1 DEF Issued
<1>3. IsFiniteSet(Issued) /\ Count = 0
  BY <1>2, FS_EmptySet DEF Count
<1>4. Numbers \ {0} = 1..Count
  <2>1. Numbers \ {0} = {}
    BY <1>1 DEF Numbers
  <2>2. 1..Count = {}
    BY <1>3
  <2> QED
    BY <2>1, <2>2
<1>5. Numbered
  BY <1>1, <1>3, <1>4 DEF Numbered
<1>6. Tables /\ Reads
  BY DEF TuitionInit, Tables, Reads, Pending, NoCreate, NoClose, NoFee
<1> QED
  BY <1>5, <1>6 DEF Inv

\* The numbers of issued invoices are 1, 2, 3, ... without a gap, however many
\* issuers read and insert at the same time.
THEOREM NumbersHaveNoGap == TuitionSpec => []NumbersGapless
<1>1. Inv => NumbersGapless
  BY DEF Inv, Numbered, NumbersGapless, Count, Issued
<1> QED
  BY <1>1, InvInit, InvStep, PTL DEF TuitionSpec

-----------------------------------------------------------------------------
(* What a close leaves out.                                                *)

\* Student s has the tuition invoice of period p in table t; number n is used
\* in t.
InTable(t, s, p) == \E i \in t : i.type = "TUITION" /\ i.student = s /\ i.period = p
Used(t, n) == \E i \in t : i.no = n

\* The students close b skipped although they have no invoice, and how many
\* invoices the other issuers have added to t since b began.
Missed(t, b) == {s \in b.skipped : ~InTable(t, s, b.period)}
Others(t, b) == Cardinality(t) - b.before - Cardinality(b.created)

\* A close has handled a part of the students due; each of those it left out
\* cost another issuer an insert, and one more if the number it holds is used.
Batch(t, b) ==
    /\ b.at = "RATED" => b.before \in 0..Cardinality(t) /\ b.period \in Periods
    /\ b.at \in {"LOOP", "INSERT", "DONE"} =>
          /\ b.before \in Nat
          /\ b.period \in Periods
          /\ b.due \subseteq Students
          /\ b.due = b.created \cup b.skipped \cup b.todo
                       \cup (IF b.at = "INSERT" THEN {b.student} ELSE {})
          /\ b.todo \cap b.created = {}
          /\ b.at = "INSERT" => b.student \notin b.created \cup b.todo
          /\ b.at = "DONE" => b.todo = {}
          /\ \A s \in b.created : InTable(t, s, b.period)
          /\ Cardinality(Missed(t, b)) <= Others(t, b)
          /\ b.at = "INSERT" /\ Used(t, b.no) => Cardinality(Missed(t, b)) < Others(t, b)

CloseInv == IsFiniteSet(invoices) /\ \A g \in Closers : Batch(invoices, close[g])

\* The sets a close keeps can be counted.
LEMMA BatchFinite ==
    ASSUME NEW t, NEW b, Batch(t, b), b.at \in {"LOOP", "INSERT", "DONE"}
    PROVE  /\ IsFiniteSet(b.created) /\ Cardinality(b.created) \in Nat
           /\ IsFiniteSet(b.skipped)
           /\ \A S : S \subseteq b.skipped => IsFiniteSet(S) /\ Cardinality(S) \in Nat
<1>1. b.created \subseteq Students /\ b.skipped \subseteq Students
  BY DEF Batch
<1>2. IsFiniteSet(b.created) /\ IsFiniteSet(b.skipped)
  BY <1>1, FS_Subset, TuitionAssumption
<1>3. ASSUME NEW S, S \subseteq b.skipped
      PROVE  IsFiniteSet(S) /\ Cardinality(S) \in Nat
  BY <1>2, <1>3, FS_Subset, FS_CardinalityType
<1> QED
  BY <1>2, <1>3, FS_CardinalityType

\* A new row makes the table one larger and takes nobody's invoice away.
LEMMA Grown ==
    ASSUME NEW t, IsFiniteSet(t), NEW row, ~Used(t, row.no)
    PROVE  /\ IsFiniteSet(t \cup {row})
           /\ Cardinality(t) \in Nat /\ Cardinality(t \cup {row}) = Cardinality(t) + 1
           /\ \A s, p : InTable(t, s, p) => InTable(t \cup {row}, s, p)
<1>1. row \notin t
  BY DEF Used
<1>2. \A s, p : InTable(t, s, p) => InTable(t \cup {row}, s, p)
  BY DEF InTable
<1> QED
  BY <1>1, <1>2, FS_AddElement, FS_CardinalityType

\* Another issuer inserts: whatever it does to the number this close holds, it
\* pays for it.
LEMMA OtherInserts ==
    ASSUME NEW t, IsFiniteSet(t), NEW row, ~Used(t, row.no), NEW b, Batch(t, b)
    PROVE  Batch(t \cup {row}, b)
<1> DEFINE u == t \cup {row}
<1>1. /\ Cardinality(t) \in Nat /\ Cardinality(u) = Cardinality(t) + 1
      /\ \A s, p : InTable(t, s, p) => InTable(u, s, p)
  BY Grown
<1> HIDE DEF u
<1>2. ASSUME b.at = "RATED"
      PROVE  Batch(u, b)
  BY <1>1, <1>2 DEF Batch
<1>3. ASSUME b.at \in {"LOOP", "INSERT", "DONE"}
      PROVE  Batch(u, b)
  <2>1. Missed(u, b) \subseteq Missed(t, b) /\ Missed(t, b) \subseteq b.skipped
    BY <1>1 DEF Missed
  <2>2. IsFiniteSet(Missed(t, b)) /\ Cardinality(Missed(t, b)) \in Nat
    BY <1>3, <2>1, BatchFinite
  <2>3. Cardinality(Missed(u, b)) \in Nat /\ Cardinality(b.created) \in Nat
    BY <1>3, <2>1, BatchFinite
  <2>4. Cardinality(Missed(u, b)) <= Cardinality(Missed(t, b))
    BY <2>1, <2>2, FS_Subset
  <2>5. b.before \in Nat /\ Cardinality(Missed(t, b)) <= Others(t, b)
    BY <1>3 DEF Batch
  <2>6. Cardinality(Missed(u, b)) < Others(u, b) /\ Cardinality(Missed(u, b)) <= Others(u, b)
    BY <1>1, <2>2, <2>3, <2>4, <2>5 DEF Others
  <2>7. \A s \in b.created : InTable(u, s, b.period)
    BY <1>1, <1>3 DEF Batch
  <2> QED
    BY <1>3, <2>6, <2>7 DEF Batch
<1> QED
  BY <1>2, <1>3 DEF Batch, u

\* The state of a close after its own step.
Stage(b, at, todo, created, skipped, s, no) ==
    [at |-> at, period |-> b.period, lines |-> b.lines, due |-> b.due, todo |-> todo,
     created |-> created, skipped |-> skipped, student |-> s, no |-> no, before |-> b.before]

\* The close itself inserts.
LEMMA OwnInsert ==
    ASSUME NEW t, IsFiniteSet(t), NEW row, ~Used(t, row.no),
           NEW b, Batch(t, b), b.at = "INSERT",
           row.type = "TUITION", row.student = b.student, row.period = b.period
    PROVE  Batch(t \cup {row}, Stage(b, "LOOP", b.todo, b.created \cup {b.student}, b.skipped, None, 0))
<1> DEFINE u == t \cup {row}
           c == Stage(b, "LOOP", b.todo, b.created \cup {b.student}, b.skipped, None, 0)
<1>1. /\ Cardinality(t) \in Nat /\ Cardinality(u) = Cardinality(t) + 1
      /\ \A s, p : InTable(t, s, p) => InTable(u, s, p)
  BY Grown
<1>2. InTable(u, b.student, b.period)
  BY DEF InTable
<1>3. /\ c.at = "LOOP" /\ c.period = b.period /\ c.due = b.due /\ c.todo = b.todo
      /\ c.created = b.created \cup {b.student} /\ c.skipped = b.skipped
      /\ c.before = b.before
  BY DEF Stage
<1> HIDE DEF u, c
<1>4. Missed(u, c) \subseteq Missed(t, b) /\ Missed(t, b) \subseteq b.skipped
  BY <1>1, <1>3 DEF Missed
<1>5. IsFiniteSet(Missed(t, b)) /\ Cardinality(Missed(t, b)) \in Nat
  BY <1>4, BatchFinite
<1>6. Cardinality(Missed(u, c)) \in Nat
  BY <1>4, BatchFinite
<1>7. Cardinality(Missed(u, c)) <= Cardinality(Missed(t, b))
  BY <1>4, <1>5, FS_Subset
<1>8. Cardinality(b.created) \in Nat /\ Cardinality(c.created) = Cardinality(b.created) + 1
  <2>1. b.student \notin b.created
    BY DEF Batch
  <2>2. IsFiniteSet(b.created) /\ Cardinality(b.created) \in Nat
    BY BatchFinite
  <2> QED
    BY <1>3, <2>1, <2>2, FS_AddElement
<1>9. b.before \in Nat /\ Cardinality(Missed(t, b)) <= Others(t, b)
  BY DEF Batch
<1>10. Cardinality(Missed(u, c)) <= Others(u, c)
  BY <1>1, <1>3, <1>5, <1>6, <1>7, <1>8, <1>9 DEF Others
<1>11. \A s \in c.created : InTable(u, s, c.period)
  BY <1>1, <1>2, <1>3 DEF Batch
<1>12. /\ c.before \in Nat /\ c.period \in Periods /\ c.due \subseteq Students
       /\ c.due = c.created \cup c.skipped \cup c.todo
       /\ c.todo \cap c.created = {}
  BY <1>3 DEF Batch
<1>13. Batch(u, c)
  BY <1>3, <1>10, <1>11, <1>12 DEF Batch
<1> QED
  BY <1>13 DEF u, c

\* The close skips a student: one who has an invoice, or whose number another
\* issuer has used.
LEMMA OwnSkip ==
    ASSUME NEW t, IsFiniteSet(t), NEW b, Batch(t, b), b.at = "INSERT",
           Used(t, b.no) \/ InTable(t, b.student, b.period)
    PROVE  Batch(t, Stage(b, "LOOP", b.todo, b.created, b.skipped \cup {b.student}, None, 0))
<1> DEFINE c == Stage(b, "LOOP", b.todo, b.created, b.skipped \cup {b.student}, None, 0)
<1>1. /\ c.at = "LOOP" /\ c.period = b.period /\ c.due = b.due /\ c.todo = b.todo
      /\ c.created = b.created /\ c.skipped = b.skipped \cup {b.student}
      /\ c.before = b.before
  BY DEF Stage
<1> HIDE DEF c
<1>2. Cardinality(t) \in Nat /\ b.before \in Nat /\ Cardinality(b.created) \in Nat
  BY BatchFinite, FS_CardinalityType DEF Batch
<1>3. Missed(t, b) \subseteq b.skipped
  BY DEF Missed
<1>4. IsFiniteSet(Missed(t, b)) /\ Cardinality(Missed(t, b)) \in Nat
  BY <1>3, BatchFinite
<1>5. Cardinality(Missed(t, c)) <= Others(t, c)
  <2>1. Others(t, c) = Others(t, b)
    BY <1>1 DEF Others
  <2>2. CASE InTable(t, b.student, b.period)
    <3>1. Missed(t, c) = Missed(t, b)
      BY <1>1, <2>2 DEF Missed
    <3> QED
      BY <2>1, <3>1 DEF Batch
  <2>3. CASE ~InTable(t, b.student, b.period)
    <3>1. Missed(t, c) = Missed(t, b) \cup {b.student}
      BY <1>1, <2>3 DEF Missed
    <3>2. Cardinality(Missed(t, b)) < Others(t, b)
      BY <2>3 DEF Batch
    <3>3. Cardinality(Missed(t, c)) <= Cardinality(Missed(t, b)) + 1
      <4>1. CASE b.student \in Missed(t, b)
        <5>1. Missed(t, c) = Missed(t, b)
          BY <3>1, <4>1
        <5> QED
          BY <1>4, <5>1
      <4>2. CASE b.student \notin Missed(t, b)
        <5>1. Cardinality(Missed(t, c)) = Cardinality(Missed(t, b)) + 1
          BY <1>4, <3>1, <4>2, FS_AddElement
        <5> QED
          BY <1>4, <5>1
      <4> QED
        BY <4>1, <4>2
    <3>4. Cardinality(Missed(t, c)) \in Nat
      BY <1>4, <3>1, FS_AddElement, FS_CardinalityType
    <3> QED
      BY <1>2, <1>4, <2>1, <3>2, <3>3, <3>4 DEF Others
  <2> QED
    BY <2>2, <2>3
<1>6. /\ c.before \in Nat /\ c.period \in Periods /\ c.due \subseteq Students
      /\ c.due = c.created \cup c.skipped \cup c.todo
      /\ c.todo \cap c.created = {}
      /\ \A s \in c.created : InTable(t, s, c.period)
  BY <1>1 DEF Batch
<1>7. Batch(t, c)
  BY <1>1, <1>5, <1>6 DEF Batch
<1> QED
  BY <1>7 DEF c

\* A step of the close that touches no table: the first student, the next one,
\* the answer.
LEMMA OwnTurn ==
    ASSUME NEW t, NEW b, NEW c, Batch(t, b), b.at = "LOOP",
           \/ \E s \in b.todo : \E n :
                 ~Used(t, n) /\ c = Stage(b, "INSERT", b.todo \ {s}, b.created, b.skipped, s, n)
           \/ b.todo = {} /\ c = Stage(b, "DONE", {}, b.created, b.skipped, None, 0)
    PROVE  Batch(t, c)
<1>1. /\ c.period = b.period /\ c.due = b.due /\ c.before = b.before
      /\ c.created = b.created /\ c.skipped = b.skipped
  BY DEF Stage
<1>2. Missed(t, c) = Missed(t, b) /\ Others(t, c) = Others(t, b)
  BY <1>1 DEF Missed, Others
<1>3. ASSUME NEW s \in b.todo, NEW n, ~Used(t, n),
             c = Stage(b, "INSERT", b.todo \ {s}, b.created, b.skipped, s, n)
      PROVE  Batch(t, c)
  <2>1. c.at = "INSERT" /\ c.todo = b.todo \ {s} /\ c.student = s /\ c.no = n
    BY <1>3 DEF Stage
  <2>2. c.due = c.created \cup c.skipped \cup c.todo \cup {c.student}
    BY <1>1, <2>1 DEF Batch
  <2> QED
    BY <1>1, <1>2, <1>3, <2>1, <2>2 DEF Batch
<1>4. ASSUME b.todo = {}, c = Stage(b, "DONE", {}, b.created, b.skipped, None, 0)
      PROVE  Batch(t, c)
  <2>1. c.at = "DONE" /\ c.todo = {}
    BY <1>4 DEF Stage
  <2> QED
    BY <1>1, <1>2, <1>4, <2>1 DEF Batch
<1> QED
  BY <1>3, <1>4

\* A close that has just read the enrolments has left out nobody.
LEMMA FirstTurn ==
    ASSUME NEW t, IsFiniteSet(t), NEW b, NEW c, Batch(t, b), b.at = "RATED",
           c.at = "LOOP", c.period = b.period, c.before = b.before, c.due \subseteq Students,
           c.todo = c.due, c.created = {}, c.skipped = {}
    PROVE  Batch(t, c)
<1>1. Missed(t, c) = {}
  BY DEF Missed
<1>2. Cardinality({}) = 0 /\ Cardinality(t) \in Nat
  BY FS_EmptySet, FS_CardinalityType
<1>3. b.before \in 0..Cardinality(t) /\ b.period \in Periods
  BY DEF Batch
<1>4. Cardinality(Missed(t, c)) <= Others(t, c)
  BY <1>1, <1>2, <1>3 DEF Others
<1> QED
  BY <1>2, <1>3, <1>4 DEF Batch

\* An insert by anybody but close g keeps every other close.
LEMMA InsertKeepsOthers ==
    ASSUME CloseInv, NEW row, row.no \notin Numbers, invoices' = invoices \cup {row}
    PROVE  /\ IsFiniteSet(invoices')
           /\ \A g \in Closers : close'[g] = close[g] => Batch(invoices', close'[g])
<1>1. ~Used(invoices, row.no) /\ IsFiniteSet(invoices)
  BY DEF Used, Numbers, CloseInv
<1> QED
  BY <1>1, Grown, OtherInserts DEF CloseInv

\* Every step keeps what the closes know.
LEMMA CloseInvStep == Inv /\ CloseInv /\ [TuitionNext]_tuitionVars => CloseInv'
<1> SUFFICES ASSUME Inv, CloseInv, [TuitionNext]_tuitionVars
             PROVE  CloseInv'
  OBVIOUS
<1>1. ASSUME NEW k \in Clerks, InsertInvoice(k)
      PROVE  CloseInv'
  <2> DEFINE c == create[k]
             row == InvoiceRow(c.no, c.student, c.type, c.period, c.lines, c.discount)
  <2>1. row.no \notin Numbers /\ invoices' = invoices \cup {row} /\ close' = close
    BY <1>1 DEF InsertInvoice, Clash, InvoiceRow
  <2> QED
    BY <2>1, InsertKeepsOthers DEF CloseInv
<1>2. ASSUME NEW f \in Registrars, InsertFee(f)
      PROVE  CloseInv'
  <2> DEFINE row == InvoiceRow(fee[f].no, fee[f].student, "EXAM_FEE", 0, [i \in {1} |-> Fee], 0)
  <2>1. row.no \notin Numbers /\ invoices' = invoices \cup {row} /\ close' = close
    BY <1>2 DEF InsertFee, Clash, InvoiceRow
  <2> QED
    BY <2>1, InsertKeepsOthers DEF CloseInv
<1>3. ASSUME NEW g \in Closers, InsertTuition(g)
      PROVE  CloseInv'
  <2> DEFINE b == close[g]
             row == InvoiceRow(b.no, b.student, "TUITION", b.period, b.lines[b.student], 0)
             c == Stage(b, "LOOP", b.todo, b.created \cup {b.student}, b.skipped, None, 0)
  <2>1. /\ row.no \notin Numbers /\ invoices' = invoices \cup {row} /\ b.at = "INSERT"
        /\ row.type = "TUITION" /\ row.student = b.student /\ row.period = b.period
    BY <1>3 DEF InsertTuition, Clash, InvoiceRow
  <2>2. close' = [close EXCEPT ![g] = c]
    BY <1>3 DEF InsertTuition, Turn, Stage
  <2> HIDE DEF row, c
  <2>3. close'[g] = c /\ \A h \in Closers \ {g} : close'[h] = close[h]
    BY <2>2 DEF Inv, Tables
  <2>4. ~Used(invoices, row.no) /\ IsFiniteSet(invoices) /\ Batch(invoices, b)
    BY <2>1 DEF Used, Numbers, CloseInv
  <2>5. Batch(invoices', c)
    BY <2>1, <2>4, OwnInsert DEF c
  <2> QED
    BY <2>1, <2>3, <2>5, InsertKeepsOthers DEF CloseInv
<1>4. ASSUME invoices' = invoices, NEW g \in Closers, Batch(invoices, close'[g]),
             \A h \in Closers \ {g} : close'[h] = close[h]
      PROVE  CloseInv'
  BY <1>4 DEF CloseInv
<1>5. ASSUME NEW g \in Closers, SkipExisting(g)
      PROVE  CloseInv'
  <2> DEFINE b == close[g]
             c == Stage(b, "LOOP", b.todo, b.created, b.skipped \cup {b.student}, None, 0)
  <2>1. /\ b.at = "INSERT" /\ invoices' = invoices
        /\ Used(invoices, b.no) \/ InTable(invoices, b.student, b.period)
    BY <1>5 DEF SkipExisting, Clash, Billed, Numbers, Used, InTable
  <2>2. close' = [close EXCEPT ![g] = c]
    BY <1>5 DEF SkipExisting, Turn, Stage
  <2>3. Batch(invoices, c)
    BY <2>1, OwnSkip DEF CloseInv
  <2> HIDE DEF c
  <2> QED
    BY <1>4, <2>1, <2>2, <2>3 DEF Inv, Tables
<1>6. ASSUME NEW g \in Closers, (\E s \in Students : NextStudent(g, s)) \/ Report(g)
      PROVE  CloseInv'
  <2> DEFINE b == close[g]
  <2>1. ~Used(invoices, NextNumber)
    <3>1. NextNumber = Count + 1 /\ Count \in Nat /\ Numbers \ {0} = 1..Count
      BY NextIsFree, CountIsNat DEF Inv, Numbered
    <3>2. NextNumber \notin Numbers
      BY <3>1
    <3> QED
      BY <3>2 DEF Used, Numbers
  <2>2. invoices' = invoices /\ b.at = "LOOP" /\ close' = [close EXCEPT ![g] = close'[g]]
    BY <1>6 DEF NextStudent, Report, Inv, Tables
  <2>3. CASE \E s \in Students : NextStudent(g, s)
    <3>1. PICK s \in b.todo :
             close'[g] = Stage(b, "INSERT", b.todo \ {s}, b.created, b.skipped, s, NextNumber)
      BY <2>3 DEF NextStudent, Turn, Stage, Inv, Tables
    <3>2. Batch(invoices, close'[g])
      BY <2>1, <2>2, <3>1, OwnTurn DEF CloseInv
    <3> QED
      BY <1>4, <2>2, <3>2 DEF Inv, Tables
  <2>4. CASE Report(g)
    <3>1. b.todo = {} /\ close'[g] = Stage(b, "DONE", {}, b.created, b.skipped, None, 0)
      BY <2>4 DEF Report, Turn, Stage, Inv, Tables
    <3>2. Batch(invoices, close'[g])
      BY <2>2, <3>1, OwnTurn DEF CloseInv
    <3> QED
      BY <1>4, <2>2, <3>2 DEF Inv, Tables
  <2> QED
    BY <1>6, <2>3, <2>4
<1>7. ASSUME NEW g \in Closers, NEW p \in Periods, NEW wanted, ReadRates(g, p, wanted)
      PROVE  CloseInv'
  <2>1. invoices' = invoices /\ \A h \in Closers \ {g} : close'[h] = close[h]
    BY <1>7 DEF ReadRates, Inv, Tables
  <2>2. /\ close'[g].at = "RATED" /\ close'[g].period = p
        /\ close'[g].before = Cardinality(invoices)
    BY <1>7 DEF ReadRates, Inv, Tables
  <2>3. Cardinality(invoices) \in Nat
    BY FS_CardinalityType DEF CloseInv
  <2>4. Batch(invoices, close'[g])
    BY <2>2, <2>3 DEF Batch
  <2> QED
    BY <1>4, <2>1, <2>4
<1>8. ASSUME NEW g \in Closers, ReadEnrollments(g)
      PROVE  CloseInv'
  <2>1. invoices' = invoices /\ \A h \in Closers \ {g} : close'[h] = close[h]
    BY <1>8 DEF ReadEnrollments, Inv, Tables
  <2>2. /\ close[g].at = "RATED"
        /\ close'[g].at = "LOOP" /\ close'[g].period = close[g].period
        /\ close'[g].before = close[g].before /\ close'[g].due \subseteq Students
        /\ close'[g].todo = close'[g].due /\ close'[g].created = {} /\ close'[g].skipped = {}
    BY <1>8 DEF ReadEnrollments, Inv, Tables
  <2>3. Batch(invoices, close'[g])
    BY <2>2, FirstTurn DEF CloseInv
  <2> QED
    BY <1>4, <2>1, <2>3
<1>9. ASSUME NEW g \in Closers, BreakOff(g) \/ EndClose(g)
      PROVE  CloseInv'
  <2>1. /\ invoices' = invoices /\ close'[g] = NoClose
        /\ \A h \in Closers \ {g} : close'[h] = close[h]
    BY <1>9 DEF BreakOff, EndClose, Inv, Tables
  <2>2. Batch(invoices, close'[g])
    BY <2>1 DEF Batch, NoClose
  <2> QED
    BY <1>4, <2>1, <2>2
<1>10. ASSUME UNCHANGED <<invoices, close>>
       PROVE  CloseInv'
  BY <1>10 DEF CloseInv
<1>11. CASE AdminNext \/ UNCHANGED tuitionVars
  BY <1>10, <1>11
  DEF tuitionVars, AdminNext, UpdateTuitionRates, CreateDiscountCode, UpdateDiscountCode,
      DeleteDiscountCode, ChangeProfile, ChangeEnrollment, Midnight
<1>12. CASE IssueNext
  BY <1>1, <1>2, <1>3, <1>5, <1>6, <1>7, <1>8, <1>9, <1>10, <1>12
  DEF IssueNext, StartCreate, ApplyDiscount, RefuseDiscount, ReadNumber, LoseInsert,
      EndCreate, StartFee, LoseFee
<1> QED
  BY <1>11, <1>12 DEF TuitionNext

\* A close reports on everyone it found due, and the students it left without
\* an invoice are at most as many as the invoices others issued while it ran:
\* for any number of closes, clerks and registrations.
THEOREM ClosesLoseOnlyRaces == TuitionSpec => []CloseLosesOnlyRaces
<1>1. TuitionInit => CloseInv
  <2> SUFFICES ASSUME TuitionInit
               PROVE  CloseInv
    OBVIOUS
  <2>1. IsFiniteSet(WithAccount)
    BY FS_Subset, TuitionAssumption
  <2>2. IsFiniteSet({Legacy(s) : s \in WithAccount})
    <3> DEFINE Rows == {Legacy(s) : s \in WithAccount}
               f == [s \in WithAccount |-> Legacy(s)]
    <3>1. f \in Surjection(WithAccount, Rows)
      BY DEF Surjection
    <3> HIDE DEF f, Rows
    <3>2. IsFiniteSet(Rows)
      BY <2>1, <3>1, FS_Surjection
    <3> QED
      BY <3>2 DEF Rows
  <2>3. \A g \in Closers : Batch(invoices, close[g])
    BY DEF TuitionInit, Batch, NoClose
  <2> QED
    BY <2>2, <2>3 DEF TuitionInit, CloseInv
<1>2. CloseInv => CloseLosesOnlyRaces
  <2> SUFFICES ASSUME CloseInv, NEW g \in Closers, close[g].at = "DONE"
               PROVE  /\ close[g].due = close[g].created \cup close[g].skipped
                      /\ Cardinality({s \in close[g].due : ~Billed(s, close[g].period)})
                           <= Cardinality(invoices) - close[g].before
                                - Cardinality(close[g].created)
    BY DEF CloseLosesOnlyRaces
  <2> DEFINE b == close[g]
  <2>1. Batch(invoices, b)
    BY DEF CloseInv
  <2>2. b.due = b.created \cup b.skipped /\ \A s \in b.created : InTable(invoices, s, b.period)
    BY <2>1 DEF Batch
  <2>3. {s \in b.due : ~Billed(s, b.period)} = Missed(invoices, b)
    BY <2>2 DEF Missed, Billed, InTable
  <2>4. Cardinality(Missed(invoices, b)) <= Others(invoices, b)
    BY <2>1 DEF Batch
  <2> QED
    BY <2>2, <2>3, <2>4 DEF Others
<1> QED
  BY <1>1, <1>2, InvInit, InvStep, CloseInvStep, PTL DEF TuitionSpec

-----------------------------------------------------------------------------
(* The money of an invoice.                                                *)

\* Lines whose amounts add up, and a discount within them.
Charge(lines, discount) ==
    /\ Subtotal(lines) \in 0..MaxMoney
    /\ discount \in 0..Subtotal(lines)

\* What a row says of its money.
AddsUp(i) ==
    /\ i.subtotal = Subtotal(i.lines)
    /\ i.total = i.subtotal - i.discount
    /\ i.discount \in 0..i.subtotal
    /\ i.total \in 0..MaxMoney

\* The settings hold whole amounts, and a code that exists grants a reduction.
Priced ==
    /\ rates \in [Classes -> Nat]
    /\ code = [d \in Codes |-> code[d]]
    /\ \A d \in Codes : code[d].state # "ABSENT" => code[d].off \in CreateDiscountCodeDto

\* A create request has a subtotal and a discount of its own when it looks for its
\* code, and carries a charge from there to its insert.
Priceable(c) ==
    /\ c.at = "CODE" => /\ Subtotal(c.lines) \in 0..MaxMoney
                        /\ c.discount \in Nat
                        /\ c.discountCode \in Codes \cup {None}
    /\ c.at \in {"NUMBER", "INSERT"} => Charge(c.lines, c.discount)

Charged == \A k \in Clerks : Priceable(create[k])

\* A close carries the rates it read, then the lines of every student.
Tariff(b) ==
    /\ b.at = "RATED" => DOMAIN b.rate \subseteq Classes /\ \A c \in DOMAIN b.rate : b.rate[c] \in Nat
    /\ b.at \in {"LOOP", "INSERT"} => \A s \in Students : Subtotal(b.lines[s]) \in Nat
    /\ b.at = "INSERT" => b.student \in Students

MoneyInv ==
    /\ Priced
    /\ Charged
    /\ \A g \in Closers : Tariff(close[g])
    /\ \A i \in invoices : AddsUp(i)

\* The lines of an invoice add up to a whole amount, and one line to itself.
LEMMA SubtotalType ==
    ASSUME NEW D, IsFiniteSet(D), NEW lines \in [D -> Nat]
    PROVE  Subtotal(lines) \in Nat
BY SumType DEF Subtotal, Total

LEMMA SubtotalOfOne ==
    ASSUME NEW n \in Nat
    PROVE  Subtotal([i \in {1} |-> n]) = n
<1> DEFINE f == [i \in {1} |-> n]
<1>1. DOMAIN f = {1} /\ f[1] = n
  OBVIOUS
<1> HIDE DEF f
<1>2. Total(f) = n
  BY <1>1, SumOfOne
<1> QED BY <1>2 DEF Subtotal, Total, f

\* A row made from a charge adds up.
LEMMA RowAddsUp ==
    ASSUME NEW no, NEW s, NEW type, NEW p, NEW lines, NEW discount, Charge(lines, discount)
    PROVE  AddsUp(InvoiceRow(no, s, type, p, lines, discount))
<1> DEFINE i == InvoiceRow(no, s, type, p, lines, discount)
<1>1. /\ i.subtotal = Subtotal(lines) /\ i.lines = lines /\ i.discount = discount
      /\ i.total = Subtotal(lines) - discount
  BY DEF InvoiceRow
<1> HIDE DEF i
<1>2. MaxMoney \in Nat
  BY TuitionAssumption
<1>3. AddsUp(i)
  BY <1>1, <1>2 DEF AddsUp, Charge
<1> QED BY <1>3 DEF i

\* What a code grants is a whole amount, never negative.
LEMMA DiscountType ==
    ASSUME Priced, NEW d \in Codes, code[d].state # "ABSENT", NEW n \in Nat
    PROVE  CodeDiscount(d, n) \in Nat
<1>1. code[d].off \in CreateDiscountCodeDto
  BY DEF Priced
<1>2. code[d].off.value \in Nat
  BY <1>1 DEF CreateDiscountCodeDto
<1>3. n * code[d].off.value \in Nat
  BY <1>2
<1>4. (n * code[d].off.value) \div 100 \in Nat
  BY <1>3
<1> QED BY <1>2, <1>4 DEF CodeDiscount

\* The lines of a request add up to a whole amount.
LEMMA BasketType ==
    ASSUME NEW items, Basket(items)
    PROVE  Subtotal([i \in DOMAIN items |-> items[i].quantity * items[i].unitAmount]) \in Nat
<1>1. PICK n \in 1..50 : items \in [1..n -> [quantity : 1..1000, unitAmount : Nat]]
  BY DEF Basket
<1> DEFINE lines == [i \in DOMAIN items |-> items[i].quantity * items[i].unitAmount]
<1>2. ASSUME NEW i \in 1..n PROVE items[i].quantity * items[i].unitAmount \in Nat
  <2>1. items[i] \in [quantity : 1..1000, unitAmount : Nat]
    BY <1>1
  <2>2. items[i].quantity \in Nat /\ items[i].unitAmount \in Nat
    BY <2>1
  <2> QED BY <2>2
<1>3. lines \in [1..n -> Nat]
  BY <1>1, <1>2
<1>4. IsFiniteSet(1..n)
  BY FS_Interval
<1> HIDE DEF lines
<1>5. Subtotal(lines) \in Nat
  BY <1>3, <1>4, SubtotalType
<1> QED BY <1>5 DEF lines

\* The subtotal has been checked when the request looks for its code.
LEMMA StartCharges ==
    ASSUME Tables, MoneyInv, NEW k \in Clerks, NEW dto \in Bodies, StartCreate(k, dto)
    PROVE  MoneyInv'
<1> DEFINE lines == [i \in DOMAIN dto.items |-> dto.items[i].quantity * dto.items[i].unitAmount]
<1>1. CreateInvoiceDto(dto)
  BY RequestsAssumption
<1>2. Subtotal(lines) \in Nat
  BY <1>1, BasketType DEF CreateInvoiceDto
<1>3. /\ Subtotal(lines) <= MaxMoney
      /\ \A j \in Clerks \ {k} : create'[j] = create[j]
      /\ create'[k].at = "CODE" /\ create'[k].lines = lines
      /\ create'[k].discount = dto.discount /\ create'[k].discountCode = dto.discountCode
  BY DEF StartCreate, Tables
<1> HIDE DEF lines
<1>4. dto.discount \in Nat /\ dto.discountCode \in Codes \cup {None}
  BY <1>1 DEF CreateInvoiceDto
<1>5. Priceable(create'[k])
  BY <1>2, <1>3, <1>4, TuitionAssumption DEF Priceable
<1>6. Charged'
  BY <1>3, <1>5 DEF MoneyInv, Charged, Priceable, Charge
<1>7. UNCHANGED <<invoices, rates, code, close>>
  BY DEF StartCreate, admin
<1> QED BY <1>6, <1>7 DEF MoneyInv, Priced

\* Every check of create has been made when the charge is stored.
LEMMA DiscountCharges ==
    ASSUME Tables, MoneyInv, NEW k \in Clerks, ApplyDiscount(k) \/ RefuseDiscount(k)
    PROVE  MoneyInv'
<1> DEFINE c == create[k]
           off == Discount(c)
<1>1. /\ c.at = "CODE" /\ Subtotal(c.lines) \in 0..MaxMoney /\ c.discount \in Nat
      /\ c.discountCode \in Codes \cup {None}
  BY DEF ApplyDiscount, RefuseDiscount, MoneyInv, Charged, Priceable
<1>2. \A j \in Clerks \ {k} : create'[j] = create[j]
  BY DEF ApplyDiscount, RefuseDiscount, Tables
<1>3. CASE ApplyDiscount(k)
  <2>1. /\ c.discountCode # None => Usable(c.discountCode)
        /\ MoneyFits(Subtotal(c.lines), off)
        /\ create'[k].at = "NUMBER" /\ create'[k].lines = c.lines /\ create'[k].discount = off
    BY <1>3 DEF ApplyDiscount, Acceptable, Tables
  <2>2. off \in Nat
    <3>1. CASE c.discountCode = None
      BY <1>1, <3>1 DEF Discount
    <3>2. CASE c.discountCode # None
      <4>1. c.discountCode \in Codes /\ code[c.discountCode].state # "ABSENT"
        BY <1>1, <2>1, <3>2 DEF Usable
      <4>2. CodeDiscount(c.discountCode, Subtotal(c.lines)) \in Nat
        <5>1. Subtotal(c.lines) \in Nat
          BY <1>1, TuitionAssumption
        <5> QED BY <4>1, <5>1, DiscountType DEF MoneyInv
      <4> QED BY <1>1, <3>2, <4>2 DEF Discount
    <3> QED BY <3>1, <3>2
  <2> HIDE DEF off
  <2>3. Charge(c.lines, off)
    BY <1>1, <2>1, <2>2, TuitionAssumption DEF Charge, MoneyFits
  <2> QED BY <2>1, <2>3, <1>2, <1>3 DEF MoneyInv, Charged, Priceable, Charge, ApplyDiscount, admin, Priced
<1>4. CASE RefuseDiscount(k)
  <2>1. create'[k].at = "IDLE"
    BY <1>4 DEF RefuseDiscount, NoCreate, Tables
  <2> QED BY <2>1, <1>2, <1>4 DEF MoneyInv, Charged, Priceable, Charge, RefuseDiscount, admin, Priced
<1> QED BY <1>3, <1>4

\* A later step of create inserts the row of its charge, or keeps the charge.
LEMMA CreateKeepsMoney ==
    ASSUME Tables, MoneyInv, NEW k \in Clerks,
           ReadNumber(k) \/ InsertInvoice(k) \/ LoseInsert(k) \/ EndCreate(k)
    PROVE  MoneyInv'
<1>1. UNCHANGED <<rates, code, close>>
  BY DEF ReadNumber, InsertInvoice, LoseInsert, EndCreate, admin
<1>2. \A j \in Clerks \ {k} : create'[j] = create[j]
  BY DEF ReadNumber, InsertInvoice, LoseInsert, EndCreate, Tables
<1>3. Charged'
  <2>1. CASE ReadNumber(k) \/ LoseInsert(k)
    <3>1. /\ create[k].at \in {"NUMBER", "INSERT"}
          /\ create'[k].at # "CODE"
          /\ create'[k].lines = create[k].lines /\ create'[k].discount = create[k].discount
      BY <2>1 DEF ReadNumber, LoseInsert, Attempt, Tables
    <3> QED BY <1>2, <3>1 DEF MoneyInv, Charged, Priceable, Charge
  <2>2. CASE InsertInvoice(k) \/ EndCreate(k)
    <3>1. create'[k].at = "IDLE"
      BY <2>2 DEF InsertInvoice, EndCreate, NoCreate, Tables
    <3> QED BY <1>2, <3>1 DEF MoneyInv, Charged, Priceable, Charge
  <2> QED BY <2>1, <2>2
<1>4. \A i \in invoices' : AddsUp(i)
  <2>1. CASE InsertInvoice(k)
    <3> DEFINE c == create[k]
    <3>1. Charge(c.lines, c.discount)
      BY <2>1 DEF InsertInvoice, MoneyInv, Charged, Priceable
    <3>2. AddsUp(InvoiceRow(c.no, c.student, c.type, c.period, c.lines, c.discount))
      BY <3>1, RowAddsUp
    <3>3. invoices' = invoices \cup {InvoiceRow(c.no, c.student, c.type, c.period, c.lines,
                                                c.discount)}
      BY <2>1 DEF InsertInvoice
    <3> QED BY <3>2, <3>3 DEF MoneyInv
  <2>2. CASE invoices' = invoices
    BY <2>2 DEF MoneyInv
  <2> QED BY <2>1, <2>2 DEF ReadNumber, LoseInsert, EndCreate
<1>5. (\A i \in invoices : AddsUp(i))'
  BY <1>4 DEF AddsUp
<1> QED BY <1>1, <1>3, <1>5 DEF MoneyInv, Priced

\* The close copies rates into lines, and inserts what the column holds.
LEMMA CloseKeepsMoney ==
    ASSUME Tables, MoneyInv, NEW g \in Closers,
           \/ \E p \in Periods, wanted \in SUBSET Classes \ {{}} : ReadRates(g, p, wanted)
           \/ ReadEnrollments(g) \/ InsertTuition(g) \/ SkipExisting(g)
           \/ BreakOff(g) \/ Report(g) \/ EndClose(g)
           \/ \E s \in Students : NextStudent(g, s)
    PROVE  MoneyInv'
<1>1. UNCHANGED <<rates, code, create>>
  BY DEF ReadRates, ReadEnrollments, InsertTuition, SkipExisting, BreakOff, Report, EndClose,
         NextStudent, admin
<1>2. \A h \in Closers \ {g} : close'[h] = close[h]
  BY DEF ReadRates, ReadEnrollments, InsertTuition, SkipExisting, BreakOff, Report, EndClose,
         NextStudent, Tables
<1>3. Tariff(close[g])
  BY DEF MoneyInv
<1>4. Tariff(close'[g])
  <2>1. CASE \E p \in Periods, wanted \in SUBSET Classes \ {{}} : ReadRates(g, p, wanted)
    <3>1. PICK p \in Periods, wanted \in SUBSET Classes \ {{}} : ReadRates(g, p, wanted)
      BY <2>1
    <3>2. close'[g].at = "RATED" /\ close'[g].rate = [c \in {c \in wanted : rates[c] > 0} |-> rates[c]]
      BY <3>1 DEF ReadRates, Tables
    <3>3. \A c \in {c \in wanted : rates[c] > 0} : c \in Classes /\ rates[c] \in Nat
      BY DEF MoneyInv, Priced
    <3> QED BY <3>2, <3>3 DEF Tariff
  <2>2. CASE ReadEnrollments(g)
    <3> DEFINE rate == close[g].rate
               line(s) == [c \in {c \in DOMAIN rate : Attends(s, c, close[g].period)} |-> rate[c]]
    <3>1. /\ close[g].at = "RATED" /\ close'[g].at = "LOOP"
          /\ close'[g].lines = [s \in Students |-> line(s)]
      BY <2>2 DEF ReadEnrollments, Tables
    <3>2. DOMAIN rate \subseteq Classes /\ \A c \in DOMAIN rate : rate[c] \in Nat
      BY <1>3, <3>1 DEF Tariff
    <3>3. ASSUME NEW s \in Students PROVE Subtotal(line(s)) \in Nat
      <4> DEFINE D == {c \in DOMAIN rate : Attends(s, c, close[g].period)}
      <4>1. IsFiniteSet(D)
        BY <3>2, FS_Subset, TuitionAssumption
      <4>2. line(s) \in [D -> Nat]
        BY <3>2
      <4> HIDE DEF D, line
      <4> QED BY <4>1, <4>2, SubtotalType
    <3> HIDE DEF line
    <3> QED BY <3>1, <3>3 DEF Tariff
  <2>3. CASE InsertTuition(g) \/ SkipExisting(g) \/ Report(g)
    <3>1. /\ close[g].at \in {"LOOP", "INSERT"} /\ close'[g].at \in {"LOOP", "DONE"}
          /\ close'[g].lines = close[g].lines
      BY <2>3 DEF InsertTuition, SkipExisting, Report, Turn, Tables
    <3> QED BY <1>3, <3>1 DEF Tariff
  <2>4. CASE BreakOff(g) \/ EndClose(g)
    <3>1. close'[g].at = "IDLE"
      BY <2>4 DEF BreakOff, EndClose, NoClose, Tables
    <3> QED BY <3>1 DEF Tariff
  <2>5. CASE \E s \in Students : NextStudent(g, s)
    <3>1. /\ close[g].at = "LOOP" /\ close'[g].at = "INSERT" /\ close'[g].student \in Students
          /\ close'[g].lines = close[g].lines
      BY <2>5 DEF NextStudent, Turn, Tables
    <3> QED BY <1>3, <3>1 DEF Tariff
  <2> QED BY <2>1, <2>2, <2>3, <2>4, <2>5
<1>5. \A i \in invoices' : AddsUp(i)
  <2>1. CASE InsertTuition(g)
    <3> DEFINE b == close[g]
               row == InvoiceRow(b.no, b.student, "TUITION", b.period, b.lines[b.student], 0)
    <3>1. b.at = "INSERT" /\ row.total <= MaxMoney /\ invoices' = invoices \cup {row}
      BY <2>1 DEF InsertTuition
    <3>2. Subtotal(b.lines[b.student]) \in Nat
      BY <1>3, <3>1 DEF Tariff
    <3>3. Charge(b.lines[b.student], 0)
      BY <3>1, <3>2, TuitionAssumption DEF Charge, InvoiceRow
    <3>4. AddsUp(row)
      BY <3>3, RowAddsUp
    <3> QED BY <3>1, <3>4 DEF MoneyInv
  <2>2. CASE invoices' = invoices
    BY <2>2 DEF MoneyInv
  <2> QED BY <2>1, <2>2
          DEF ReadRates, ReadEnrollments, SkipExisting, BreakOff, Report, EndClose, NextStudent
<1>6. (\A i \in invoices : AddsUp(i))'
  BY <1>5 DEF AddsUp
<1>7. (\A h \in Closers : Tariff(close[h]))'
  BY <1>2, <1>4 DEF MoneyInv, Tariff
<1>8. Priced' /\ Charged'
  BY <1>1 DEF MoneyInv, Priced, Charged
<1> QED BY <1>6, <1>7, <1>8 DEF MoneyInv

\* The fee of an exam is its only line.
LEMMA FeeKeepsMoney ==
    ASSUME MoneyInv, NEW f \in Registrars,
           (\E s \in Students : StartFee(f, s)) \/ InsertFee(f) \/ LoseFee(f)
    PROVE  MoneyInv'
<1>1. UNCHANGED <<rates, code, create, close>>
  BY DEF StartFee, InsertFee, LoseFee, admin
<1>2. \A i \in invoices' : AddsUp(i)
  <2>1. CASE InsertFee(f)
    <3> DEFINE row == InvoiceRow(fee[f].no, fee[f].student, "EXAM_FEE", 0, [i \in {1} |-> Fee], 0)
    <3>1. Fee \in Nat /\ Fee \in 0..MaxMoney
      BY TuitionAssumption
    <3>2. Subtotal([i \in {1} |-> Fee]) = Fee
      BY <3>1, SubtotalOfOne
    <3>3. Charge([i \in {1} |-> Fee], 0)
      BY <3>1, <3>2 DEF Charge
    <3>4. AddsUp(row)
      BY <3>3, RowAddsUp
    <3>5. invoices' = invoices \cup {row}
      BY <2>1 DEF InsertFee
    <3> QED BY <3>4, <3>5 DEF MoneyInv
  <2>2. CASE invoices' = invoices
    BY <2>2 DEF MoneyInv
  <2> QED BY <2>1, <2>2 DEF StartFee, LoseFee
<1>3. (\A i \in invoices : AddsUp(i))'
  BY <1>2 DEF AddsUp
<1> QED BY <1>1, <1>3 DEF MoneyInv, Priced, Charged

\* Settings and codes change to whole amounts and reductions.
LEMMA AdminKeepsMoney ==
    ASSUME MoneyInv, AdminNext
    PROVE  MoneyInv'
<1>1. UNCHANGED <<invoices, create, close>>
  BY DEF AdminNext, UpdateTuitionRates, CreateDiscountCode, UpdateDiscountCode,
         DeleteDiscountCode, ChangeProfile, ChangeEnrollment, Midnight
<1>2. Priced'
  <2>1. CASE \E map \in RateTables : UpdateTuitionRates(map)
    BY <2>1, PricesAssumption DEF UpdateTuitionRates, MoneyInv, Priced
  <2>2. ASSUME NEW d \in Codes, NEW row, row.state = "ABSENT" \/ row.off \in CreateDiscountCodeDto,
               code' = [code EXCEPT ![d] = row], rates' = rates
        PROVE  Priced'
    BY <2>2 DEF MoneyInv, Priced
  <2>3. ASSUME NEW d \in Codes, NEW off \in Reductions, NEW from, NEW until,
               CreateDiscountCode(d, off, from, until)
        PROVE  Priced'
    BY <2>2, <2>3, PricesAssumption DEF CreateDiscountCode
  <2>4. ASSUME NEW d \in Codes, NEW state, NEW until, UpdateDiscountCode(d, state, until)
        PROVE  Priced'
    BY <2>2, <2>4 DEF UpdateDiscountCode, MoneyInv, Priced
  <2>5. ASSUME NEW d \in Codes, DeleteDiscountCode(d)
        PROVE  Priced'
    BY <2>2, <2>5 DEF DeleteDiscountCode, NoCode
  <2>6. CASE UNCHANGED <<rates, code>>
    BY <2>6 DEF MoneyInv, Priced
  <2> QED BY <2>1, <2>3, <2>4, <2>5, <2>6 DEF AdminNext, ChangeProfile, ChangeEnrollment, Midnight
<1> QED BY <1>1, <1>2 DEF MoneyInv, Charged

\* A total is what its lines add up to minus its discount, never negative and
\* never beyond the column: for every basket of create, every combination of a
\* manual discount and a code, every rate table a close may read and every fee.
THEOREM MoneyAlwaysAddsUp == TuitionSpec => []MoneyAddsUp
<1>1. TuitionInit => MoneyInv
  <2> SUFFICES ASSUME TuitionInit PROVE MoneyInv
    OBVIOUS
  <2>1. Priced
    BY PricesAssumption DEF TuitionInit, Priced, NoCode
  <2>2. Charged /\ \A g \in Closers : Tariff(close[g])
    BY DEF TuitionInit, Charged, Priceable, NoCreate, Tariff, NoClose
  <2>3. ASSUME NEW s PROVE AddsUp(Legacy(s))
    <3>1. Subtotal([i \in {1} |-> 1]) = 1 /\ 1 <= MaxMoney /\ MaxMoney \in Nat
      BY SubtotalOfOne, TuitionAssumption
    <3>2. /\ Legacy(s).subtotal = 1 /\ Legacy(s).discount = 0 /\ Legacy(s).total = 1
          /\ Legacy(s).lines = [i \in {1} |-> 1]
      BY DEF Legacy
    <3> QED BY <3>1, <3>2 DEF AddsUp
  <2> QED BY <2>1, <2>2, <2>3 DEF TuitionInit, MoneyInv
<1>2. Inv /\ MoneyInv /\ [TuitionNext]_tuitionVars => MoneyInv'
  <2> SUFFICES ASSUME Inv, MoneyInv, [TuitionNext]_tuitionVars PROVE MoneyInv'
    OBVIOUS
  <2>1. Tables
    BY DEF Inv
  <2>2. CASE UNCHANGED tuitionVars
    BY <2>2 DEF tuitionVars, MoneyInv, Priced, Charged, Priceable, Charge, AddsUp, Tariff
  <2>3. CASE IssueNext
    BY <2>1, <2>3, StartCharges, DiscountCharges, CreateKeepsMoney, CloseKeepsMoney, FeeKeepsMoney
    DEF IssueNext
  <2> QED BY <2>2, <2>3, AdminKeepsMoney DEF TuitionNext
<1>3. MoneyInv => MoneyAddsUp
  BY DEF MoneyInv, AddsUp, MoneyAddsUp
<1> QED
  BY <1>1, <1>2, <1>3, InvInit, InvStep, PTL DEF TuitionSpec

=============================================================================
