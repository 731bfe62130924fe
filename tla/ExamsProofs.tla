---------------------------- MODULE ExamsProofs ----------------------------
(***************************************************************************)
(* Theorems about Exams, for every set of exams, students and concurrent   *)
(* requests.                                                               *)
(***************************************************************************)
EXTENDS Exams, FiniteSetTheorems, TLAPS

\* The tables, as far as the arguments below need their types.
Tables ==
    /\ examStatus = [x \in Exam |-> examStatus[x]]
    /\ examCapacity \in [Exam -> 1..MaxPlaces \cup {None}]
    /\ reg = [x \in Exam |-> [s \in Candidates |-> reg[x][s]]]
    /\ desk = [d \in Desks |-> desk[d]]
    /\ judge = [j \in Examiners |-> judge[j]]

\* What register has checked under the row lock still holds, and one request
\* holds the lock.
Checked ==
    /\ \A d \in Desks : desk[d] = NoDesk \/ desk[d].exam \in Exam
    /\ \A d \in Desks, x \in Exam : desk[d].exam = x =>
          /\ desk[d].student \in Candidates
          /\ examStatus[x] = "OPEN"
          /\ HasPlace(x)
          /\ reg[x][desk[d].student] = "ABSENT"
    /\ \A d, e \in Desks, x \in Exam : desk[d].exam = x /\ desk[e].exam = x => d = e

\* A result is recorded for a registration that takes a place.
Judged ==
    \A j \in Examiners : judge[j].pc # "idle" =>
        /\ judge[j].exam \in Exam /\ judge[j].student \in Candidates
        /\ reg[judge[j].exam][judge[j].student] \notin {"ABSENT", "CANCELLED"}

IInv == Tables /\ Checked /\ Judged /\ FeeWithRegistration

-----------------------------------------------------------------------------
(* Counting registrations                                                  *)

\* The registrations that take a place are finitely many.
LEMMA RegisteredFinite ==
    \A x : /\ IsFiniteSet(Registered(x)) /\ Cardinality(Registered(x)) \in Nat
           /\ IsFiniteSet(Registered(x)') /\ Cardinality(Registered(x)') \in Nat
<1> SUFFICES ASSUME NEW x
             PROVE  /\ IsFiniteSet(Registered(x)) /\ Cardinality(Registered(x)) \in Nat
                    /\ IsFiniteSet(Registered(x)') /\ Cardinality(Registered(x)') \in Nat
  OBVIOUS
<1>1. Registered(x) \subseteq Candidates /\ Registered(x)' \subseteq Candidates
  BY DEF Registered
<1>2. IsFiniteSet(Registered(x)) /\ IsFiniteSet(Registered(x)')
  BY <1>1, ExamsAssumption, FS_Subset
<1> QED
  BY <1>2, FS_CardinalityType

\* The write of one registration.
WriteReg(x, s, v) == reg' = [reg EXCEPT ![x] = [reg[x] EXCEPT ![s] = v]]

\* It leaves the others alone.
LEMMA RegWrite ==
    ASSUME Tables, NEW x \in Exam, NEW s \in Candidates, NEW v, WriteReg(x, s, v)
    PROVE  /\ reg' = [y \in Exam |-> [t \in Candidates |-> reg'[y][t]]]
           /\ reg'[x][s] = v
           /\ \A y \in Exam, t \in Candidates : y # x \/ t # s => reg'[y][t] = reg[y][t]
<1>1. reg = [y \in Exam |-> [t \in Candidates |-> reg[y][t]]]
  BY DEF Tables
<1>2. \A y \in Exam : reg[y] = [t \in Candidates |-> reg[y][t]]
  BY <1>1
<1>3. reg' = [y \in Exam |-> IF y = x THEN [reg[x] EXCEPT ![s] = v] ELSE reg[y]]
  BY <1>1 DEF WriteReg
<1>4. reg'[x] = [t \in Candidates |-> IF t = s THEN v ELSE reg[x][t]]
  BY <1>2, <1>3
<1>5. \A y \in Exam \ {x} : reg'[y] = reg[y]
  BY <1>3
<1>6. \A y \in Exam : reg'[y] = [t \in Candidates |-> reg'[y][t]]
  BY <1>2, <1>4, <1>5
<1>7. reg' = [y \in Exam |-> reg'[y]]
  BY <1>3
<1>8. reg' = [y \in Exam |-> [t \in Candidates |-> reg'[y][t]]]
  BY <1>6, <1>7
<1>9. \A y \in Exam, t \in Candidates : y # x \/ t # s => reg'[y][t] = reg[y][t]
  BY <1>4, <1>5
<1> QED
  BY <1>4, <1>8, <1>9

\* A registration adds one place to its exam and none to another.
LEMMA RegistrationAddsOne ==
    ASSUME IInv, NEW d \in Desks, IssueFee(d), NEW x \in Exam
    PROVE  IF x = desk[d].exam THEN Cardinality(Registered(x)') = Cardinality(Registered(x)) + 1
                               ELSE Registered(x)' = Registered(x)
<1> DEFINE y == desk[d].exam
           t == desk[d].student
<1>1. y \in Exam /\ t \in Candidates /\ reg[y][t] = "ABSENT"
  BY DEF IInv, Checked, IssueFee, NoDesk
<1>2. /\ reg'[y][t] = "PENDING_PAYMENT"
      /\ \A z \in Exam, s \in Candidates : z # y \/ s # t => reg'[z][s] = reg[z][s]
  <2>1. WriteReg(y, t, "PENDING_PAYMENT")
    BY DEF IssueFee, Registering, WriteReg
  <2> HIDE DEF y, t
  <2> QED
    BY <1>1, <2>1, RegWrite DEF IInv
<1>3. CASE x = y
  <2>1. Registered(x)' = Registered(x) \cup {t} /\ t \notin Registered(x)
    BY <1>1, <1>2, <1>3 DEF Registered
  <2> QED
    BY <1>3, <2>1, RegisteredFinite, FS_AddElement
<1>4. CASE x # y
  BY <1>2, <1>4 DEF Registered
<1> QED
  BY <1>3, <1>4

\* A result takes and frees no place.
LEMMA ResultKeepsPlaces ==
    ASSUME IInv, NEW j \in Examiners, judge[j].pc # "idle", NEW v \in Results,
           WriteReg(judge[j].exam, judge[j].student, v)
    PROVE  /\ reg' = [x \in Exam |-> [s \in Candidates |-> reg'[x][s]]]
           /\ \A x \in Exam, s \in Candidates :
                 /\ reg'[x][s] = "ABSENT" <=> reg[x][s] = "ABSENT"
                 /\ reg[x][s] \notin {"ABSENT", "CANCELLED"} =>
                       reg'[x][s] \notin {"ABSENT", "CANCELLED"}
           /\ \A x \in Exam : Registered(x)' = Registered(x)
<1> DEFINE y == judge[j].exam
           t == judge[j].student
<1>1. y \in Exam /\ t \in Candidates /\ reg[y][t] \notin {"ABSENT", "CANCELLED"}
  BY DEF IInv, Judged
<1>2. /\ reg' = [x \in Exam |-> [s \in Candidates |-> reg'[x][s]]]
      /\ reg'[y][t] = v
      /\ \A z \in Exam, s \in Candidates : z # y \/ s # t => reg'[z][s] = reg[z][s]
  BY <1>1, RegWrite DEF IInv
<1> HIDE DEF y, t
<1>3. v \notin {"ABSENT", "CANCELLED"}
  BY DEF Results
<1>4. \A x \in Exam, s \in Candidates :
         /\ reg'[x][s] = "ABSENT" <=> reg[x][s] = "ABSENT"
         /\ reg[x][s] \notin {"ABSENT", "CANCELLED"} <=> reg'[x][s] \notin {"ABSENT", "CANCELLED"}
  BY <1>1, <1>2, <1>3
<1> QED
  BY <1>2, <1>4 DEF Registered

-----------------------------------------------------------------------------
(* The inductive invariant                                                 *)

\* Exams start without registrations, fees and requests.
LEMMA InitInv == ExamInit => IInv
<1> SUFFICES ASSUME ExamInit
             PROVE  IInv
  OBVIOUS
<1>1. Tables
  BY DEF ExamInit, Tables
<1>2. Checked
  BY ExamsAssumption DEF ExamInit, Checked, NoDesk
<1>3. Judged /\ FeeWithRegistration
  BY DEF ExamInit, Judged, FeeWithRegistration, NoJudgement
<1> QED
  BY <1>1, <1>2, <1>3 DEF IInv

\* Where no registration changes the places stay.
LEMMA SamePlaces == ASSUME UNCHANGED reg PROVE \A x : Registered(x)' = Registered(x)
  BY DEF Registered

\* Every request, result, edit and deadline keeps the invariant.
LEMMA NextInv == IInv /\ [ExamNext]_examVars => IInv'
<1> SUFFICES ASSUME IInv, [ExamNext]_examVars
             PROVE  IInv'
  OBVIOUS
<1>1. ASSUME NEW d \in Desks, NEW x \in Exam, NEW s \in Candidates, CheckRegistration(d, x, s)
      PROVE  IInv'
  <2>1. Tables' /\ Judged' /\ FeeWithRegistration'
    BY <1>1 DEF IInv, Tables, Judged, FeeWithRegistration, CheckRegistration
  <2>2. /\ desk'[d].exam = x /\ desk'[d].student = s
        /\ \A e \in Desks \ {d} : desk'[e] = desk[e]
        /\ \A e \in Desks : desk[e].exam # x
        /\ examStatus[x] = "OPEN" /\ HasPlace(x) /\ reg[x][s] = "ABSENT"
        /\ UNCHANGED <<examStatus, examCapacity, reg>>
    BY <1>1 DEF CheckRegistration, ExamLockFree, IInv, Tables
  <2>3. \A y \in Exam : HasPlace(y)' <=> HasPlace(y)
    BY <2>2, SamePlaces DEF HasPlace
  <2>4. Checked'
    BY <2>2, <2>3 DEF IInv, Checked
  <2> QED
    BY <2>1, <2>4 DEF IInv
<1>2. ASSUME NEW d \in Desks, IssueFee(d)
      PROVE  IInv'
  <2> DEFINE y == desk[d].exam
             t == desk[d].student
  <2>1. y \in Exam /\ t \in Candidates /\ reg[y][t] = "ABSENT"
    BY <1>2 DEF IInv, Checked, IssueFee, NoDesk
  <2>2. /\ reg' = [x \in Exam |-> [s \in Candidates |-> reg'[x][s]]]
        /\ reg'[y][t] = "PENDING_PAYMENT"
        /\ \A x \in Exam, s \in Candidates : x # y \/ s # t => reg'[x][s] = reg[x][s]
    <3>1. WriteReg(y, t, "PENDING_PAYMENT")
      BY <1>2 DEF IssueFee, Registering, WriteReg
    <3> HIDE DEF y, t
    <3> QED
      BY <2>1, <3>1, RegWrite DEF IInv
  <2>3. /\ desk' = [desk EXCEPT ![d] = NoDesk] /\ examFee' = examFee \cup {<<y, t>>}
        /\ UNCHANGED <<examStatus, examCapacity, judge>>
    BY <1>2 DEF IssueFee
  <2>4. ASSUME NEW e \in Desks, NEW x \in Exam, desk'[e].exam = x
        PROVE  desk'[e] = desk[e] /\ e # d /\ x # y
    <3>1. e # d
      BY <2>3, <2>4, ExamsAssumption DEF IInv, Tables, NoDesk
    <3>2. desk'[e] = desk[e]
      BY <2>3, <3>1 DEF IInv, Tables
    <3> QED
      BY <2>1, <2>4, <3>1, <3>2 DEF IInv, Checked
  <2>5. Tables'
    BY <2>2, <2>3 DEF IInv, Tables
  <2>6. Judged'
    BY <2>1, <2>2, <2>3 DEF IInv, Judged
  <2>7. ASSUME NEW x \in Exam, NEW s \in Candidates
        PROVE  <<x, s>> \in examFee' <=> reg'[x][s] # "ABSENT"
    <3>1. <<x, s>> \in examFee <=> reg[x][s] # "ABSENT"
      BY DEF IInv, FeeWithRegistration
    <3> HIDE DEF y, t
    <3>2. <<x, s>> \in examFee' <=> <<x, s>> \in examFee \/ (x = y /\ s = t)
      BY <2>3
    <3> QED
      BY <2>2, <3>1, <3>2
  <2>8. ASSUME NEW e \in Desks, NEW x \in Exam, desk'[e].exam = x
        PROVE  HasPlace(x)'
    <3>1. HasPlace(x)
      BY <2>4, <2>8 DEF IInv, Checked
    <3>2. Registered(x)' = Registered(x)
      BY <1>2, <2>4, <2>8, RegistrationAddsOne
    <3> QED
      BY <2>3, <3>1, <3>2 DEF HasPlace
  <2>9. Checked'
    <3>1. \A e \in Desks : desk'[e] = NoDesk \/ desk'[e].exam \in Exam
      BY <2>3 DEF IInv, Tables, Checked
    <3>2. ASSUME NEW e \in Desks, NEW x \in Exam, desk'[e].exam = x
          PROVE  /\ desk'[e].student \in Candidates
                 /\ examStatus'[x] = "OPEN"
                 /\ reg'[x][desk'[e].student] = "ABSENT"
      <4>1. desk'[e] = desk[e] /\ x # y
        BY <2>4, <3>2
      <4>2. /\ desk[e].student \in Candidates /\ examStatus[x] = "OPEN"
            /\ reg[x][desk[e].student] = "ABSENT"
        BY <3>2, <4>1 DEF IInv, Checked
      <4> QED
        BY <2>2, <2>3, <4>1, <4>2
    <3>3. \A e, f \in Desks, x \in Exam : desk'[e].exam = x /\ desk'[f].exam = x => e = f
      BY <2>4 DEF IInv, Checked
    <3> QED
      BY <2>8, <3>1, <3>2, <3>3 DEF Checked
  <2> QED
    BY <2>5, <2>6, <2>7, <2>9 DEF IInv, FeeWithRegistration
<1>3. ASSUME NEW d \in Desks, AbortRegistration(d)
      PROVE  IInv'
  <2>1. Tables' /\ Judged' /\ FeeWithRegistration'
    BY <1>3 DEF IInv, Tables, Judged, FeeWithRegistration, AbortRegistration
  <2>2. Checked'
    BY <1>3, SamePlaces, ExamsAssumption
    DEF IInv, Tables, Checked, AbortRegistration, HasPlace, NoDesk
  <2> QED
    BY <2>1, <2>2 DEF IInv
<1>4. ASSUME NEW j \in Examiners, NEW x \in Exam, NEW s \in Candidates, NEW r \in Results,
             ReadRegistration(j, x, s, r)
      PROVE  IInv'
  <2>1. Tables' /\ Judged' /\ FeeWithRegistration'
    BY <1>4 DEF IInv, Tables, Judged, FeeWithRegistration, ReadRegistration
  <2>2. Checked'
    BY <1>4, SamePlaces DEF IInv, Checked, ReadRegistration, HasPlace
  <2> QED
    BY <2>1, <2>2 DEF IInv
<1>5. ASSUME NEW j \in Examiners, RecordFail(j) \/ Promote(j)
      PROVE  IInv'
  <2>1. PICK v \in Results : WriteReg(judge[j].exam, judge[j].student, v)
    BY <1>5 DEF RecordFail, Promote, WriteReg, Results
  <2>2. /\ judge[j].pc # "idle" /\ judge' = [judge EXCEPT ![j] = NoJudgement]
        /\ UNCHANGED <<examStatus, examCapacity, examFee, desk>>
    BY <1>5 DEF RecordFail, Promote
  <2>3. /\ reg' = [x \in Exam |-> [s \in Candidates |-> reg'[x][s]]]
        /\ \A x \in Exam, s \in Candidates :
              /\ reg'[x][s] = "ABSENT" <=> reg[x][s] = "ABSENT"
              /\ reg[x][s] \notin {"ABSENT", "CANCELLED"} =>
                    reg'[x][s] \notin {"ABSENT", "CANCELLED"}
        /\ \A x \in Exam : Registered(x)' = Registered(x)
    BY <2>1, <2>2, ResultKeepsPlaces
  <2>4. Tables' /\ FeeWithRegistration'
    BY <2>2, <2>3 DEF IInv, Tables, FeeWithRegistration
  <2>5. Judged'
    BY <2>2, <2>3 DEF IInv, Tables, Judged, NoJudgement
  <2>6. Checked'
    BY <2>2, <2>3 DEF IInv, Checked, HasPlace
  <2> QED
    BY <2>4, <2>5, <2>6 DEF IInv
<1>6. ASSUME NEW j \in Examiners, WritePass(j) \/ ReadRank(j)
      PROVE  IInv'
  <2>1. /\ UNCHANGED <<examStatus, examCapacity, reg, examFee, desk>>
        /\ judge[j].pc # "idle"
        /\ \/ judge' = [judge EXCEPT ![j] = NoJudgement]
           \/ \E pc : judge' = [judge EXCEPT ![j] =
                                  [pc |-> pc, exam |-> judge[j].exam,
                                   student |-> judge[j].student, result |-> judge[j].result,
                                   target |-> judge[j].target]]
    BY <1>6 DEF WritePass, ReadRank, Advance
  <2>2. Tables' /\ FeeWithRegistration'
    BY <2>1 DEF IInv, Tables, FeeWithRegistration
  <2>3. Judged'
    <3>1. \A k \in Examiners \ {j} : judge'[k] = judge[k]
      BY <2>1 DEF IInv, Tables
    <3>2. \/ judge'[j].pc = "idle"
          \/ judge'[j].exam = judge[j].exam /\ judge'[j].student = judge[j].student
      BY <2>1 DEF IInv, Tables, NoJudgement
    <3> QED
      BY <2>1, <3>1, <3>2 DEF IInv, Judged
  <2>4. Checked'
    BY <2>1, SamePlaces DEF IInv, Checked, HasPlace
  <2> QED
    BY <2>2, <2>3, <2>4 DEF IInv
<1>7. ASSUME NEW x \in Exam, UpdateExam(x)
      PROVE  IInv'
  <2>1. UNCHANGED <<reg, examFee, desk, judge>> /\ \A d \in Desks : desk[d].exam # x
    BY <1>7 DEF UpdateExam, ExamLockFree
  <2>2. /\ examCapacity' \in [Exam -> 1..MaxPlaces \cup {None}]
        /\ examStatus' = [y \in Exam |-> examStatus'[y]]
        /\ \A y \in Exam \ {x} : examCapacity'[y] = examCapacity[y]
    BY <1>7 DEF UpdateExam, IInv, Tables
  <2>3. \A y \in Exam \ {x} : examStatus[y] = "OPEN" => examStatus'[y] = "OPEN"
    BY <1>7 DEF UpdateExam, IInv, Tables
  <2>4. Tables' /\ Judged' /\ FeeWithRegistration'
    BY <2>1, <2>2 DEF IInv, Tables, Judged, FeeWithRegistration
  <2>5. Checked'
    BY <2>1, <2>2, <2>3, SamePlaces DEF IInv, Checked, HasPlace
  <2> QED
    BY <2>4, <2>5 DEF IInv
<1>8. ASSUME UNCHANGED <<examStatus, examCapacity, reg, examFee, desk, judge>>
      PROVE  IInv'
  BY <1>8, SamePlaces
  DEF IInv, Tables, Checked, Judged, FeeWithRegistration, HasPlace
<1>9. ASSUME NEW d \in Desks, InsertRegistration(d)
      PROVE  IInv'
  <2>1. /\ desk'[d].exam = desk[d].exam /\ desk'[d].student = desk[d].student
        /\ desk[d].exam \in Exam
        /\ \A e \in Desks \ {d} : desk'[e] = desk[e]
        /\ desk' = [e \in Desks |-> desk'[e]]
        /\ UNCHANGED <<examStatus, examCapacity, reg, examFee, judge>>
    BY <1>9 DEF IInv, Tables, Checked, InsertRegistration, SaveInTransaction, NoDesk
  <2>2. Tables' /\ Judged' /\ FeeWithRegistration'
    BY <2>1 DEF IInv, Tables, Judged, FeeWithRegistration
  <2>3. \A x \in Exam : HasPlace(x)' <=> HasPlace(x)
    BY <2>1, SamePlaces DEF HasPlace
  <2>4. Checked'
    BY <2>1, <2>3 DEF IInv, Checked
  <2> QED
    BY <2>2, <2>4 DEF IInv
<1> QED
  BY <1>1, <1>2, <1>3, <1>4, <1>5, <1>6, <1>7, <1>8, <1>9
  DEF ExamNext, examVars, RecordResult, DeadlinePasses, ChangeCandidate, EditRank

\* The invariant holds throughout.
THEOREM ExamsInvariant == ExamSpec => []IInv
  BY InitInv, NextInv, PTL DEF ExamSpec

\* A registration and its fee invoice are committed together: whatever results
\* and aborted requests come in between, neither exists without the other.
THEOREM FeesFollowRegistrations == ExamSpec => []FeeWithRegistration
<1>1. IInv => FeeWithRegistration
  BY DEF IInv
<1> QED
  BY <1>1, ExamsInvariant, PTL

\* No register takes an exam beyond the capacity in force, or enters one that is
\* not open: the row lock keeps the checks valid until the insert.
THEOREM NeverOverbooked == ExamSpec => RegisteringNeverOverbooks
<1> DEFINE Fit ==
      \A x \in Exam :
          Cardinality(Registered(x)') > Cardinality(Registered(x)) =>
             /\ examStatus[x] = "OPEN"
             /\ examCapacity[x] # None => Cardinality(Registered(x)') <= examCapacity[x]
<1>1. IInv /\ [ExamNext]_examVars => [Fit]_examVars
  <2> SUFFICES ASSUME IInv, [ExamNext]_examVars, NEW x \in Exam,
                      Cardinality(Registered(x)') > Cardinality(Registered(x))
               PROVE  /\ examStatus[x] = "OPEN"
                      /\ examCapacity[x] # None => Cardinality(Registered(x)') <= examCapacity[x]
    OBVIOUS
  <2>1. ASSUME NEW d \in Desks, IssueFee(d)
        PROVE  /\ examStatus[x] = "OPEN"
               /\ examCapacity[x] # None => Cardinality(Registered(x)') <= examCapacity[x]
    <3>1. x = desk[d].exam /\ Cardinality(Registered(x)') = Cardinality(Registered(x)) + 1
      BY <2>1, RegistrationAddsOne, RegisteredFinite
    <3>2. HasPlace(x) /\ examStatus[x] = "OPEN" /\ examCapacity[x] \in 1..MaxPlaces \cup {None}
      BY <2>1, <3>1 DEF IInv, Tables, Checked
    <3>3. MaxPlaces \in Nat /\ Cardinality(Registered(x)) \in Nat
      BY RegisteredFinite, ExamsAssumption
    <3> QED
      BY <3>1, <3>2, <3>3 DEF HasPlace
  <2>2. ASSUME NEW j \in Examiners, RecordFail(j) \/ Promote(j)
        PROVE  FALSE
    <3>1. PICK v \in Results : WriteReg(judge[j].exam, judge[j].student, v)
      BY <2>2 DEF RecordFail, Promote, WriteReg, Results
    <3>2. judge[j].pc # "idle"
      BY <2>2 DEF RecordFail, Promote
    <3>3. Registered(x)' = Registered(x)
      BY <3>1, <3>2, ResultKeepsPlaces
    <3> QED
      BY <3>3, RegisteredFinite
  <2>3. ASSUME UNCHANGED reg
        PROVE  FALSE
    BY <2>3, SamePlaces, RegisteredFinite
  <2> QED
    BY <2>1, <2>2, <2>3
    DEF ExamNext, examVars, CheckRegistration, InsertRegistration, SaveInTransaction,
        AbortRegistration, ReadRegistration, RecordResult,
        WritePass, ReadRank, UpdateExam, DeadlinePasses, ChangeCandidate, EditRank
<1> QED
  BY <1>1, ExamsInvariant, PTL DEF ExamSpec, RegisteringNeverOverbooks

-----------------------------------------------------------------------------
(* Ranks                                                                   *)

\* One transaction at a time has written a registration and not committed; what it
\* read of the rank stays true until it writes it, as long as no administrator
\* edits ranks and no second exam judges the student.
RankInv ==
    /\ rank \in [Candidates -> 0..MaxRank]
    /\ target \in [Exam -> Belts]
    /\ edits \in Nat
    /\ judge = [j \in Examiners |-> judge[j]]
    /\ \A j \in Examiners : judge[j].pc # "idle" =>
          /\ judge[j].exam \in Exam /\ judge[j].student \in Candidates
          /\ judge[j].target \in Belts
    /\ \A j, k \in Examiners :
          (/\ judge[j].pc \in {"rank", "promote"} /\ judge[k].pc \in {"rank", "promote"}
           /\ judge[j].exam = judge[k].exam /\ judge[j].student = judge[k].student)
          => j = k
    /\ edits = 0 =>
          \A j \in Examiners : judge[j].pc = "promote" => rank[judge[j].student] < judge[j].target

\* Every step keeps it where there is one exam.
LEMMA RankInvStep ==
    ASSUME \A x, y \in Exam : x = y, RankInv, [ExamNext]_examVars
    PROVE  RankInv'
<1> USE DEF RankInv
<1>1. ASSUME NEW j \in Examiners, NEW x \in Exam, NEW s \in Candidates, NEW r \in Results,
             ReadRegistration(j, x, s, r)
      PROVE  RankInv'
  BY <1>1 DEF ReadRegistration
<1>2. ASSUME NEW j \in Examiners, RecordFail(j)
      PROVE  RankInv'
  BY <1>2 DEF RecordFail, NoJudgement
<1>3. ASSUME NEW j \in Examiners, WritePass(j)
      PROVE  RankInv'
  BY <1>3 DEF WritePass, Advance, RowHeld
<1>4. ASSUME NEW j \in Examiners, ReadRank(j)
      PROVE  RankInv'
  <2>1. judge[j].pc = "rank" /\ UNCHANGED <<rank, target, edits>>
    BY <1>4 DEF ReadRank
  <2>2. CASE WouldPromote(j)
    <3>1. judge' = [judge EXCEPT ![j] = [pc |-> "promote", exam |-> judge[j].exam,
                                         student |-> judge[j].student,
                                         result |-> judge[j].result,
                                         target |-> judge[j].target]]
      BY <1>4, <2>2 DEF ReadRank, Advance
    <3>2. /\ judge' = [k \in Examiners |-> judge'[k]]
          /\ \A k \in Examiners \ {j} : judge'[k] = judge[k]
          /\ judge'[j].pc = "promote" /\ judge'[j].exam = judge[j].exam
          /\ judge'[j].student = judge[j].student /\ judge'[j].target = judge[j].target
      BY <3>1
    <3> QED
      BY <2>1, <2>2, <3>2 DEF WouldPromote
  <2>3. CASE ~WouldPromote(j)
    BY <1>4, <2>1, <2>3 DEF ReadRank, NoJudgement
  <2> QED
    BY <2>2, <2>3
<1>5. ASSUME NEW j \in Examiners, Promote(j)
      PROVE  RankInv'
  <2> DEFINE t == judge[j].student
  <2>1. /\ judge[j].pc = "promote" /\ judge' = [judge EXCEPT ![j] = NoJudgement]
        /\ rank' = [rank EXCEPT ![t] = judge[j].target]
        /\ UNCHANGED <<target, edits>>
    BY <1>5 DEF Promote
  <2>2. /\ judge' = [k \in Examiners |-> judge'[k]]
        /\ judge'[j].pc = "idle" /\ \A k \in Examiners \ {j} : judge'[k] = judge[k]
    BY <2>1 DEF NoJudgement
  <2>3. rank' \in [Candidates -> 0..MaxRank] /\ \A s \in Candidates \ {t} : rank'[s] = rank[s]
    BY <2>1 DEF Belts
  <2>4. ASSUME NEW k \in Examiners, judge'[k].pc = "promote"
        PROVE  judge'[k] = judge[k] /\ judge[k].student # t
    <3>1. k # j /\ judge'[k] = judge[k]
      BY <2>2, <2>4
    <3>2. judge[k].exam = judge[j].exam
      BY <2>1, <2>4, <3>1
    <3> QED
      BY <2>1, <2>4, <3>1, <3>2
  <2>5. edits' = 0 => \A k \in Examiners : judge'[k].pc = "promote" =>
           rank'[judge'[k].student] < judge'[k].target
    <3>1. ASSUME edits' = 0, NEW k \in Examiners, judge'[k].pc = "promote"
          PROVE  rank'[judge'[k].student] < judge'[k].target
      BY <2>1, <2>3, <2>4, <3>1
    <3> QED
      BY <3>1
  <2>6. \A k, l \in Examiners :
           (/\ judge'[k].pc \in {"rank", "promote"} /\ judge'[l].pc \in {"rank", "promote"}
            /\ judge'[k].exam = judge'[l].exam /\ judge'[k].student = judge'[l].student)
           => k = l
    BY <2>2
  <2>7. \A k \in Examiners : judge'[k].pc # "idle" =>
           /\ judge'[k].exam \in Exam /\ judge'[k].student \in Candidates
           /\ judge'[k].target \in Belts
    BY <2>2
  <2> QED
    BY <2>1, <2>2, <2>3, <2>5, <2>6, <2>7
<1>6. ASSUME NEW s \in Candidates, NEW r \in Belts, EditRank(s, r)
      PROVE  RankInv'
  BY <1>6 DEF EditRank, Belts
<1>7. ASSUME NEW x \in Exam, UpdateExam(x)
      PROVE  RankInv'
  BY <1>7 DEF UpdateExam
<1>8. ASSUME UNCHANGED <<rank, target, edits, judge>>
      PROVE  RankInv'
  BY <1>8
<1> QED
  BY <1>1, <1>2, <1>3, <1>4, <1>5, <1>6, <1>7, <1>8
  DEF ExamNext, examVars, CheckRegistration, InsertRegistration, IssueFee, AbortRegistration,
      RecordResult,
      DeadlinePasses, ChangeCandidate

\* "A PASS recorded after an earlier promotion must never move the belt down":
\* true of any number of examiners who judge the same exam at once.  With a second
\* exam it is not: recordResult holds the registration, not the student's rank.
THEOREM OneExamNeverLowersBelt ==
    (\A x, y \in Exam : x = y) => (ExamSpec => BeltNeverMovesDown)
<1> SUFFICES ASSUME \A x, y \in Exam : x = y
             PROVE  ExamSpec => BeltNeverMovesDown
  OBVIOUS
<1>1. ExamInit => RankInv
  <2> SUFFICES ASSUME ExamInit
               PROVE  RankInv
    OBVIOUS
  <2>1. \A j \in Examiners : judge[j].pc = "idle"
    BY DEF ExamInit, NoJudgement
  <2>2. rank \in [Candidates -> 0..MaxRank] /\ edits \in Nat /\ target \in [Exam -> Belts]
    BY ExamsAssumption DEF ExamInit
  <2>3. judge = [j \in Examiners |-> judge[j]]
    BY DEF ExamInit
  <2> QED
    BY <2>1, <2>2, <2>3 DEF RankInv
<1>2. RankInv /\ [ExamNext]_examVars => RankInv'
  BY RankInvStep
<1>3. RankInv /\ [ExamNext]_examVars =>
         [edits' = 0 => \A s \in Candidates : rank'[s] >= rank[s]]_examVars
  <2> SUFFICES ASSUME RankInv, [ExamNext]_examVars, edits' = 0, NEW s \in Candidates
               PROVE  rank'[s] >= rank[s]
    OBVIOUS
  <2>1. ASSUME NEW j \in Examiners, Promote(j)
        PROVE  rank'[s] >= rank[s]
    BY <2>1 DEF Promote, RankInv, Belts
  <2>2. ASSUME NEW t \in Candidates, NEW r \in Belts, EditRank(t, r)
        PROVE  FALSE
    BY <2>2 DEF EditRank, RankInv
  <2>3. ASSUME UNCHANGED rank
        PROVE  rank'[s] >= rank[s]
    BY <2>3 DEF RankInv
  <2> QED
    BY <2>1, <2>2, <2>3
    DEF ExamNext, examVars, CheckRegistration, InsertRegistration, IssueFee, AbortRegistration,
        ReadRegistration, RecordResult, RecordFail, WritePass, ReadRank, UpdateExam,
        DeadlinePasses, ChangeCandidate
<1> QED
  BY <1>1, <1>2, <1>3, PTL DEF ExamSpec, BeltNeverMovesDown

=============================================================================
