------------------------------- MODULE Exams -------------------------------
(***************************************************************************)
(* Belt exams: ExamsService.register, update and recordResult, over the    *)
(* tables belt_exams, exam_registrations, student_profiles and the         *)
(* EXAM_FEE invoices that registration issues.                             *)
(*                                                                         *)
(* Grain.  register locks the exam row FOR UPDATE and checks, inserts the  *)
(* registration, then inserts the invoice and commits: three steps, after  *)
(* any of which it may fail.  recordResult runs in a READ COMMITTED        *)
(* transaction without an explicit lock: it reads the registration, writes *)
(* it (from here on it holds the row, a second writer of the same row      *)
(* waits), reads the student's rank, writes the rank and commits.  Each of *)
(* these statements is a step; what is written becomes visible with the    *)
(* commit.                                                                 *)
(*                                                                         *)
(* Data.  A rank is its order_index; 0 is the student without a rank.      *)
(***************************************************************************)
EXTENDS Null, Integers, FiniteSets

CONSTANTS
    Exam, Candidates,
    Desks,      \* register requests that may be in flight together
    Examiners,  \* recordResult requests that may be in flight together
    MaxRank,    \* the highest belt
    MaxPlaces,  \* bound on an exam's capacity
    RankEdits   \* bound on administrator edits of a rank

ASSUME ExamsAssumption ==
    /\ IsFiniteSet(Candidates)
    /\ MaxRank \in Nat
    /\ MaxPlaces \in Nat
    /\ RankEdits \in Nat
    /\ None \notin Exam
    /\ None \notin Candidates
    /\ None \notin Nat

Belts == 1..MaxRank
ExamStatus == {"DRAFT", "OPEN", "CLOSED", "COMPLETED", "CANCELLED"}
Results == {"RESULT_PASS", "RESULT_FAIL"}

\* CANCELLED is in the schema; no code path writes it.
RegistrationStatus == {"ABSENT", "PENDING_PAYMENT", "CANCELLED"} \cup Results

\* A recordResult transaction: about to write the registration, to read the
\* rank, or to write the rank.
Judgement == [pc : {"idle", "write", "rank", "promote"}, exam : Exam \cup {None},
              student : Candidates \cup {None}, result : Results \cup {None},
              target : Belts \cup {None}]

VARIABLES
    examStatus,     \* exam -> status
    examCapacity,   \* exam -> capacity, None when there is no cap
    target,         \* exam -> rank it is for
    late,           \* exams whose registration deadline has passed
    activeProfile,  \* students whose profile is ACTIVE and not deleted
    rank,           \* student -> rank held
    reg,            \* exam -> student -> status of the registration
    examFee,            \* <<exam, student>> pairs with an EXAM_FEE invoice
    desk,           \* register request -> its transaction: registration and statements done
    judge,          \* recordResult request -> its progress
    edits           \* administrator edits of a rank so far

examVars == <<examStatus, examCapacity, target, late, activeProfile, rank, reg, examFee, desk,
              judge, edits>>

NoDesk == [exam |-> None, student |-> None, at |-> "idle"]

NoJudgement == [pc |-> "idle", exam |-> None, student |-> None, result |-> None, target |-> None]

ExamInit ==
    /\ examStatus = [x \in Exam |-> "OPEN"]
    /\ examCapacity \in [Exam -> 1..MaxPlaces \cup {None}]
    /\ target \in [Exam -> Belts]
    /\ late = {}
    /\ activeProfile = Candidates
    /\ rank = [s \in Candidates |-> 0]
    /\ reg = [x \in Exam |-> [s \in Candidates |-> "ABSENT"]]
    /\ examFee = {}
    /\ desk = [d \in Desks |-> NoDesk]
    /\ judge = [j \in Examiners |-> NoJudgement]
    /\ edits = 0

-----------------------------------------------------------------------------
(* register                                                                *)

\* Registrations that take a place.
Registered(x) == {s \in Candidates : reg[x][s] \notin {"ABSENT", "CANCELLED"}}

\* Mutant: register runs without the row lock.
NoExamLock(x) == TRUE

\* Nobody holds the row lock of exam x.
ExamLockFree(x) == \A d \in Desks : desk[d].exam # x

HasPlace(x) == examCapacity[x] # None => Cardinality(Registered(x)) < examCapacity[x]

\* Lock the exam, then every check of register.
CheckRegistration(d, x, s) ==
    /\ desk[d] = NoDesk
    /\ ExamLockFree(x)
    /\ examStatus[x] = "OPEN"
    /\ x \notin late
    /\ s \in activeProfile
    /\ rank[s] < target[x]
    /\ HasPlace(x)
    /\ reg[x][s] = "ABSENT"
    /\ desk' = [desk EXCEPT ![d] = [exam |-> x, student |-> s, at |-> "checked"]]
    /\ UNCHANGED <<examStatus, examCapacity, target, late, activeProfile, rank, reg, examFee,
                   judge, edits>>

Registering(x, s) == [reg EXCEPT ![x] = [reg[x] EXCEPT ![s] = "PENDING_PAYMENT"]]

\* Mutant: the row is inserted outside the transaction, for everybody to see.
SaveAtOnce(x, s) == Registering(x, s)

\* What others see of the inserted row before the commit.
SaveInTransaction(x, s) == reg

InsertRegistration(d) ==
    /\ desk[d].at = "checked"
    /\ reg' = SaveInTransaction(desk[d].exam, desk[d].student)
    /\ desk' = [desk EXCEPT ![d] = [exam |-> desk[d].exam, student |-> desk[d].student,
                                   at |-> "inserted"]]
    /\ UNCHANGED <<examStatus, examCapacity, target, late, activeProfile, rank, examFee, judge,
                   edits>>

\* createExamFeeInvoice, in the caller's transaction, and the commit.
IssueFee(d) ==
    LET x == desk[d].exam
        s == desk[d].student
    IN  /\ desk[d].at = "inserted"
        /\ reg' = Registering(x, s)
        /\ examFee' = examFee \cup {<<x, s>>}
        /\ desk' = [desk EXCEPT ![d] = NoDesk]
        /\ UNCHANGED <<examStatus, examCapacity, target, late, activeProfile, rank, judge, edits>>

\* A statement fails, and with it the transaction: after a clash of invoice
\* numbers createExamFeeInvoice's second attempt can only fail too.
AbortRegistration(d) ==
    /\ desk[d] # NoDesk
    /\ desk' = [desk EXCEPT ![d] = NoDesk]
    /\ UNCHANGED <<examStatus, examCapacity, target, late, activeProfile, rank, reg, examFee,
                   judge, edits>>

-----------------------------------------------------------------------------
(* recordResult                                                            *)

\* The registration and its exam's target are read; final and cancelled
\* registrations are refused.
ReadRegistration(j, x, s, r) ==
    /\ judge[j].pc = "idle"
    /\ reg[x][s] = "PENDING_PAYMENT"
    /\ judge' = [judge EXCEPT ![j] = [pc |-> "write", exam |-> x, student |-> s,
                                      result |-> r, target |-> target[x]]]
    /\ UNCHANGED <<examStatus, examCapacity, target, late, activeProfile, rank, reg, examFee, desk,
                   edits>>

\* Mutant: a second writer does not wait for the first.
RowNeverHeld(x, s) == FALSE

\* Another transaction has written registration <<x, s>> and not committed.
RowHeld(x, s) ==
    \E j \in Examiners : /\ judge[j].pc \in {"rank", "promote"}
                         /\ judge[j].exam = x /\ judge[j].student = s

\* A FAIL is the whole transaction: the write, by id alone, and the commit.
RecordFail(j) ==
    LET x == judge[j].exam
        s == judge[j].student
    IN  /\ judge[j].pc = "write"
        /\ judge[j].result = "RESULT_FAIL"
        /\ ~RowHeld(x, s)
        /\ reg' = [reg EXCEPT ![x] = [reg[x] EXCEPT ![s] = "RESULT_FAIL"]]
        /\ judge' = [judge EXCEPT ![j] = NoJudgement]
        /\ UNCHANGED <<examStatus, examCapacity, target, late, activeProfile, rank, examFee, desk,
                       edits>>

Advance(j, pc) ==
    judge' = [judge EXCEPT ![j] = [pc |-> pc, exam |-> judge[j].exam,
                                   student |-> judge[j].student,
                                   result |-> judge[j].result,
                                   target |-> judge[j].target]]

\* A PASS writes the registration and goes on to the rank.
WritePass(j) ==
    /\ judge[j].pc = "write"
    /\ judge[j].result = "RESULT_PASS"
    /\ ~RowHeld(judge[j].exam, judge[j].student)
    /\ Advance(j, "rank")
    /\ UNCHANGED <<examStatus, examCapacity, target, late, activeProfile, rank, reg, examFee, desk,
                   edits>>

\* The rank held now is below the target.
WouldPromote(j) == rank[judge[j].student] < judge[j].target

\* The rank is read again: go on, or roll back with 409.
ReadRank(j) ==
    /\ judge[j].pc = "rank"
    /\ IF WouldPromote(j)
       THEN Advance(j, "promote")
       ELSE judge' = [judge EXCEPT ![j] = NoJudgement]
    /\ UNCHANGED <<examStatus, examCapacity, target, late, activeProfile, rank, reg, examFee, desk,
                   edits>>

\* The rank is written and the transaction commits.
Promote(j) ==
    LET x == judge[j].exam
        s == judge[j].student
    IN  /\ judge[j].pc = "promote"
        /\ reg' = [reg EXCEPT ![x] = [reg[x] EXCEPT ![s] = "RESULT_PASS"]]
        /\ rank' = [rank EXCEPT ![s] = judge[j].target]
        /\ judge' = [judge EXCEPT ![j] = NoJudgement]
        /\ UNCHANGED <<examStatus, examCapacity, target, late, activeProfile, examFee, desk,
                       edits>>

-----------------------------------------------------------------------------
(* Administration and the rest of the world                                *)

\* ExamsService.update changes one field; the UPDATE waits for the row lock
\* and compares neither capacity nor target with the registrations.
UpdateExam(x) ==
    /\ ExamLockFree(x)
    /\ \/ /\ examStatus' \in {[examStatus EXCEPT ![x] = v] : v \in ExamStatus}
          /\ UNCHANGED <<examCapacity, target>>
       \/ /\ examCapacity' \in {[examCapacity EXCEPT ![x] = n] : n \in 1..MaxPlaces}
          /\ UNCHANGED <<examStatus, target>>
       \/ /\ target' \in {[target EXCEPT ![x] = r] : r \in Belts}
          /\ UNCHANGED <<examStatus, examCapacity>>
    /\ UNCHANGED <<late, activeProfile, rank, reg, examFee, desk, judge, edits>>

DeadlinePasses(x) ==
    /\ late' = late \cup {x}
    /\ UNCHANGED <<examStatus, examCapacity, target, activeProfile, rank, reg, examFee, desk,
                   judge, edits>>

\* StudentsService.update and softDelete, seen from here.
ChangeCandidate(s) ==
    /\ activeProfile' = IF s \in activeProfile THEN activeProfile \ {s} ELSE activeProfile \cup {s}
    /\ UNCHANGED <<examStatus, examCapacity, target, late, rank, reg, examFee, desk, judge, edits>>

EditRank(s, r) ==
    /\ edits < RankEdits
    /\ edits' = edits + 1
    /\ rank' = [rank EXCEPT ![s] = r]
    /\ UNCHANGED <<examStatus, examCapacity, target, late, activeProfile, reg, examFee, desk,
                   judge>>

RecordResult(j) == RecordFail(j) \/ WritePass(j) \/ ReadRank(j) \/ Promote(j)

ExamNext ==
    \/ \E d \in Desks, x \in Exam, s \in Candidates : CheckRegistration(d, x, s)
    \/ \E d \in Desks : InsertRegistration(d)
    \/ \E d \in Desks : IssueFee(d)
    \/ \E d \in Desks : AbortRegistration(d)
    \/ \E j \in Examiners, x \in Exam, s \in Candidates, r \in Results :
          ReadRegistration(j, x, s, r)
    \/ \E j \in Examiners : RecordResult(j)
    \/ \E x \in Exam : UpdateExam(x)
    \/ \E x \in Exam : DeadlinePasses(x)
    \/ \E s \in Candidates : ChangeCandidate(s)
    \/ \E s \in Candidates, r \in Belts : EditRank(s, r)

ExamSpec == ExamInit /\ [][ExamNext]_examVars

-----------------------------------------------------------------------------
(* Properties                                                              *)

\* No registration exceeds the capacity in force when it commits, or enters an
\* exam that is not open.
RegisteringNeverOverbooks ==
    [][\A x \in Exam :
          Cardinality(Registered(x)') > Cardinality(Registered(x)) =>
             /\ examStatus[x] = "OPEN"
             /\ examCapacity[x] # None => Cardinality(Registered(x)') <= examCapacity[x]]_examVars

\* A registration and its EXAM_FEE invoice exist together or not at all.
FeeWithRegistration ==
    \A x \in Exam, s \in Candidates : <<x, s>> \in examFee <=> reg[x][s] # "ABSENT"

\* "A PASS recorded after an earlier promotion must never move the belt down":
\* as long as no administrator edits a rank, recording results never lowers one.
BeltNeverMovesDown == [][edits' = 0 => \A s \in Candidates : rank'[s] >= rank[s]]_examVars

=============================================================================
