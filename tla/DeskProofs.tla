----------------------------- MODULE DeskProofs -----------------------------
(***************************************************************************)
(* Theorems about the services of the desk, for any number of users,       *)
(* students, rows and operations in flight, with all of them at work.      *)
(***************************************************************************)
EXTENDS Desk, Sums, FiniteSetTheorems, TLAPS

-----------------------------------------------------------------------------
(* The desk and its parts                                                  *)

\* A step of the desk is, for each service, one of its own steps or none.
LEMMA PartsStep ==
    ASSUME [DeskNext]_deskVars
    PROVE  /\ [Next]_vars
           /\ [Leave!Next]_Leave!vars
           /\ [Promotion!Next]_Promotion!vars
           /\ [Evaluation!Next]_Evaluation!vars
           /\ [Roll!Next]_Roll!vars
           /\ [Consents!Next]_Consents!vars
           /\ [Board!Next]_Board!vars
<1> USE DEF Leave!vars, Promotion!vars, Evaluation!vars, Roll!vars, Consents!vars, Board!vars,
            leaveVars, promotionVars, evaluationVars, rollVars, consentVars, boardVars
<1>1. CASE UNCHANGED deskVars
  BY <1>1 DEF deskVars
<1>2. CASE EnrollmentStep
  BY <1>2 DEF EnrollmentStep
<1>3. CASE LeaveStep
  BY <1>3 DEF LeaveStep
<1>4. CASE PromotionStep
  BY <1>4 DEF PromotionStep
<1>5. CASE EvaluationStep
  BY <1>5 DEF EvaluationStep
<1>6. CASE RollStep
  BY <1>6 DEF RollStep
<1>7. CASE ConsentStep
  BY <1>7 DEF ConsentStep
<1>8. CASE BoardStep
  BY <1>8 DEF BoardStep
<1> QED
  BY <1>1, <1>2, <1>3, <1>4, <1>5, <1>6, <1>7, <1>8 DEF DeskNext

\* The services share the database without disturbing each other: a behaviour of
\* the whole desk is a behaviour of each service's own specification.
THEOREM DeskImplementsParts ==
    DeskSpec => Spec /\ Leave!Spec /\ Promotion!Spec /\ Evaluation!Spec /\ Roll!Spec
                /\ Consents!Spec /\ Board!Spec
<1>1. DeskInit => Init /\ Leave!Init /\ Promotion!Init /\ Evaluation!Init /\ Roll!Init
                  /\ Consents!Init /\ Board!Init
  BY DEF DeskInit
<1>2. [DeskNext]_deskVars =>
        /\ [Next]_vars /\ [Leave!Next]_Leave!vars /\ [Promotion!Next]_Promotion!vars
        /\ [Evaluation!Next]_Evaluation!vars /\ [Roll!Next]_Roll!vars
        /\ [Consents!Next]_Consents!vars /\ [Board!Next]_Board!vars
  BY PartsStep
<1> QED
  BY <1>1, <1>2, PTL
  DEF DeskSpec, Spec, Leave!Spec, Promotion!Spec, Evaluation!Spec, Roll!Spec, Consents!Spec,
      Board!Spec

-----------------------------------------------------------------------------
(* Enrolments                                                              *)

\* What the row lock means for the creates in flight, and what a row is.
LockHeld ==
    /\ \A k \in Clerks : create[k] # NoCreate =>
          create[k].class \in Classes /\ create[k].student \in Students
    /\ \A k, l \in Clerks : create[k].class \in Classes /\ create[k].class = create[l].class =>
          k = l
    /\ \A u \in Editors : edit[u] # NoEdit =>
          edit[u].class \in Classes /\ edit[u].capacity \in Capacities

EnrollmentInv == TypeOK /\ LockHeld /\ ChecksHoldUnderLock

-----------------------------------------------------------------------------
(* Counting members                                                        *)

\* The number of members is a number, and the members are a finite set.
LEMMA ActiveFinite ==
    \A c : /\ IsFiniteSet(Active(c)) /\ Cardinality(Active(c)) \in Nat
           /\ IsFiniteSet(Active(c)') /\ Cardinality(Active(c)') \in Nat
<1> SUFFICES ASSUME NEW c
             PROVE  /\ IsFiniteSet(Active(c)) /\ Cardinality(Active(c)) \in Nat
                    /\ IsFiniteSet(Active(c)') /\ Cardinality(Active(c)') \in Nat
    OBVIOUS
<1>1. Active(c) \subseteq Rows /\ Active(c)' \subseteq Rows
    BY DEF Active
<1>2. IsFiniteSet(Active(c)) /\ IsFiniteSet(Active(c)')
    BY <1>1, EnrollmentsAssumption, FS_Subset
<1> QED
    BY <1>2, FS_CardinalityType

\* Where no row changes hands the count stays.
LEMMA SameMembers ==
    ASSUME UNCHANGED enrollment
    PROVE  \A c : Active(c)' = Active(c)
  BY DEF Active

\* An insert adds one member to the class of the create, and to no other.
LEMMA InsertAddsOne ==
    ASSUME EnrollmentInv, NEW k \in Clerks, NEW r \in Rows, InsertEnrollment(k, r), NEW c
    PROVE  IF c = create[k].class THEN Cardinality(Active(c)') = Cardinality(Active(c)) + 1
                                  ELSE Active(c)' = Active(c)
<1> USE DEF EnrollmentInv, TypeOK, Enrollment
<1>1. enrollment[r].state = "ABSENT" /\ enrollment' = [enrollment EXCEPT ![r] = NewEnrollment(k)]
    BY DEF InsertEnrollment
<1>2. CASE c = create[k].class
  <2>1. Active(c)' = Active(c) \cup {r}
      BY <1>1, <1>2 DEF Active, NewEnrollment
  <2>2. r \notin Active(c)
      BY <1>1 DEF Active
  <2> QED
      BY <1>2, <2>1, <2>2, ActiveFinite, FS_AddElement
<1>3. CASE c # create[k].class
  <2>1. Active(c)' = Active(c)
      BY <1>1, <1>3 DEF Active, NewEnrollment
  <2> QED
      BY <1>3, <2>1
<1> QED
    BY <1>2, <1>3

\* A removal adds no member to any class.
LEMMA RemoveAddsNone ==
    ASSUME EnrollmentInv, NEW r \in Rows, RemoveEnrollment(r)
    PROVE  \A c : Cardinality(Active(c)') <= Cardinality(Active(c))
<1> SUFFICES ASSUME NEW c
             PROVE  Cardinality(Active(c)') <= Cardinality(Active(c))
    OBVIOUS
<1>1. Active(c)' \subseteq Active(c)
    BY DEF EnrollmentInv, TypeOK, Enrollment, RemoveEnrollment, Active
<1> QED
    BY <1>1, ActiveFinite, FS_Subset

-----------------------------------------------------------------------------
(* The inductive invariant                                                 *)

\* The system starts without members and requests.
LEMMA EnrollmentInvInit == Init => EnrollmentInv
  BY EnrollmentsAssumption
  DEF Init, EnrollmentInv, TypeOK, LockHeld, ChecksHoldUnderLock, NoRow, NoCreate, NoEdit,
      Enrollment, Capacities, ClassStatus

\* Every request, edit and the clock keep the invariant.
LEMMA EnrollmentInvStep == EnrollmentInv /\ [Next]_vars => EnrollmentInv'
<1> USE EnrollmentsAssumption
    DEF EnrollmentInv, TypeOK, LockHeld, Enrollment, Capacities, ClassStatus, NoCreate, NoEdit
<1> SUFFICES ASSUME EnrollmentInv, [Next]_vars
             PROVE  EnrollmentInv'
    OBVIOUS
<1>1. ASSUME NEW k \in Clerks, NEW s \in Students, NEW c \in Classes, CheckEnrollment(k, s, c)
      PROVE  EnrollmentInv'
  <2>1. TypeOK' /\ LockHeld'
      BY <1>1 DEF CheckEnrollment, LockFree
  <2>2. ChecksHoldUnderLock'
      BY <1>1, SameMembers
      DEF CheckEnrollment, ChecksHoldUnderLock, HasRoom, History
  <2> QED
      BY <2>1, <2>2
<1>2. ASSUME NEW k \in Clerks, NEW r \in Rows, InsertEnrollment(k, r)
      PROVE  EnrollmentInv'
  <2>1. TypeOK' /\ LockHeld'
      BY <1>2 DEF InsertEnrollment, NewEnrollment
  <2>2. ASSUME NEW l \in Clerks, create'[l] # NoCreate
        PROVE  /\ create'[l] = create[l] /\ create[l] # NoCreate
               /\ create[l].class # create[k].class
      BY <1>2, <2>2 DEF InsertEnrollment
  <2>3. ASSUME NEW l \in Clerks, create'[l] # NoCreate
        PROVE  HasRoom(create[l].class)'
    <3>1. PICK c \in Classes : c = create[l].class
        BY <2>2, <2>3
    <3>2. HasRoom(c) /\ c # create[k].class
        BY <2>2, <2>3, <3>1 DEF ChecksHoldUnderLock
    <3>3. Active(c)' = Active(c) /\ capacity' = capacity
        BY <1>2, <3>2, InsertAddsOne DEF InsertEnrollment
    <3> QED
        BY <2>2, <2>3, <3>1, <3>2, <3>3 DEF HasRoom
  <2>4. ASSUME NEW l \in Clerks, create'[l] # NoCreate
        PROVE  \A q \in History(create[l].student, create[l].class)' :
                  enrollment'[q].state # "OPEN" /\ enrollment'[q].day # create'[l].day
      BY <1>2, <2>2, <2>4
      DEF InsertEnrollment, NewEnrollment, ChecksHoldUnderLock, History
  <2>5. ChecksHoldUnderLock'
      BY <1>2, <2>2, <2>3, <2>4 DEF InsertEnrollment, ChecksHoldUnderLock
  <2> QED
      BY <2>1, <2>5
<1>3. ASSUME NEW k \in Clerks, AbortEnrollment(k)
      PROVE  EnrollmentInv'
    BY <1>3, SameMembers DEF AbortEnrollment, ChecksHoldUnderLock, HasRoom, History
<1>4. ASSUME NEW r \in Rows, RemoveEnrollment(r)
      PROVE  EnrollmentInv'
  <2>1. TypeOK' /\ LockHeld'
      BY <1>4 DEF RemoveEnrollment
  <2>2. ASSUME NEW c \in Classes, HasRoom(c)
        PROVE  HasRoom(c)'
    <3>1. Cardinality(Active(c)') <= Cardinality(Active(c)) /\ capacity' = capacity
        BY <1>4, RemoveAddsNone DEF RemoveEnrollment
    <3> QED
        BY <2>2, <3>1, ActiveFinite DEF HasRoom
  <2>3. ChecksHoldUnderLock'
      BY <1>4, <2>2 DEF RemoveEnrollment, ChecksHoldUnderLock, History
  <2> QED
      BY <2>1, <2>3
<1>5. ASSUME NEW u \in Editors, NEW c \in Classes, NEW n \in Capacities, CheckCapacity(u, c, n)
      PROVE  EnrollmentInv'
    BY <1>5, SameMembers DEF CheckCapacity, ChecksHoldUnderLock, HasRoom, History
<1>6. ASSUME NEW u \in Editors, WriteCapacity(u)
      PROVE  EnrollmentInv'
    BY <1>6, SameMembers DEF WriteCapacity, LockFree, ChecksHoldUnderLock, HasRoom, History
<1>7. ASSUME NEW c \in Classes, NEW v \in ClassStatus, WriteStatus(c, v)
      PROVE  EnrollmentInv'
    BY <1>7, SameMembers DEF WriteStatus, LockFree, ChecksHoldUnderLock, HasRoom, History
<1>8. ASSUME NEW s \in Students, ChangeProfile(s)
      PROVE  EnrollmentInv'
    BY <1>8, SameMembers DEF ChangeProfile, ChecksHoldUnderLock, HasRoom, History
<1>9. CASE Midnight
    BY <1>9, SameMembers DEF Midnight, ChecksHoldUnderLock, HasRoom, History
<1>10. CASE UNCHANGED vars
    BY <1>10, SameMembers DEF vars, ChecksHoldUnderLock, HasRoom, History
<1> QED
    BY <1>1, <1>2, <1>3, <1>4, <1>5, <1>6, <1>7, <1>8, <1>9, <1>10 DEF Next

\* The invariant holds throughout.
THEOREM EnrollmentsInvariant == Spec => []EnrollmentInv
  BY EnrollmentInvInit, EnrollmentInvStep, PTL DEF Spec

\* What create checked still holds when it inserts: the row lock of the class
\* is enough, whatever removals, profile changes and class updates do.
THEOREM ChecksAreStable == Spec => []ChecksHoldUnderLock
<1>1. EnrollmentInv => ChecksHoldUnderLock
    BY DEF EnrollmentInv
<1> QED
    BY <1>1, EnrollmentsInvariant, PTL

\* No create takes a class beyond the capacity in force, or enters a class
\* that is not active.
THEOREM NeverOverbooked == Spec => EnrollingNeverOverbooks
<1> DEFINE Fit ==
      \A c \in Classes :
          Cardinality(Active(c)') > Cardinality(Active(c)) =>
             /\ Cardinality(Active(c)') <= capacity[c]
             /\ status[c] = "ACTIVE"
<1>1. EnrollmentInv /\ [Next]_vars => [Fit]_vars
  <2> DEFINE InRoom(c) == Cardinality(Active(c)') <= capacity[c] /\ status[c] = "ACTIVE"
  <2> SUFFICES ASSUME EnrollmentInv, [Next]_vars, NEW c \in Classes,
                      Cardinality(Active(c)') > Cardinality(Active(c))
               PROVE  InRoom(c)
      OBVIOUS
  <2>1. ASSUME NEW k \in Clerks, NEW r \in Rows, InsertEnrollment(k, r)
        PROVE  InRoom(c)
    <3>1. c = create[k].class /\ Cardinality(Active(c)') = Cardinality(Active(c)) + 1
        BY <2>1, InsertAddsOne, ActiveFinite
    <3>2. HasRoom(c) /\ status[c] = "ACTIVE"
        BY <2>1, <3>1 DEF EnrollmentInv, ChecksHoldUnderLock, InsertEnrollment
    <3> QED
        BY <3>1, <3>2, ActiveFinite DEF HasRoom, EnrollmentInv, TypeOK, Capacities
  <2>2. ASSUME NEW r \in Rows, RemoveEnrollment(r)
        PROVE  FALSE
      BY <2>2, RemoveAddsNone, ActiveFinite
  <2>3. ASSUME UNCHANGED enrollment
        PROVE  FALSE
      BY <2>3, SameMembers, ActiveFinite
  <2> QED
      BY <2>1, <2>2, <2>3
      DEF Next, vars, CheckEnrollment, AbortEnrollment, CheckCapacity, WriteCapacity,
          WriteStatus, ChangeProfile, Midnight
<1> QED
    BY <1>1, EnrollmentsInvariant, PTL DEF Spec, EnrollingNeverOverbooks

\* A student has at most one open row in a class, and one row per class and
\* day, although the schema's unique index is on the full time stamp.
THEOREM RowsAreUnique == Spec => []OneOpenRowOneRowPerDay
<1> USE DEF OneOpenRowOneRowPerDay
<1>1. Init => OneOpenRowOneRowPerDay
    BY DEF Init, NoRow
<1>2. EnrollmentInv /\ OneOpenRowOneRowPerDay /\ [Next]_vars => OneOpenRowOneRowPerDay'
  <2> SUFFICES ASSUME EnrollmentInv, OneOpenRowOneRowPerDay, [Next]_vars
               PROVE  OneOpenRowOneRowPerDay'
      OBVIOUS
  <2>1. ASSUME NEW k \in Clerks, NEW r \in Rows, InsertEnrollment(k, r)
        PROVE  OneOpenRowOneRowPerDay'
      BY <2>1 DEF InsertEnrollment, NewEnrollment, EnrollmentInv, TypeOK, ChecksHoldUnderLock, History
  <2>2. ASSUME NEW r \in Rows, RemoveEnrollment(r)
        PROVE  OneOpenRowOneRowPerDay'
      BY <2>2 DEF RemoveEnrollment, EnrollmentInv, TypeOK
  <2>3. ASSUME UNCHANGED enrollment
        PROVE  OneOpenRowOneRowPerDay'
      BY <2>3
  <2> QED
      BY <2>1, <2>2, <2>3
      DEF Next, vars, CheckEnrollment, AbortEnrollment, CheckCapacity, WriteCapacity,
          WriteStatus, ChangeProfile, Midnight
<1> QED
    BY <1>1, <1>2, EnrollmentsInvariant, PTL DEF Spec

-----------------------------------------------------------------------------
(* Leave requests                                                          *)

\* A decision in flight is one its user is entitled to, on a row that was inserted
\* and whose class nothing rewrites.
LeaveInv ==
    /\ leave = [r \in LeaveRows |-> leave[r]]
    /\ leaveOp = [u \in LeaveUsers |-> leaveOp[u]]
    /\ \A u \in LeaveUsers : leaveOp[u].kind = "DECIDE" =>
          /\ leaveOp[u].row \in LeaveRows
          /\ leave[leaveOp[u].row].status # "ABSENT"
          /\ leaveOp[u].status \in Leave!Decided
          /\ leaveOp[u].status \in Leave!Verdicts =>
                Role[u] = "ADMIN" \/ Instructor[leave[leaveOp[u].row].class] = u
    /\ Leave!VerdictsAreSigned

\* Each operation of LeavesService keeps it.
LEMMA LeaveInvStep == LeaveInv /\ [Leave!Next]_Leave!vars => LeaveInv'
<1> SUFFICES ASSUME LeaveInv, [Leave!Next]_Leave!vars PROVE LeaveInv'
  OBVIOUS
<1> USE DEF LeaveInv, Leave!VerdictsAreSigned
<1>1. CASE UNCHANGED Leave!vars
  BY <1>1 DEF Leave!vars
<1>2. ASSUME NEW u \in LeaveUsers, NEW s \in FileStudents, NEW c \in Classes, NEW day \in 0..MaxDay,
             Leave!CheckCreate(u, s, c, day)
      PROVE  LeaveInv'
  BY <1>2 DEF Leave!CheckCreate, Leave!world
<1>3. ASSUME NEW u \in LeaveUsers, NEW r \in LeaveRows, Leave!InsertRequest(u, r)
      PROVE  LeaveInv'
  <2> DEFINE new == [status |-> "PENDING", student |-> leaveOp[u].student,
                     class |-> leaveOp[u].class, day |-> leaveOp[u].day, by |-> u,
                     reviewer |-> None]
  <2>1. /\ leave[r].status = "ABSENT"
        /\ leave' = [leave EXCEPT ![r] = new]
        /\ leaveOp' = [leaveOp EXCEPT ![u] = Leave!Idle]
    BY <1>3 DEF Leave!InsertRequest
  <2>2. new.status = "PENDING" /\ new.reviewer = None
    OBVIOUS
  <2> HIDE DEF new
  <2>3. \A q \in LeaveRows : leave'[q] = IF q = r THEN new ELSE leave[q]
    BY <2>1
  <2> QED
    BY <2>1, <2>2, <2>3 DEF Leave!Idle, Leave!Verdicts
<1>4. ASSUME NEW u \in LeaveUsers, NEW r \in LeaveRows, Leave!CheckCancel(u, r)
      PROVE  LeaveInv'
  BY <1>4 DEF Leave!CheckCancel, Leave!MayCancel, Leave!world, Leave!Decided, Leave!Verdicts
<1>5. ASSUME NEW u \in LeaveUsers, NEW r \in LeaveRows, Leave!Delete(u, r)
      PROVE  LeaveInv'
  <2> DEFINE gone == Leave!WithStatus(r, "DELETED")
  <2>1. leave' = [leave EXCEPT ![r] = gone] /\ leaveOp' = leaveOp
    BY <1>5 DEF Leave!Delete
  <2>2. gone.status = "DELETED" /\ gone.class = leave[r].class
    BY DEF Leave!WithStatus
  <2> HIDE DEF gone
  <2>3. \A q \in LeaveRows : leave'[q] = IF q = r THEN gone ELSE leave[q]
    BY <2>1
  <2> QED
    BY <2>1, <2>2, <2>3 DEF Leave!Verdicts
<1>6. ASSUME NEW u \in LeaveUsers, Leave!RefuseRequest(u)
      PROVE  LeaveInv'
  BY <1>6 DEF Leave!RefuseRequest, Leave!Idle
<1>7. ASSUME NEW u \in LeaveUsers, Leave!Decide(u)
      PROVE  LeaveInv'
  <2> DEFINE row == leaveOp[u].row
             new == Leave!Written(u)
  <2>1. /\ leaveOp[u].kind = "DECIDE"
        /\ leave' = IF Leave!Stored(row) THEN [leave EXCEPT ![row] = new] ELSE leave
        /\ leaveOp' = [leaveOp EXCEPT ![u] = Leave!Idle]
    BY <1>7 DEF Leave!Decide
  <2>2. /\ new.status = leaveOp[u].status /\ new.class = leave[row].class
        /\ new.status \in Leave!Verdicts => new.reviewer = u
    BY DEF Leave!Written, Leave!Verdicts
  <2>3. row \in LeaveRows /\ new.status \in Leave!Decided
    BY <2>1, <2>2
  <2> HIDE DEF new
  <2>4. \A q \in LeaveRows : (leave'[q] = new /\ q = row) \/ leave'[q] = leave[q]
    BY <2>1, <2>3
  <2> QED
    BY <2>1, <2>2, <2>3, <2>4 DEF Leave!Idle, Leave!Decided, Leave!Verdicts
<1>8. ASSUME NEW u \in LeaveUsers, NEW r \in LeaveRows, NEW verdict \in Leave!Verdicts,
             Leave!CheckReview(u, r, verdict)
      PROVE  LeaveInv'
  BY <1>8 DEF Leave!CheckReview, Leave!MayReview, Leave!Decided
<1>9. ASSUME (\E s \in FileStudents, c \in Classes : Leave!EndEnrollment(s, c))
                \/ (\E c \in Classes : Leave!ChangeClass(c)) \/ Leave!Midnight
      PROVE  LeaveInv'
  BY <1>9 DEF Leave!EndEnrollment, Leave!ChangeClass, Leave!Midnight
<1> QED
  BY <1>1, <1>2, <1>3, <1>4, <1>5, <1>6, <1>7, <1>8, <1>9 DEF Leave!Next

\* An approval or rejection carries the name of a user entitled to give it, however
\* many reviews, cancels and deletions of the request are in flight.
THEOREM VerdictsAreEntitled == DeskSpec => []VerdictsAreSigned
<1>1. Leave!Init => LeaveInv
  BY DEF Leave!Init, LeaveInv, Leave!VerdictsAreSigned, Leave!NoRow, Leave!Idle, Leave!Verdicts
<1>2. LeaveInv /\ [Leave!Next]_Leave!vars => LeaveInv'
  BY LeaveInvStep
<1>3. LeaveInv => VerdictsAreSigned
  BY DEF LeaveInv, VerdictsAreSigned
<1> QED
  BY <1>1, <1>2, <1>3, DeskImplementsParts, PTL DEF Leave!Spec

-----------------------------------------------------------------------------
(* Promotion proposals                                                     *)

\* Reviews in flight are administrators', and reviewed proposals carry the name of
\* one.
ProposalInv ==
    /\ proposal = [r \in ProposalRows |-> proposal[r]]
    /\ proposalOp = [u \in ProposalUsers |-> proposalOp[u]]
    /\ \A u \in ProposalUsers : proposalOp[u].kind = "REVIEW" =>
          proposalOp[u].status \in Promotion!Verdicts /\ Role[u] = "ADMIN"
    /\ \A r \in ProposalRows : proposal[r].status \in Promotion!Verdicts =>
          proposal[r].reviewer \in ProposalUsers /\ Role[proposal[r].reviewer] = "ADMIN"

\* What ReviewsAreKept asks of one step for one proposal.
Kept(r) ==
    proposal[r].status \in Promotion!Verdicts =>
        /\ proposal'[r].status \in Promotion!Verdicts
        /\ proposal'[r].reviewer \in ProposalUsers
        /\ Role[proposal'[r].reviewer] = "ADMIN"

\* Each operation of PromotionsService keeps the invariant, and every review.
LEMMA ProposalInvStep ==
    ASSUME ProposalInv, [Promotion!Next]_Promotion!vars
    PROVE  ProposalInv' /\ \A r \in ProposalRows : Kept(r)
<1> USE DEF ProposalInv, Kept
<1>1. CASE UNCHANGED Promotion!vars
  BY <1>1 DEF Promotion!vars
<1>2. ASSUME NEW u \in ProposalUsers, NEW s \in FileStudents, NEW rank \in Ranks,
             NEW note \in Notes, Promotion!CheckProposal(u, s, rank, note)
      PROVE  ProposalInv' /\ proposal' = proposal
  BY <1>2 DEF Promotion!CheckProposal
<1>3. ASSUME NEW u \in ProposalUsers, NEW q \in ProposalRows, Promotion!InsertProposal(u, q)
      PROVE  ProposalInv' /\ \A r \in ProposalRows : Kept(r)
  <2>1. /\ proposal[q].status = "ABSENT" /\ proposal'[q].status = "PENDING"
        /\ proposal' = [r \in ProposalRows |-> proposal'[r]]
        /\ \A r \in ProposalRows \ {q} : proposal'[r] = proposal[r]
    BY <1>3 DEF Promotion!InsertProposal
  <2> QED
    BY <1>3, <2>1 DEF Promotion!InsertProposal, Promotion!Idle, Promotion!Verdicts
<1>4. ASSUME NEW u \in ProposalUsers, NEW q \in ProposalRows, NEW note \in Notes,
             Promotion!CheckNote(u, q, note)
      PROVE  ProposalInv' /\ proposal' = proposal
  BY <1>4 DEF Promotion!CheckNote
<1>5. ASSUME NEW u \in ProposalUsers, NEW q \in ProposalRows, NEW verdict \in Promotion!Verdicts,
             Promotion!CheckReview(u, q, verdict)
      PROVE  ProposalInv' /\ proposal' = proposal
  BY <1>5 DEF Promotion!CheckReview
<1>6. ASSUME NEW u \in ProposalUsers, Promotion!WriteNote(u)
      PROVE  ProposalInv' /\ \A r \in ProposalRows : Kept(r)
  <2>1. /\ proposal' = [r \in ProposalRows |-> proposal'[r]]
        /\ \A r \in ProposalRows : /\ proposal'[r].status = proposal[r].status
                                   /\ proposal'[r].reviewer = proposal[r].reviewer
    BY <1>6 DEF Promotion!WriteNote
  <2> QED
    BY <1>6, <2>1 DEF Promotion!WriteNote, Promotion!Idle
<1>7. ASSUME NEW u \in ProposalUsers, Promotion!WriteReview(u)
      PROVE  ProposalInv' /\ \A r \in ProposalRows : Kept(r)
  <2>1. /\ Role[u] = "ADMIN"
        /\ proposal' = [r \in ProposalRows |-> proposal'[r]]
        /\ \A r \in ProposalRows :
              \/ proposal'[r] = proposal[r]
              \/ proposal'[r].status \in Promotion!Verdicts /\ proposal'[r].reviewer = u
    BY <1>7 DEF Promotion!WriteReview
  <2> QED
    BY <1>7, <2>1 DEF Promotion!WriteReview, Promotion!Idle
<1>8. ASSUME NEW s \in FileStudents, NEW rank \in Ranks, Promotion!PassExam(s, rank)
      PROVE  ProposalInv' /\ proposal' = proposal
  BY <1>8 DEF Promotion!PassExam
<1> QED
  BY <1>1, <1>2, <1>3, <1>4, <1>5, <1>6, <1>7, <1>8 DEF Promotion!Next

\* A reviewed proposal never turns back to pending and never loses the name of the
\* administrator who reviewed it, whatever edits and reviews are in flight.
THEOREM ReviewsAreNeverUndone == DeskSpec => ReviewsAreKept
<1>1. Promotion!Init => ProposalInv
  BY DEF Promotion!Init, ProposalInv, Promotion!NoRow, Promotion!Idle, Promotion!Verdicts
<1>2. ProposalInv /\ [Promotion!Next]_Promotion!vars => ProposalInv'
  BY ProposalInvStep
<1>3. ProposalInv /\ [Promotion!Next]_Promotion!vars =>
        [\A r \in ProposalRows : proposal[r].status \in Promotion!Verdicts =>
            /\ proposal'[r].status \in Promotion!Verdicts
            /\ proposal'[r].reviewer \in ProposalUsers
            /\ Role[proposal'[r].reviewer] = "ADMIN"]_Promotion!vars
  BY ProposalInvStep DEF Kept
<1> QED
  BY <1>1, <1>2, <1>3, DeskImplementsParts, PTL
  DEF Promotion!Spec, Promotion!ReviewsAreKept, ReviewsAreKept

-----------------------------------------------------------------------------
(* Evaluations                                                             *)

\* A change that passed its check is one of the author or of an administrator,
\* and stays so: nothing rewrites the author of a row.
EvaluationInv ==
    /\ evaluation = [r \in EvaluationRows |-> evaluation[r]]
    /\ evaluationOp = [u \in EvaluationUsers |-> evaluationOp[u]]
    /\ \A u \in EvaluationUsers : evaluationOp[u].kind \in {"UPDATE", "DELETE"} =>
          /\ evaluationOp[u].row \in EvaluationRows
          /\ evaluation[evaluationOp[u].row].state # "ABSENT"
          /\ Role[u] = "ADMIN" \/ evaluation[evaluationOp[u].row].by = u
    /\ \A u \in EvaluationUsers : evaluationOp[u].kind = "CREATE" =>
          Evaluation!MayName(u, evaluationOp[u].class)
    /\ Evaluation!EvaluationsAreTheAuthors

\* Each operation of EvaluationsService keeps it.
LEMMA EvaluationInvStep ==
    EvaluationInv /\ [Evaluation!Next]_Evaluation!vars => EvaluationInv'
<1> SUFFICES ASSUME EvaluationInv, [Evaluation!Next]_Evaluation!vars
             PROVE  EvaluationInv'
  OBVIOUS
<1> USE DEF EvaluationInv, Evaluation!EvaluationsAreTheAuthors, Evaluation!Stored
<1>1. CASE UNCHANGED Evaluation!vars
  BY <1>1 DEF Evaluation!vars
<1>2. ASSUME NEW u \in EvaluationUsers, NEW s \in FileStudents, NEW c \in Classes \cup {None},
             NEW period \in Periods \cup {0}, NEW rating \in Ratings,
             Evaluation!CheckCreate(u, s, c, period, rating)
      PROVE  EvaluationInv'
  BY <1>2 DEF Evaluation!CheckCreate
<1>3. ASSUME NEW u \in EvaluationUsers, NEW r \in EvaluationRows, Evaluation!Insert(u, r)
      PROVE  EvaluationInv'
  <2>1. CASE Evaluation!Taken(u)
    BY <1>3, <2>1 DEF Evaluation!Insert, Evaluation!Idle
  <2>2. CASE ~Evaluation!Taken(u)
    <3>1. evaluation' = [evaluation EXCEPT ![r] =
            [state |-> "STORED", student |-> evaluationOp[u].student, by |-> u,
             class |-> evaluationOp[u].class, period |-> evaluationOp[u].period,
             rating |-> evaluationOp[u].rating, writer |-> u]]
      BY <1>3, <2>2 DEF Evaluation!Insert
    <3>2. evaluationOp' = [evaluationOp EXCEPT ![u] = Evaluation!Idle]
      BY <1>3 DEF Evaluation!Insert
    <3>3. \A v \in EvaluationUsers : evaluationOp[v].kind \in {"UPDATE", "DELETE"} =>
             evaluationOp[v].row # r
      BY <1>3 DEF Evaluation!Insert
    <3>4. Evaluation!EvaluationsAreTheAuthors'
      <4>1. Evaluation!MayName(u, evaluationOp[u].class)
        BY <1>3 DEF Evaluation!Insert
      <4>2. \A q \in EvaluationRows : evaluation'[q].state # "ABSENT" =>
               /\ evaluation'[q].writer = evaluation'[q].by \/ Role[evaluation'[q].writer] = "ADMIN"
               /\ Evaluation!MayName(evaluation'[q].by, evaluation'[q].class)
        BY <3>1, <4>1
      <4>3. \A q, o \in EvaluationRows :
               (/\ q # o /\ evaluation'[q].state = "STORED" /\ evaluation'[o].state = "STORED"
                /\ evaluation'[q].period # 0
                /\ evaluation'[q].period = evaluation'[o].period
                /\ evaluation'[q].student = evaluation'[o].student)
                   => evaluation'[q].by # evaluation'[o].by
        BY <2>2, <3>1 DEF Evaluation!Taken
      <4> QED BY <4>2, <4>3
    <3> QED
      BY <3>1, <3>2, <3>3, <3>4 DEF Evaluation!Idle
  <2> QED
    BY <2>1, <2>2
<1>4. ASSUME NEW u \in EvaluationUsers, NEW r \in EvaluationRows,
             NEW kind \in {"UPDATE", "DELETE"}, NEW rating \in Ratings,
             Evaluation!CheckChange(u, r, kind, rating)
      PROVE  EvaluationInv'
  BY <1>4 DEF Evaluation!CheckChange, Evaluation!Owns
<1>5. ASSUME NEW u \in EvaluationUsers, Evaluation!WriteChange(u)
      PROVE  EvaluationInv'
  <2>1. CASE ~Evaluation!Stored(evaluationOp[u].row)
    BY <1>5, <2>1 DEF Evaluation!WriteChange, Evaluation!Idle
  <2>2. CASE Evaluation!Stored(evaluationOp[u].row)
    <3>1. /\ evaluationOp[u].kind \in {"UPDATE", "DELETE"}
          /\ evaluationOp' = [evaluationOp EXCEPT ![u] = Evaluation!Idle]
      BY <1>5 DEF Evaluation!WriteChange
    <3> DEFINE row == evaluationOp[u].row
               old == evaluation[row]
               e == [state |-> IF evaluationOp[u].kind = "DELETE" THEN "DELETED" ELSE "STORED",
                     student |-> old.student, by |-> old.by, class |-> old.class,
                     period |-> old.period,
                     rating |-> IF evaluationOp[u].kind = "DELETE" THEN old.rating
                                ELSE evaluationOp[u].rating,
                     writer |-> u]
    <3>2. evaluation' = [evaluation EXCEPT ![row] = e]
      BY <1>5, <2>2 DEF Evaluation!WriteChange
    <3>3. /\ e.state \in {"STORED", "DELETED"} /\ e.writer = u /\ e.by = old.by
          /\ e.student = old.student /\ e.period = old.period /\ e.class = old.class
      OBVIOUS
    <3>4. row \in EvaluationRows /\ old.state = "STORED" /\ (Role[u] = "ADMIN" \/ old.by = u)
      BY <2>2, <3>1
    <3>5. evaluation = [r \in EvaluationRows |-> evaluation[r]]
      OBVIOUS
    <3> HIDE DEF e
    <3>6. evaluation'[row] = e /\ \A r \in EvaluationRows \ {row} : evaluation'[r] = evaluation[r]
      BY <3>2, <3>4, <3>5
    <3>7. \A r \in EvaluationRows :
             /\ evaluation'[r].by = evaluation[r].by
             /\ evaluation'[r].class = evaluation[r].class
             /\ evaluation'[r].state = "STORED" =>
                   /\ evaluation[r].state = "STORED"
                   /\ evaluation'[r].student = evaluation[r].student
                   /\ evaluation'[r].period = evaluation[r].period
             /\ evaluation[r].state # "ABSENT" => evaluation'[r].state # "ABSENT"
      BY <3>3, <3>4, <3>6
    <3>8. Evaluation!EvaluationsAreTheAuthors'
      <4>1. \A r \in EvaluationRows : evaluation'[r].state # "ABSENT" =>
               evaluation'[r].writer = evaluation'[r].by \/ Role[evaluation'[r].writer] = "ADMIN"
        BY <3>3, <3>4, <3>6
      <4>2. \A r \in EvaluationRows : evaluation'[r].state # "ABSENT" =>
               evaluation[r].state # "ABSENT"
        BY <3>4, <3>6
      <4>3. \A r \in EvaluationRows : evaluation'[r].state # "ABSENT" =>
               Evaluation!MayName(evaluation'[r].by, evaluation'[r].class)
        BY <3>7, <4>2
      <4> QED
        BY <3>7, <4>1, <4>3
    <3>9. evaluation' = [r \in EvaluationRows |-> evaluation'[r]]
      BY <3>2, <3>5
    <3>10. /\ evaluationOp' = [v \in EvaluationUsers |-> evaluationOp'[v]]
           /\ evaluationOp'[u].kind = "IDLE"
           /\ \A v \in EvaluationUsers \ {u} : evaluationOp'[v] = evaluationOp[v]
      BY <3>1 DEF Evaluation!Idle
    <3>11. ASSUME NEW v \in EvaluationUsers, evaluationOp'[v].kind \in {"UPDATE", "DELETE"}
           PROVE  /\ evaluationOp'[v].row \in EvaluationRows
                  /\ evaluation'[evaluationOp'[v].row].state # "ABSENT"
                  /\ Role[v] = "ADMIN" \/ evaluation'[evaluationOp'[v].row].by = v
      <4>1. evaluationOp'[v] = evaluationOp[v]
        BY <3>10, <3>11
      <4> QED
        BY <3>7, <3>11, <4>1
    <3> QED
      BY <3>8, <3>9, <3>10, <3>11
  <2> QED
    BY <2>1, <2>2
<1> QED
  BY <1>1, <1>2, <1>3, <1>4, <1>5 DEF Evaluation!Next

\* What an evaluation says comes from its author or an administrator, although
\* update and delete check the author before they write; and the unique index
\* leaves an author one evaluation of a student per period.
THEOREM AuthorsKeepEvaluations == DeskSpec => []EvaluationsAreTheAuthors
<1>1. Evaluation!Init => EvaluationInv
  BY DEF Evaluation!Init, EvaluationInv, Evaluation!EvaluationsAreTheAuthors,
         Evaluation!Stored, Evaluation!NoRow, Evaluation!Idle
<1>2. EvaluationInv /\ [Evaluation!Next]_Evaluation!vars => EvaluationInv'
  BY EvaluationInvStep
<1>3. EvaluationInv => EvaluationsAreTheAuthors
  BY DEF EvaluationInv, EvaluationsAreTheAuthors
<1> QED
  BY <1>1, <1>2, <1>3, DeskImplementsParts, PTL DEF Evaluation!Spec

-----------------------------------------------------------------------------
(* Consents                                                                *)

\* A withdrawal leaves a revoked row behind, and no active one.
ConsentInv ==
    /\ consent = [r \in ConsentRows |-> consent[r]]
    /\ grantOp = [u \in ConsentUsers |-> grantOp[u]]
    /\ \A w \in withdrawn :
          /\ w = <<w[1], w[2]>>
          /\ Consents!Active(w[1], w[2]) = {}
          /\ \E r \in ConsentRows : consent[r].state = "REVOKED" /\ consent[r].subject = w[1]

\* grant adds a row under an unused id, revoke stamps the active ones.
LEMMA ConsentInvStep == ConsentInv /\ [Consents!Next]_Consents!vars => ConsentInv'
<1> SUFFICES ASSUME ConsentInv, [Consents!Next]_Consents!vars
             PROVE  ConsentInv'
  OBVIOUS
<1> USE DEF ConsentInv, Consents!Active
<1>1. CASE UNCHANGED Consents!vars
  BY <1>1 DEF Consents!vars
<1>2. ASSUME NEW u \in ConsentUsers, NEW s \in FileStudents \cup {None},
             NEW purpose \in Purposes, Consents!CheckGrant(u, s, purpose)
      PROVE  ConsentInv'
  BY <1>2 DEF Consents!CheckGrant
<1>3. ASSUME NEW u \in ConsentUsers, NEW s \in FileStudents \cup {None},
             NEW purpose \in Purposes, Consents!CheckRevoke(u, s, purpose)
      PROVE  ConsentInv'
  BY <1>3 DEF Consents!CheckRevoke
<1>4. ASSUME NEW u \in ConsentUsers, Consents!RevokeNothing(u)
      PROVE  ConsentInv'
  BY <1>4 DEF Consents!RevokeNothing
<1>5. ASSUME NEW u \in ConsentUsers, Consents!Revoke(u)
      PROVE  ConsentInv'
  <2> DEFINE subject == grantOp[u].subject
             purpose == grantOp[u].purpose
             active == Consents!Active(subject, purpose)
  <2>1. /\ active # {}
        /\ consent' = [r \in ConsentRows |->
                         IF r \in active
                         THEN [state |-> "REVOKED", subject |-> consent[r].subject,
                               purpose |-> consent[r].purpose, by |-> consent[r].by]
                         ELSE consent[r]]
        /\ withdrawn' = withdrawn \cup {<<subject, purpose>>}
        /\ grantOp' = [v \in ConsentUsers |-> grantOp'[v]]
    BY <1>5 DEF Consents!Revoke, Consents!Stamped
  <2> HIDE DEF subject, purpose
  <2>2. \A r \in ConsentRows :
           /\ consent'[r].subject = consent[r].subject
           /\ consent'[r].purpose = consent[r].purpose
           /\ r \in active => consent'[r].state = "REVOKED"
           /\ r \notin active => consent'[r].state = consent[r].state
    BY <2>1
  <2>4. \A r \in ConsentRows :
           /\ consent'[r].state = "ACTIVE" => consent[r].state = "ACTIVE"
           /\ consent[r].state = "REVOKED" => consent'[r].state = "REVOKED"
    BY <2>2
  <2>3. ASSUME NEW w \in withdrawn'
        PROVE  /\ w = <<w[1], w[2]>>
               /\ Consents!Active(w[1], w[2])' = {}
               /\ \E r \in ConsentRows : consent'[r].state = "REVOKED" /\ consent'[r].subject = w[1]
    <3>1. CASE w \in withdrawn
      <4>1. /\ w = <<w[1], w[2]>>
            /\ \A r \in ConsentRows : ~(/\ consent[r].state = "ACTIVE"
                                        /\ consent[r].subject = w[1]
                                        /\ consent[r].purpose = w[2])
            /\ \E r \in ConsentRows : consent[r].state = "REVOKED" /\ consent[r].subject = w[1]
        BY <3>1
      <4> QED BY <2>2, <2>4, <4>1
    <3>2. CASE w = <<subject, purpose>>
      BY <2>1, <2>2, <3>2
    <3> QED
      BY <2>1, <3>1, <3>2
  <2> QED
    BY <2>1, <2>3
<1>6. ASSUME NEW u \in ConsentUsers, NEW r \in ConsentRows, Consents!InsertGrant(u, r)
      PROVE  ConsentInv'
  <2>1. /\ consent' = [q \in ConsentRows |-> consent'[q]]
        /\ grantOp' = [v \in ConsentUsers |-> grantOp'[v]]
    BY <1>6 DEF Consents!InsertGrant
  <2>2. ASSUME NEW w \in withdrawn'
        PROVE  /\ w = <<w[1], w[2]>>
               /\ Consents!Active(w[1], w[2])' = {}
               /\ \E q \in ConsentRows : consent'[q].state = "REVOKED" /\ consent'[q].subject = w[1]
    <3>1. w \in withdrawn /\ w # <<grantOp[u].subject, grantOp[u].purpose>>
      BY <1>6, <2>2 DEF Consents!InsertGrant
    <3>2. w = <<w[1], w[2]>> /\ ~(w[1] = grantOp[u].subject /\ w[2] = grantOp[u].purpose)
      BY <3>1
    <3>3. \A q \in ConsentRows \ {r} : consent'[q] = consent[q]
      BY <1>6 DEF Consents!InsertGrant
    <3>4. /\ consent[r].state = "ABSENT"
          /\ consent'[r].subject = grantOp[u].subject
          /\ consent'[r].purpose = grantOp[u].purpose
      BY <1>6 DEF Consents!InsertGrant
    <3> QED
      BY <3>1, <3>2, <3>3, <3>4
  <2> QED
    BY <2>1, <2>2
<1>7. ASSUME NEW s \in FileStudents, Consents!ComeOfAge(s)
      PROVE  ConsentInv'
  BY <1>7 DEF Consents!ComeOfAge
<1> QED
  BY <1>1, <1>2, <1>3, <1>4, <1>5, <1>6, <1>7 DEF Consents!Next

\* A revocation holds until a later grant, however many active rows the grants
\* before it left, and its rows stay in the history of its subject.
THEOREM WithdrawalsHold == DeskSpec => []WithdrawalHolds
<1>1. Consents!Init => ConsentInv
  BY DEF Consents!Init, ConsentInv
<1>2. ConsentInv /\ [Consents!Next]_Consents!vars => ConsentInv'
  BY ConsentInvStep
<1>3. ConsentInv => WithdrawalHolds
  BY DEF ConsentInv, WithdrawalHolds, Consents!WithdrawalHolds, Consents!MyHistory
<1> QED
  BY <1>1, <1>2, <1>3, DeskImplementsParts, PTL DEF Consents!Spec

-----------------------------------------------------------------------------
(* Announcements                                                           *)

\* An audience and a class that fit, and are not club-wide for an instructor.
Fits(audience, c, writer) ==
    /\ (audience = "ALL") <=> (c = None)
    /\ Role[writer] = "INSTRUCTOR" => audience = "CLASS"

\* The pair that an operation carries was checked as a whole, and is written as a
\* whole: what other updates do to the row in between does not matter.
BoardInv ==
    /\ announcement = [r \in BoardRows |-> announcement[r]]
    /\ announceOp = [u \in Board!Authors |-> announceOp[u]]
    /\ \A u \in Board!Authors : announceOp[u].kind \in {"CREATE", "UPDATE"} =>
          Fits(announceOp[u].audience, announceOp[u].class, u)
    /\ \A u \in Board!Authors : announceOp[u].kind = "UPDATE" => announceOp[u].row \in BoardRows
    /\ \A r \in BoardRows : announcement[r].state = "POSTED" =>
          Fits(announcement[r].audience, announcement[r].class, announcement[r].writer)

\* Each operation of AnnouncementsService keeps it.
LEMMA BoardInvStep == BoardInv /\ [Board!Next]_Board!vars => BoardInv'
<1> SUFFICES ASSUME BoardInv, [Board!Next]_Board!vars
             PROVE  BoardInv'
  OBVIOUS
<1> USE DEF BoardInv
<1>1. CASE UNCHANGED Board!vars
  BY <1>1 DEF Board!vars
<1>2. ASSUME NEW u \in Board!Authors, NEW audience \in Board!Audiences,
             NEW c \in Classes \cup {None}, Board!CheckCreate(u, audience, c)
      PROVE  BoardInv'
  BY <1>2 DEF Board!CheckCreate, Board!MayAddress, Board!Target, Fits
<1>3. ASSUME NEW u \in Board!Authors, NEW r \in BoardRows, Board!Insert(u, r)
      PROVE  BoardInv'
  BY <1>3 DEF Board!Insert, Board!Idle
<1>4. ASSUME NEW u \in Board!Authors, NEW r \in BoardRows, Board!Remove(u, r)
      PROVE  BoardInv'
  BY <1>4 DEF Board!Remove, Board!NoRow
<1>5. ASSUME NEW u \in Board!Authors, NEW r \in BoardRows,
             NEW audience \in Board!Audiences \cup {None}, NEW c \in Classes \cup {None},
             Board!CheckUpdate(u, r, audience, c)
      PROVE  BoardInv'
  BY <1>5 DEF Board!CheckUpdate, Board!EffectiveClass, Board!MayAddress, Board!Target, Fits
<1>6. ASSUME NEW u \in Board!Authors, Board!WriteUpdate(u)
      PROVE  BoardInv'
  BY <1>6 DEF Board!WriteUpdate, Board!Idle
<1>7. ASSUME NEW c \in Classes, NEW u \in BoardUsers, Board!Reassign(c, u)
      PROVE  BoardInv'
  BY <1>7 DEF Board!Reassign
<1> QED
  BY <1>1, <1>2, <1>3, <1>4, <1>5, <1>6, <1>7 DEF Board!Next

\* "The effective audience/classId pair must stay consistent": whichever updates
\* race, a posted announcement names a class exactly if it is for a class, is in
\* everybody's feed if it is for all, and is never for all by an instructor.
THEOREM AudiencesFit == DeskSpec => []AudienceFitsClass
<1>1. Board!Init => BoardInv
  BY DEF Board!Init, BoardInv, Board!NoRow, Board!Idle
<1>2. BoardInv /\ [Board!Next]_Board!vars => BoardInv'
  BY BoardInvStep
<1>3. BoardInv => AudienceFitsClass
  BY DEF BoardInv, Fits, AudienceFitsClass, Board!AudienceFitsClass, Board!Feed
<1> QED
  BY <1>1, <1>2, <1>3, DeskImplementsParts, PTL DEF Board!Spec

-----------------------------------------------------------------------------
(* Roll calls                                                              *)

\* The transaction of u has written the record of s in session x.
Writes(u, x, s) == rollOp[u].kind = "ROLL" /\ rollOp[u].session = x /\ s \in Roll!Written(u)

\* A roll in flight names no student twice and has written what it says.
RollUnderWay(u) ==
    /\ rollOp[u].session \in Roll!Sessions
    /\ rollOp[u].roll \in Rolls
    /\ rollOp[u].done \in 0..Len(rollOp[u].roll)
    /\ rollOp[u].old = [s \in RollStudents |-> rollOp[u].old[s]]
    /\ \A i, j \in 1..Len(rollOp[u].roll) :
          rollOp[u].roll[i].student = rollOp[u].roll[j].student => i = j
    /\ \A i \in 1..rollOp[u].done :
          record[rollOp[u].session][rollOp[u].roll[i].student] = rollOp[u].roll[i].status

\* Two transactions never hold the same record.
RollInv ==
    /\ record = [x \in Roll!Sessions |-> [s \in RollStudents |-> record[x][s]]]
    /\ rollOp = [u \in RollUsers |-> rollOp[u]]
    /\ \A u \in RollUsers : rollOp[u].kind = "ROLL" => RollUnderWay(u)
    /\ \A u, v \in RollUsers, x \in Roll!Sessions, s \in RollStudents :
          Writes(u, x, s) /\ Writes(v, x, s) => u = v

\* A roll is a sequence, names students of the club and gives marks.
LEMMA RollIsSequence ==
    ASSUME NEW roll \in Rolls
    PROVE  /\ Len(roll) \in Nat /\ DOMAIN roll = 1..Len(roll)
           /\ \A i \in 1..Len(roll) : roll[i].student \in RollStudents
           /\ \A i \in 1..Len(roll) : roll[i].status \in Roll!Marks
<1> DEFINE Entries == [student : RollStudents,
                       status : {"PRESENT", "LATE", "ABSENT", "EXCUSED"}]
<1>1. roll \in Seq(Entries)
  BY RollsAssumption
<1>2. /\ Len(roll) \in Nat /\ DOMAIN roll = 1..Len(roll)
      /\ \A i \in 1..Len(roll) : roll[i] \in Entries
  <2> HIDE DEF Entries
  <2> QED
    BY <1>1
<1> QED
  BY <1>2 DEF Roll!Marks

\* A roll that the check of duplicates lets through names each student once: the
\* map from its places to its names is onto, and onto a set as large, so one-to-one.
LEMMA NoDuplicatesIsInjective ==
    ASSUME NEW roll \in Rolls, Roll!NoDuplicates(roll)
    PROVE  \A i, j \in 1..Len(roll) : roll[i].student = roll[j].student => i = j
<1> DEFINE f == [i \in 1..Len(roll) |-> roll[i].student]
<1>1. Len(roll) \in Nat /\ DOMAIN roll = 1..Len(roll)
  BY RollIsSequence
<1>2. f \in Surjection(1..Len(roll), Roll!Named(roll))
  BY <1>1 DEF Surjection, Roll!Named
<1>3. IsFiniteSet(1..Len(roll)) /\ Cardinality(1..Len(roll)) = Len(roll)
  <2>1. 1 \in Int /\ Len(roll) \in Int
    BY <1>1
  <2>2. /\ IsFiniteSet(1..Len(roll))
        /\ Cardinality(1..Len(roll)) = IF 1 > Len(roll) THEN 0 ELSE Len(roll) - 1 + 1
    BY <2>1, FS_Interval
  <2> QED
    BY <1>1, <2>2
<1>4. Cardinality(Roll!Named(roll)) = Len(roll)
  BY DEF Roll!NoDuplicates, Roll!Cardinality, Cardinality
<1>5. f \in Injection(1..Len(roll), Roll!Named(roll))
  BY <1>2, <1>3, <1>4, FS_Surjection
<1> QED
  BY <1>5 DEF Injection, IsInjective

\* What readers see of a record: its newest version, or the one that the only
\* transaction that has written it keeps.
Views ==
    \A x \in Roll!Sessions, s \in RollStudents :
        /\ (\A u \in RollUsers : ~Writes(u, x, s)) => Roll!Visible(x, s) = record[x][s]
        /\ \A u \in RollUsers : Writes(u, x, s) => Roll!Visible(x, s) = rollOp[u].old[s]

\* With one writer per record, readers see it so.
LEMMA VisibleIs == RollInv => Views
<1> SUFFICES ASSUME RollInv, NEW x \in Roll!Sessions, NEW s \in RollStudents
             PROVE  /\ (\A u \in RollUsers : ~Writes(u, x, s)) =>
                          Roll!Visible(x, s) = record[x][s]
                    /\ \A u \in RollUsers : Writes(u, x, s) =>
                          Roll!Visible(x, s) = rollOp[u].old[s]
  BY DEF Views
<1> DEFINE W == {u \in RollUsers : Writes(u, x, s)}
<1>1. Roll!Visible(x, s) =
        IF W = {} THEN record[x][s] ELSE rollOp[CHOOSE u \in W : TRUE].old[s]
  BY DEF Roll!Visible, Writes
<1>2. CASE \A u \in RollUsers : ~Writes(u, x, s)
  BY <1>1, <1>2
<1>3. ASSUME NEW u \in RollUsers, Writes(u, x, s)
      PROVE  Roll!Visible(x, s) = rollOp[u].old[s]
  <2>1. W = {u}
    BY <1>3 DEF RollInv
  <2>2. (CHOOSE v \in W : TRUE) = u
    BY <2>1
  <2> QED
    BY <1>1, <2>1, <2>2
<1> QED
  BY <1>2, <1>3

\* The same of the next state.
LEMMA VisibleWillBe == RollInv' => Views'
BY VisibleIs, PTL

\* The i-th upsert of the roll of v is through.
WrittenAt(v, i) ==
    /\ rollOp[v].roll[i].student \in RollStudents
    /\ Writes(v, rollOp[v].session, rollOp[v].roll[i].student)

\* Its record is then held by v.
LEMMA WrittenIsHeld ==
    ASSUME NEW v \in RollUsers, rollOp[v].kind = "ROLL", RollUnderWay(v),
           NEW i \in 1..rollOp[v].done
    PROVE  WrittenAt(v, i)
<1>1. rollOp[v].roll \in Rolls /\ rollOp[v].done \in 0..Len(rollOp[v].roll)
  BY DEF RollUnderWay
<1>2. i \in 1..Len(rollOp[v].roll)
  BY <1>1, RollIsSequence
<1>3. rollOp[v].roll[i].student \in RollStudents
  BY <1>1, <1>2, RollIsSequence
<1> QED
  BY <1>3 DEF WrittenAt, Writes, Roll!Written

\* A record that keeps its writer, the version kept by it, and its newest version
\* looks the same to readers.
LEMMA SameView ==
    ASSUME Views, Views', NEW y \in Roll!Sessions, NEW t \in RollStudents,
           \A v \in RollUsers : Writes(v, y, t)' <=> Writes(v, y, t),
           \A v \in RollUsers : Writes(v, y, t) => rollOp'[v].old[t] = rollOp[v].old[t],
           record'[y][t] = record[y][t]
    PROVE  Roll!Visible(y, t)' = Roll!Visible(y, t)
<1>1. CASE \A v \in RollUsers : ~Writes(v, y, t)
  <2>1. Roll!Visible(y, t) = record[y][t]
    BY <1>1 DEF Views
  <2>2. Roll!Visible(y, t)' = record'[y][t]
    BY <1>1 DEF Views
  <2> QED
    BY <2>1, <2>2
<1>2. ASSUME NEW v \in RollUsers, Writes(v, y, t)
      PROVE  Roll!Visible(y, t)' = Roll!Visible(y, t)
  <2>1. Roll!Visible(y, t) = rollOp[v].old[t]
    BY <1>2 DEF Views
  <2>2. Roll!Visible(y, t)' = rollOp'[v].old[t]
    BY <1>2 DEF Views
  <2> QED
    BY <1>2, <2>1, <2>2
<1> QED
  BY <1>1, <1>2

\* A step that writes no record, and begins or ends no roll that has written one,
\* keeps the invariant and what readers see.
LEMMA QuietStep ==
    ASSUME RollInv, UNCHANGED record,
           NEW u \in RollUsers, NEW o, rollOp' = [rollOp EXCEPT ![u] = o],
           rollOp[u].kind # "ROLL",
           o.kind = "ROLL" =>
              /\ o.session \in Roll!Sessions
              /\ o.roll \in Rolls /\ Roll!NoDuplicates(o.roll)
              /\ o.done = 0
              /\ o.old = [s \in RollStudents |-> None]
    PROVE  RollInv' /\ Roll!Table' = Roll!Table
<1>1. \A v \in RollUsers \ {u} : rollOp'[v] = rollOp[v]
  BY DEF RollInv
<1>2. rollOp'[u] = o
  BY DEF RollInv
<1>3. \A v \in RollUsers : \A x, s : Writes(v, x, s)' <=> Writes(v, x, s)
  <2>1. \A x, s : ~Writes(u, x, s) /\ ~Writes(u, x, s)'
    <3>1. o.kind = "ROLL" => Roll!Written(u)' = {}
      BY <1>2 DEF Roll!Written
    <3> QED
      BY <1>2, <3>1 DEF Writes
  <2>2. \A v \in RollUsers \ {u} : \A x, s : Writes(v, x, s)' <=> Writes(v, x, s)
    BY <1>1 DEF Writes, Roll!Written
  <2> QED
    BY <2>1, <2>2
<1>4. o.kind = "ROLL" => RollUnderWay(u)'
  BY <1>2, NoDuplicatesIsInjective, RollIsSequence DEF RollUnderWay
<1>5. \A v \in RollUsers \ {u} : RollUnderWay(v)' <=> RollUnderWay(v)
  BY <1>1 DEF RollUnderWay
<1>6. RollInv'
  BY <1>1, <1>2, <1>3, <1>4, <1>5 DEF RollInv
<1>7. \A v \in RollUsers : \A x, s : Writes(v, x, s) => rollOp'[v] = rollOp[v]
  BY <1>1 DEF Writes
<1>8. Views /\ Views'
  BY <1>6, VisibleIs, VisibleWillBe
<1>9. ASSUME NEW x \in Roll!Sessions, NEW s \in RollStudents
      PROVE  Roll!Visible(x, s)' = Roll!Visible(x, s)
  BY <1>3, <1>7, <1>8, SameView
<1> QED
  BY <1>6, <1>9 DEF Roll!Table

\* An upsert takes a record that no transaction has written, its own included,
\* and shows readers nothing.
LEMMA UpsertStep ==
    ASSUME RollInv, NEW u \in RollUsers, Roll!UpsertNext(u)
    PROVE  RollInv' /\ Roll!Table' = Roll!Table
<1> DEFINE o == rollOp[u]
           x == o.session
           k == o.done + 1
           s == o.roll[k].student
<1>1. /\ x \in Roll!Sessions /\ o.roll \in Rolls /\ o.done \in 0..Len(o.roll)
      /\ o.old = [t \in RollStudents |-> o.old[t]]
      /\ \A i, j \in 1..Len(o.roll) : o.roll[i].student = o.roll[j].student => i = j
      /\ \A i \in 1..o.done : record[x][o.roll[i].student] = o.roll[i].status
  <2>1. rollOp[u].kind = "ROLL"
    BY DEF Roll!UpsertNext
  <2>2. RollUnderWay(u)
    BY <2>1 DEF RollInv
  <2> QED
    BY <2>2 DEF RollUnderWay
<1>2. /\ o.kind = "ROLL" /\ o.done < Len(o.roll)
      /\ ~Roll!Held(u, x, s)
      /\ record' = [record EXCEPT ![x][s] = o.roll[k].status]
  BY DEF Roll!UpsertNext
<1>3. /\ rollOp'[u].kind = "ROLL" /\ rollOp'[u].session = x /\ rollOp'[u].roll = o.roll
      /\ rollOp'[u].done = k
      /\ rollOp'[u].old = [o.old EXCEPT ![s] = record[x][s]]
      /\ \A v \in RollUsers \ {u} : rollOp'[v] = rollOp[v]
      /\ rollOp' = [v \in RollUsers |-> rollOp'[v]]
  <2> DEFINE new == [kind |-> "ROLL", session |-> x, roll |-> o.roll, done |-> k,
                     old |-> [o.old EXCEPT ![s] = record[x][s]]]
  <2>1. rollOp' = [rollOp EXCEPT ![u] = new]
    BY DEF Roll!UpsertNext
  <2>2. /\ new.kind = "ROLL" /\ new.session = x /\ new.roll = o.roll /\ new.done = k
        /\ new.old = [o.old EXCEPT ![s] = record[x][s]]
    OBVIOUS
  <2>3. rollOp = [v \in RollUsers |-> rollOp[v]]
    BY DEF RollInv
  <2> HIDE DEF new, o, x, k, s
  <2>4. /\ rollOp'[u] = new
        /\ \A v \in RollUsers \ {u} : rollOp'[v] = rollOp[v]
        /\ rollOp' = [v \in RollUsers |-> rollOp'[v]]
    BY <2>1, <2>3
  <2> QED
    BY <2>2, <2>4
<1>4. /\ o.kind = rollOp[u].kind /\ x = rollOp[u].session /\ o.done = rollOp[u].done
      /\ o.old = rollOp[u].old /\ Roll!Written(u) = {o.roll[i].student : i \in 1..o.done}
  BY DEF Roll!Written
<1>5. /\ o.done \in Nat /\ Len(o.roll) \in Nat /\ k \in 1..Len(o.roll)
      /\ 1..k = (1..o.done) \cup {k} /\ k \notin 1..o.done
      /\ \A i \in 1..o.done : i \in 1..Len(o.roll)
  BY <1>1, <1>2, RollIsSequence
<1>6. s = o.roll[k].student /\ \A i \in 1..Len(o.roll) : o.roll[i].student \in RollStudents
  BY <1>1, RollIsSequence
<1> HIDE DEF o, x, k, s
<1>7. s \in RollStudents
  BY <1>5, <1>6
<1>8. /\ record' = [y \in Roll!Sessions |-> [t \in RollStudents |-> record'[y][t]]]
      /\ record'[x][s] = o.roll[k].status
      /\ \A y \in Roll!Sessions, t \in RollStudents :
            y # x \/ t # s => record'[y][t] = record[y][t]
  <2>1. record = [y \in Roll!Sessions |-> [t \in RollStudents |-> record[y][t]]]
    BY DEF RollInv
  <2>2. \A y \in Roll!Sessions : record[y] = [t \in RollStudents |-> record[y][t]]
    BY <2>1
  <2>3. record' = [y \in Roll!Sessions |->
                     IF y = x THEN [record[x] EXCEPT ![s] = o.roll[k].status] ELSE record[y]]
    BY <1>2, <2>1
  <2>4. record'[x] = [t \in RollStudents |-> IF t = s THEN o.roll[k].status ELSE record[x][t]]
    BY <1>1, <2>2, <2>3
  <2>5. \A y \in Roll!Sessions \ {x} : record'[y] = record[y]
    BY <2>3
  <2>6. \A y \in Roll!Sessions : record'[y] = [t \in RollStudents |-> record'[y][t]]
    BY <2>2, <2>4, <2>5
  <2>7. record' = [y \in Roll!Sessions |-> record'[y]]
    BY <2>3
  <2>8. record' = [y \in Roll!Sessions |-> [t \in RollStudents |-> record'[y][t]]]
    BY <2>6, <2>7
  <2>9. \A y \in Roll!Sessions, t \in RollStudents :
           y # x \/ t # s => record'[y][t] = record[y][t]
    BY <2>4, <2>5
  <2> QED
    BY <1>7, <2>4, <2>8, <2>9
<1>9. \A i \in 1..o.done : o.roll[i].student # s
  BY <1>1, <1>5, <1>6
<1>10. \A v \in RollUsers : ~Writes(v, x, s)
  <2>1. \A v \in RollUsers \ {u} : ~Writes(v, x, s)
    BY <1>2 DEF Roll!Held, Writes
  <2>2. s \notin Roll!Written(u)
    BY <1>4, <1>9
  <2> QED
    BY <2>1, <2>2 DEF Writes
<1>11. \A v \in RollUsers : \A y, t :
          Writes(v, y, t)' <=> Writes(v, y, t) \/ (v = u /\ y = x /\ t = s)
  <2>1. Roll!Written(u)' = Roll!Written(u) \cup {s}
    <3>1. Roll!Written(u)' = {o.roll[i].student : i \in 1..k}
      BY <1>3 DEF Roll!Written
    <3> QED
      BY <1>4, <1>5, <1>6, <3>1
  <2>2. \A y, t : Writes(u, y, t)' <=> Writes(u, y, t) \/ (y = x /\ t = s)
    BY <1>2, <1>3, <1>4, <2>1 DEF Writes
  <2>3. \A v \in RollUsers \ {u} : \A y, t : Writes(v, y, t)' <=> Writes(v, y, t)
    BY <1>3 DEF Writes, Roll!Written
  <2> QED
    BY <2>2, <2>3
<1>12. RollUnderWay(u)'
  <2>1. ASSUME NEW i \in 1..k
        PROVE  record'[x][o.roll[i].student] = o.roll[i].status
    <3>1. CASE i = k
      BY <1>6, <1>8, <3>1
    <3>2. CASE i \in 1..o.done
      <4>1. o.roll[i].student \in RollStudents /\ o.roll[i].student # s
        BY <1>5, <1>6, <1>9, <3>2
      <4>2. record'[x][o.roll[i].student] = record[x][o.roll[i].student]
        BY <1>1, <1>8, <4>1
      <4> QED
        BY <1>1, <3>2, <4>2
    <3> QED
      BY <1>5, <3>1, <3>2
  <2>2. rollOp'[u].old = [t \in RollStudents |-> rollOp'[u].old[t]]
    BY <1>1, <1>3
  <2>3. k \in 0..Len(o.roll)
    BY <1>5
  <2> QED
    BY <1>1, <1>3, <2>1, <2>2, <2>3 DEF RollUnderWay
<1>13. ASSUME NEW v \in RollUsers \ {u}, rollOp'[v].kind = "ROLL"
       PROVE  RollUnderWay(v)'
  <2>1. rollOp'[v] = rollOp[v] /\ rollOp[v].kind = "ROLL"
    BY <1>3, <1>13
  <2>2. RollUnderWay(v)
    BY <2>1 DEF RollInv
  <2>3. ASSUME NEW i \in 1..rollOp[v].done
        PROVE  record'[rollOp[v].session][rollOp[v].roll[i].student] = rollOp[v].roll[i].status
    <3>1. WrittenAt(v, i)
      BY <2>1, <2>2, WrittenIsHeld
    <3>2. ~(rollOp[v].session = x /\ rollOp[v].roll[i].student = s)
      BY <1>10, <3>1 DEF WrittenAt
    <3> QED
      BY <1>8, <2>2, <3>1, <3>2 DEF RollUnderWay, WrittenAt
  <2> QED
    BY <2>1, <2>2, <2>3 DEF RollUnderWay
<1>14. RollInv'
  <2>1. \A v, w \in RollUsers, y \in Roll!Sessions, t \in RollStudents :
           Writes(v, y, t)' /\ Writes(w, y, t)' => v = w
    BY <1>10, <1>11 DEF RollInv
  <2> QED
    BY <1>3, <1>8, <1>12, <1>13, <2>1 DEF RollInv
<1>15. Views /\ Views'
  BY <1>14, VisibleIs, VisibleWillBe
<1>16. ASSUME NEW y \in Roll!Sessions, NEW t \in RollStudents
       PROVE  Roll!Visible(y, t)' = Roll!Visible(y, t)
  <2>1. CASE y = x /\ t = s
    <3>1. Roll!Visible(y, t) = record[x][s]
      BY <1>10, <1>15, <2>1 DEF Views
    <3>2. Roll!Visible(y, t)' = rollOp'[u].old[s]
      BY <1>11, <1>15, <2>1 DEF Views
    <3>3. rollOp'[u].old[s] = record[x][s]
      BY <1>1, <1>3, <1>7
    <3> QED
      BY <3>1, <3>2, <3>3
  <2>2. CASE ~(y = x /\ t = s)
    <3>1. \A v \in RollUsers : Writes(v, y, t)' <=> Writes(v, y, t)
      BY <1>11, <2>2
    <3>2. Writes(u, y, t) => rollOp'[u].old[t] = rollOp[u].old[t]
      <4>1. Writes(u, y, t) => y = x
        BY <1>4 DEF Writes
      <4> QED
        BY <1>1, <1>3, <1>4, <2>2, <4>1
    <3>3. \A v \in RollUsers : Writes(v, y, t) => rollOp'[v].old[t] = rollOp[v].old[t]
      BY <1>3, <3>2
    <3> QED
      BY <1>8, <1>15, <2>2, <3>1, <3>3, SameView
  <2> QED
    BY <2>1, <2>2
<1> QED
  BY <1>14, <1>16 DEF Roll!Table

\* The end of a transaction gives its records up and leaves the others' alone, if
\* the records that others have written stay as they are.
LEMMA EndStep ==
    ASSUME RollInv, NEW u \in RollUsers, rollOp' = [rollOp EXCEPT ![u] = Roll!Idle],
           record' = [x \in Roll!Sessions |-> [s \in RollStudents |-> record'[x][s]]],
           \A x \in Roll!Sessions, s \in RollStudents :
              ~Writes(u, x, s) => record'[x][s] = record[x][s]
    PROVE  /\ RollInv'
           /\ \A v \in RollUsers \ {u} : rollOp'[v] = rollOp[v]
           /\ \A v \in RollUsers : \A x, s : Writes(v, x, s)' <=> v # u /\ Writes(v, x, s)
<1>1. \A v \in RollUsers \ {u} : rollOp'[v] = rollOp[v]
  BY DEF RollInv
<1>2. rollOp'[u].kind = "IDLE"
  BY DEF RollInv, Roll!Idle
<1>3. \A v \in RollUsers : \A x, s : Writes(v, x, s)' <=> v # u /\ Writes(v, x, s)
  BY <1>1, <1>2 DEF Writes, Roll!Written
<1>4. ASSUME NEW v \in RollUsers, rollOp'[v].kind = "ROLL"
      PROVE  RollUnderWay(v)'
  <2>1. v # u /\ rollOp'[v] = rollOp[v]
    BY <1>1, <1>2, <1>4
  <2>2. RollUnderWay(v)
    BY <1>4, <2>1 DEF RollInv
  <2>3. ASSUME NEW i \in 1..rollOp[v].done
        PROVE  record'[rollOp[v].session][rollOp[v].roll[i].student] = rollOp[v].roll[i].status
    <3>1. WrittenAt(v, i) /\ rollOp[v].session \in Roll!Sessions
      BY <1>4, <2>1, <2>2, WrittenIsHeld DEF RollUnderWay
    <3>2. ~Writes(u, rollOp[v].session, rollOp[v].roll[i].student)
      BY <2>1, <3>1 DEF RollInv, WrittenAt
    <3> QED
      BY <2>2, <3>1, <3>2 DEF RollUnderWay, WrittenAt
  <2> QED
    BY <2>1, <2>2, <2>3 DEF RollUnderWay
<1>5. rollOp' = [v \in RollUsers |-> rollOp'[v]]
  BY DEF RollInv
<1>6. RollInv'
  BY <1>3, <1>4, <1>5 DEF RollInv
<1> QED
  BY <1>1, <1>3, <1>6

\* A commit shows the roll, whole, and nothing else.
LEMMA CommitStep ==
    ASSUME RollInv, NEW u \in RollUsers, Roll!CommitRoll(u)
    PROVE  /\ RollInv'
           /\ Roll!Table' = Roll!After(Roll!Table, rollOp[u].session, rollOp[u].roll)
<1> DEFINE x == rollOp[u].session
           roll == rollOp[u].roll
<1>1. /\ rollOp' = [rollOp EXCEPT ![u] = Roll!Idle]
      /\ record' = [y \in Roll!Sessions |-> [s \in RollStudents |-> record'[y][s]]]
      /\ record' = record
  BY DEF RollInv, Roll!CommitRoll
<1>2. /\ RollInv'
      /\ \A v \in RollUsers \ {u} : rollOp'[v] = rollOp[v]
      /\ \A v \in RollUsers : \A y, s : Writes(v, y, s)' <=> v # u /\ Writes(v, y, s)
  BY <1>1, EndStep
<1>3. /\ RollUnderWay(u) /\ rollOp[u].kind = "ROLL"
      /\ Len(roll) \in Nat /\ DOMAIN roll = 1..Len(roll)
      /\ \A i \in DOMAIN roll : record[x][roll[i].student] = roll[i].status
      /\ Roll!Written(u) = Roll!Named(roll)
  BY RollIsSequence DEF RollInv, Roll!CommitRoll, RollUnderWay, Roll!Written, Roll!Named
<1>4. Views /\ Views'
  BY <1>2, VisibleIs, VisibleWillBe
<1>5. ASSUME NEW y \in Roll!Sessions, NEW s \in RollStudents
      PROVE  Roll!Visible(y, s)' =
               IF y = x /\ s \in Roll!Named(roll)
               THEN roll[CHOOSE i \in DOMAIN roll : roll[i].student = s].status
               ELSE Roll!Visible(y, s)
  <2>1. CASE y = x /\ s \in Roll!Named(roll)
    <3>1. Writes(u, y, s)
      BY <1>3, <2>1 DEF Writes
    <3>2. \A v \in RollUsers : ~Writes(v, y, s)'
      BY <1>2, <3>1 DEF RollInv
    <3>3. Roll!Visible(y, s)' = record'[y][s]
      BY <1>4, <3>2 DEF Views
    <3>4. \E i \in DOMAIN roll : roll[i].student = s
      BY <2>1 DEF Roll!Named
    <3>5. PICK j \in DOMAIN roll :
             j = (CHOOSE i \in DOMAIN roll : roll[i].student = s) /\ roll[j].student = s
      BY <3>4
    <3> QED
      BY <1>1, <1>3, <2>1, <3>3, <3>5
  <2>2. CASE ~(y = x /\ s \in Roll!Named(roll))
    <3>1. ~Writes(u, y, s)
      BY <1>3, <2>2 DEF Writes
    <3>2. Roll!Visible(y, s)' = Roll!Visible(y, s)
      BY <1>1, <1>2, <1>4, <3>1, SameView
    <3> QED
      BY <2>2, <3>2
  <2> QED
    BY <2>1, <2>2
<1>6. Roll!Table' = Roll!After(Roll!Table, x, roll)
  <2>1. \A y \in Roll!Sessions, s \in RollStudents : Roll!Table[y][s] = Roll!Visible(y, s)
    BY DEF Roll!Table
  <2> HIDE DEF x, roll
  <2> QED
    BY <1>5, <2>1 DEF Roll!Table, Roll!After
<1> QED
  BY <1>2, <1>6

\* An abort brings back what readers saw all along.
LEMMA AbortStep ==
    ASSUME RollInv, NEW u \in RollUsers, Roll!AbortRoll(u)
    PROVE  RollInv' /\ Roll!Table' = Roll!Table
<1>1. rollOp[u].kind = "ROLL" /\ RollUnderWay(u)
  BY DEF RollInv, Roll!AbortRoll
<1>2. /\ rollOp' = [rollOp EXCEPT ![u] = Roll!Idle]
      /\ record' = [y \in Roll!Sessions |-> [s \in RollStudents |-> record'[y][s]]]
  BY DEF RollInv, Roll!AbortRoll
<1>3. ASSUME NEW y \in Roll!Sessions, NEW s \in RollStudents
      PROVE  record'[y][s] = IF Writes(u, y, s) THEN rollOp[u].old[s] ELSE record[y][s]
  BY <1>1 DEF RollInv, Roll!AbortRoll, Writes
<1>4. /\ RollInv'
      /\ \A v \in RollUsers \ {u} : rollOp'[v] = rollOp[v]
      /\ \A v \in RollUsers : \A y, s : Writes(v, y, s)' <=> v # u /\ Writes(v, y, s)
  BY <1>2, <1>3, EndStep
<1>5. Views /\ Views'
  BY <1>4, VisibleIs, VisibleWillBe
<1>6. ASSUME NEW y \in Roll!Sessions, NEW s \in RollStudents
      PROVE  Roll!Visible(y, s)' = Roll!Visible(y, s)
  <2>1. CASE Writes(u, y, s)
    <3>1. \A v \in RollUsers : ~Writes(v, y, s)'
      BY <1>4, <2>1 DEF RollInv
    <3>2. Roll!Visible(y, s)' = record'[y][s]
      BY <1>5, <3>1 DEF Views
    <3>3. Roll!Visible(y, s) = rollOp[u].old[s]
      BY <1>5, <2>1 DEF Views
    <3> QED
      BY <1>3, <2>1, <3>2, <3>3
  <2>2. CASE ~Writes(u, y, s)
    BY <1>3, <1>4, <1>5, <2>2, SameView
  <2> QED
    BY <2>1, <2>2
<1> QED
  BY <1>4, <1>6 DEF Roll!Table

\* Every step of AttendanceService keeps the invariant, and shows readers nothing
\* but a commit.
LEMMA RollInvStep ==
    ASSUME RollInv, [Roll!Next]_Roll!vars
    PROVE  /\ RollInv'
           /\ \/ Roll!Table' = Roll!Table
              \/ \E u \in RollUsers :
                    /\ Roll!CommitRoll(u)
                    /\ Roll!Table' = Roll!After(Roll!Table, rollOp[u].session, rollOp[u].roll)
<1>1. ASSUME UNCHANGED <<record, rollOp>>
      PROVE  RollInv' /\ Roll!Table' = Roll!Table
  <2>1. \A u, x, s : Writes(u, x, s)' <=> Writes(u, x, s)
    BY <1>1 DEF Writes, Roll!Written
  <2>2. \A u : RollUnderWay(u)' <=> RollUnderWay(u)
    BY <1>1 DEF RollUnderWay
  <2>3. RollInv'
    BY <1>1, <2>1, <2>2 DEF RollInv
  <2>4. Views /\ Views'
    BY <2>3, VisibleIs, VisibleWillBe
  <2>5. ASSUME NEW y \in Roll!Sessions, NEW t \in RollStudents
        PROVE  Roll!Visible(y, t)' = Roll!Visible(y, t)
    BY <1>1, <2>1, <2>4, SameView
  <2> QED
    BY <2>3, <2>5 DEF Roll!Table
<1>2. CASE UNCHANGED Roll!vars
  BY <1>1, <1>2 DEF Roll!vars
<1>3. ASSUME NEW u \in RollUsers, NEW x \in Roll!Sessions, Roll!CheckSession(u, x)
      PROVE  RollInv' /\ Roll!Table' = Roll!Table
  BY <1>3, QuietStep DEF Roll!CheckSession
<1>4. ASSUME NEW u \in RollUsers, NEW x \in Roll!Sessions, NEW roll \in Rolls,
             Roll!CheckRoll(u, x, roll)
      PROVE  RollInv' /\ Roll!Table' = Roll!Table
  <2> DEFINE o == [kind |-> "ROLL", session |-> x, roll |-> roll, done |-> 0,
                   old |-> [s \in RollStudents |-> None]]
  <2>1. UNCHANGED record /\ rollOp' = [rollOp EXCEPT ![u] = o] /\ rollOp[u].kind # "ROLL"
    BY <1>4 DEF Roll!CheckRoll
  <2>2. /\ o.kind = "ROLL" /\ o.session = x /\ o.roll = roll /\ o.done = 0
        /\ o.old = [s \in RollStudents |-> None] /\ Roll!NoDuplicates(o.roll)
    BY <1>4 DEF Roll!CheckRoll
  <2> HIDE DEF o
  <2> QED
    BY <2>1, <2>2, QuietStep
<1>5. ASSUME NEW u \in RollUsers, Roll!InsertSession(u)
      PROVE  RollInv' /\ Roll!Table' = Roll!Table
  BY <1>5, QuietStep DEF Roll!InsertSession, Roll!Idle
<1>6. ASSUME NEW u \in RollUsers, Roll!UpsertNext(u) \/ Roll!AbortRoll(u)
      PROVE  RollInv' /\ Roll!Table' = Roll!Table
  BY <1>6, UpsertStep, AbortStep
<1>7. ASSUME NEW u \in RollUsers, Roll!CommitRoll(u)
      PROVE  /\ RollInv'
             /\ Roll!Table' = Roll!After(Roll!Table, rollOp[u].session, rollOp[u].roll)
  BY <1>7, CommitStep
<1>8. ASSUME NEW c \in Classes, NEW v \in {"ACTIVE", "PAUSED", "ARCHIVED"}, NEW u \in RollUsers,
             Roll!UpdateClass(c, v, u)
      PROVE  RollInv' /\ Roll!Table' = Roll!Table
  BY <1>1, <1>8 DEF Roll!UpdateClass
<1>9. ASSUME NEW s \in RollStudents, NEW c \in Classes, Roll!EndEnrollment(s, c)
      PROVE  RollInv' /\ Roll!Table' = Roll!Table
  BY <1>1, <1>9 DEF Roll!EndEnrollment
<1> QED
  BY <1>2, <1>3, <1>4, <1>5, <1>6, <1>7, <1>8, <1>9 DEF Roll!Next

\* Overlapping rolls of a session, in any order of students and with any of them
\* aborted, are serialised by their commits: readers see whole rolls, one after the
\* other.
THEOREM RollsAreSerial == DeskSpec => RollsSerialize
<1>1. Roll!Init => RollInv
  BY DEF Roll!Init, RollInv, Roll!Idle, Writes
<1>2. RollInv /\ [Roll!Next]_Roll!vars => RollInv'
  BY RollInvStep
<1>3. RollInv /\ [Roll!Next]_Roll!vars =>
        [\/ Roll!Table' = Roll!Table
         \/ \E u \in RollUsers :
               /\ Roll!CommitRoll(u)
               /\ Roll!Table' = Roll!After(Roll!Table, rollOp[u].session, rollOp[u].roll)
        ]_Roll!vars
  BY RollInvStep
<1> QED
  BY <1>1, <1>2, <1>3, DeskImplementsParts, PTL DEF Roll!Spec, Roll!RollsSerialize, RollsSerialize

-----------------------------------------------------------------------------
(* Counting the records of a month                                         *)

\* The sums and sizes that AttendanceService computes are those of the lemmas.
LEMMA RollSum ==
    ASSUME NEW f
    PROVE  Roll!FoldFunction(+, 0, f) = Total(f)
BY DEF Roll!FoldFunction, Roll!FoldFunctionOnSet, Roll!MapThenFoldSet,
       Total, FoldFunction, FoldFunctionOnSet, MapThenFoldSet

LEMMA RollSize ==
    ASSUME NEW S
    PROVE  Roll!Cardinality(S) = Cardinality(S)
BY DEF Roll!Cardinality, Cardinality

\* The rounded share of k in n, in tenths of a percent, is at most 1000.
LEMMA RateBound ==
    ASSUME NEW n \in Nat \ {0}, NEW k \in 0..n
    PROVE  (2000 * k + n) \div (2 * n) \in 0..1000
<1> DEFINE a == 2000 * k + n
           b == 2 * n
           q == a \div b
<1>1. a \in Nat /\ b \in Nat \ {0} /\ a <= 1000 * b + n /\ n < b
  OBVIOUS
<1> HIDE DEF a, b
<1>2. q \in Int /\ b * q <= a /\ a < b * q + b
  BY <1>1
<1> HIDE DEF q
<1>3. q >= 0
  BY <1>1, <1>2
<1>4. ASSUME q >= 1001 PROVE FALSE
  <2>1. b * 1001 <= b * q
    BY <1>1, <1>2, <1>4
  <2> QED BY <1>1, <1>2, <2>1
<1>5. q \in 0..1000
  BY <1>2, <1>3, <1>4
<1> QED BY <1>5 DEF q, a, b

\* What readers see of a record is a mark, or that there is none.
Marked == \A x \in Roll!Sessions, s \in RollStudents : Roll!Visible(x, s) \in Roll!Marks \cup {None}

\* The places of the register: a session and a student.
Places == Roll!Sessions \X RollStudents

\* The places of a month that bear a mark.
Bearing(month, mark) ==
    {e \in Places : e[1][2] \in Roll!ReportDays(month) /\ Roll!Visible(e[1], e[2]) = mark}

\* Sessions and places are finitely many.
LEMMA PlacesFinite == IsFiniteSet(Roll!Sessions) /\ IsFiniteSet(Places)
<1>1. IsFiniteSet(Classes \X Days)
  BY CountingAssumption, FS_Product
<1>2. IsFiniteSet(Roll!Sessions)
  BY <1>1 DEF Roll!Sessions
<1> QED BY <1>2, CountingAssumption, FS_Product DEF Places

\* The reports of all classes add up to the places that bear the mark.
LEMMA ReportsAddUp ==
    ASSUME NEW month, NEW mark
    PROVE  Total([c \in Classes |-> Roll!Counted(c, month, mark)]) = Cardinality(Bearing(month, mark))
<1> DEFINE F == [c \in Classes |-> {e \in Places :
                    /\ e[1][1] = c /\ e[1][2] \in Roll!ReportDays(month)
                    /\ Roll!Visible(e[1], e[2]) = mark}]
           f == [c \in Classes |-> Roll!Counted(c, month, mark)]
<1>1. \A c \in Classes : IsFiniteSet(F[c])
  BY PlacesFinite, FS_Subset
<1>2. \A c, d \in Classes : c # d => F[c] \cap F[d] = {}
  OBVIOUS
<1>3. DOMAIN f = Classes /\ \A c \in Classes : f[c] = Cardinality(F[c])
  BY RollSize DEF Roll!Counted, Places
<1>4. UNION {F[c] : c \in Classes} = Bearing(month, mark)
  <2>1. \A e \in Places : e[1][1] \in Classes
    BY DEF Places, Roll!Sessions
  <2> QED BY <2>1 DEF Bearing
<1>5. IsFiniteSet(Classes)
  BY CountingAssumption
<1> HIDE DEF F, f
<1>6. Total(f) = Cardinality(UNION {F[c] : c \in Classes})
  BY <1>1, <1>2, <1>3, <1>5, SumCounts
<1> QED BY <1>4, <1>6 DEF f

\* So do the summaries of all students.
LEMMA SummariesAddUp ==
    ASSUME NEW month, NEW mark
    PROVE  Total([s \in RollStudents |-> Roll!Summary(s, month, mark)])
             = Cardinality(Bearing(month, mark))
<1> DEFINE E(s) == {x \in Roll!Sessions : x[2] \in Roll!SummaryDays(month) /\ Roll!Visible(x, s) = mark}
           F == [s \in RollStudents |-> E(s) \X {s}]
           f == [s \in RollStudents |-> Roll!Summary(s, month, mark)]
<1>1. ASSUME NEW s \in RollStudents
      PROVE  IsFiniteSet(F[s]) /\ f[s] = Cardinality(F[s])
  <2>1. IsFiniteSet(E(s)) /\ Cardinality(E(s)) \in Nat
    BY PlacesFinite, FS_Subset, FS_CardinalityType
  <2>2. f[s] = Cardinality(E(s))
    BY RollSize DEF Roll!Summary
  <2> HIDE DEF E
  <2>3. IsFiniteSet({s}) /\ Cardinality({s}) = 1
    BY FS_Singleton
  <2>4. IsFiniteSet(E(s) \X {s}) /\ Cardinality(E(s) \X {s}) = Cardinality(E(s)) * Cardinality({s})
    BY <2>1, <2>3, FS_Product
  <2> QED BY <2>1, <2>2, <2>3, <2>4
<1>2. \A s, t \in RollStudents : s # t => F[s] \cap F[t] = {}
  OBVIOUS
<1>3. DOMAIN f = RollStudents
  OBVIOUS
<1>4. UNION {F[s] : s \in RollStudents} = Bearing(month, mark)
  <2>1. Roll!SummaryDays(month) = Roll!ReportDays(month)
    BY DEF Roll!SummaryDays, Roll!ReportDays
  <2> QED BY <2>1 DEF Bearing, Places
<1>5. IsFiniteSet(RollStudents)
  BY CountingAssumption
<1> HIDE DEF F, f
<1>6. Total(f) = Cardinality(UNION {F[s] : s \in RollStudents})
  BY <1>1, <1>2, <1>3, <1>5, SumCounts
<1> QED BY <1>4, <1>6 DEF f

\* The history of a student over a month is what the four summaries count.
LEMMA HistoryAddsUp ==
    ASSUME Marked, NEW month \in Nat, NEW s \in RollStudents
    PROVE  Cardinality(Roll!History(s, month * DaysPerMonth, (month + 1) * DaysPerMonth - 1))
             = Total([mark \in Roll!Marks |-> Roll!Summary(s, month, mark)])
<1> DEFINE F == [mark \in Roll!Marks |->
                    {x \in Roll!Sessions : x[2] \in Roll!SummaryDays(month) /\ Roll!Visible(x, s) = mark}]
           f == [mark \in Roll!Marks |-> Roll!Summary(s, month, mark)]
           lo == month * DaysPerMonth
           hi == (month + 1) * DaysPerMonth
<1>1. \A mark \in Roll!Marks : IsFiniteSet(F[mark])
  BY PlacesFinite, FS_Subset
<1>2. \A k, l \in Roll!Marks : k # l => F[k] \cap F[l] = {}
  OBVIOUS
<1>3. DOMAIN f = Roll!Marks /\ \A mark \in Roll!Marks : f[mark] = Cardinality(F[mark])
  BY RollSize DEF Roll!Summary
<1>4. UNION {F[mark] : mark \in Roll!Marks} = Roll!History(s, lo, hi - 1)
  <2>1. lo \in Int /\ hi \in Int
    BY CountingAssumption
  <2>2. Roll!SummaryDays(month) = {d \in Days : lo <= d /\ d < hi}
    BY DEF Roll!SummaryDays
  <2> HIDE DEF lo, hi
  <2>3. \A x \in Roll!Sessions :
          /\ x[2] \in Roll!SummaryDays(month) <=> lo <= x[2] /\ x[2] <= hi - 1
          /\ Roll!Visible(x, s) # None <=> Roll!Visible(x, s) \in Roll!Marks
    <3> SUFFICES ASSUME NEW x \in Roll!Sessions
                 PROVE  /\ x[2] \in Roll!SummaryDays(month) <=> lo <= x[2] /\ x[2] <= hi - 1
                        /\ Roll!Visible(x, s) # None <=> Roll!Visible(x, s) \in Roll!Marks
      OBVIOUS
    <3>1. x[2] \in Days /\ x[2] \in Nat
      BY CountingAssumption DEF Roll!Sessions
    <3>2. x[2] \in Roll!SummaryDays(month) <=> lo <= x[2] /\ x[2] <= hi - 1
      BY <2>1, <2>2, <3>1
    <3>3. None \notin Roll!Marks
      BY CountingAssumption DEF Roll!Marks
    <3> QED BY <3>2, <3>3 DEF Marked
  <2> QED BY <2>3 DEF Roll!History
<1>5. IsFiniteSet(Roll!Marks)
  <2>1. IsFiniteSet({"PRESENT"} \cup {"LATE"}) /\ IsFiniteSet({"ABSENT"} \cup {"EXCUSED"})
    BY FS_Singleton, FS_Union
  <2>2. IsFiniteSet(({"PRESENT"} \cup {"LATE"}) \cup ({"ABSENT"} \cup {"EXCUSED"}))
    BY <2>1, FS_Union
  <2>3. Roll!Marks = ({"PRESENT"} \cup {"LATE"}) \cup ({"ABSENT"} \cup {"EXCUSED"})
    BY DEF Roll!Marks
  <2> QED BY <2>2, <2>3
<1> HIDE DEF F, f
<1>6. Total(f) = Cardinality(UNION {F[mark] : mark \in Roll!Marks})
  BY <1>1, <1>2, <1>3, <1>5, SumCounts
<1> QED BY <1>4, <1>6 DEF f

\* Who was there is among those who have a record.
LEMMA RateIsBounded ==
    ASSUME NEW month, NEW c \in Classes
    PROVE  Roll!AttendanceRate(c, month) \in {None} \cup 0..1000
<1> DEFINE Of(mark) == {e \in Places : /\ e[1][1] = c /\ e[1][2] \in Roll!ReportDays(month)
                                       /\ Roll!Visible(e[1], e[2]) = mark}
           All == {e \in Places : /\ e[1][1] = c /\ e[1][2] \in Roll!ReportDays(month)
                                  /\ e[2] \in Roll!ListRecords(e[1])}
           n == Cardinality(All)
           k == Cardinality(Of("PRESENT")) + Cardinality(Of("LATE"))
<1>1. Roll!AttendanceRate(c, month) = IF n = 0 THEN None ELSE (2000 * k + n) \div (2 * n)
  BY RollSize DEF Roll!AttendanceRate, Roll!Counted, Places
<1>2. /\ Of("PRESENT") \cup Of("LATE") \subseteq All /\ Of("PRESENT") \cap Of("LATE") = {}
  BY CountingAssumption DEF Roll!ListRecords, Places
<1>3. /\ IsFiniteSet(All) /\ IsFiniteSet(Of("PRESENT")) /\ IsFiniteSet(Of("LATE"))
  BY PlacesFinite, FS_Subset
<1> HIDE DEF Of, All
<1>4. /\ Cardinality(Of("PRESENT")) \in Nat /\ Cardinality(Of("LATE")) \in Nat /\ n \in Nat
  BY <1>3, FS_CardinalityType
<1>5. Cardinality(Of("PRESENT") \cup Of("LATE")) = k
  <2>1. Cardinality(Of("PRESENT") \cap Of("LATE")) = 0
    BY <1>2, FS_EmptySet
  <2>2. Cardinality(Of("PRESENT") \cup Of("LATE"))
          = Cardinality(Of("PRESENT")) + Cardinality(Of("LATE"))
              - Cardinality(Of("PRESENT") \cap Of("LATE"))
    BY <1>3, FS_Union
  <2> QED BY <1>4, <2>1, <2>2
<1>6. Cardinality(Of("PRESENT") \cup Of("LATE")) <= n
  BY <1>2, <1>3, FS_Subset
<1> HIDE DEF n
<1>7. k \in 0..n
  BY <1>4, <1>5, <1>6
<1> HIDE DEF k
<1> QED BY <1>1, <1>4, <1>7, RateBound

\* The classes of an instructor's report bear no more marks than all of them.
LEMMA ReportsStayWithin ==
    ASSUME NEW month, NEW mark, NEW C \in SUBSET Classes
    PROVE  Total([c \in C |-> Roll!Counted(c, month, mark)]) <= Cardinality(Bearing(month, mark))
<1> DEFINE F == [c \in C |-> {e \in Places :
                    /\ e[1][1] = c /\ e[1][2] \in Roll!ReportDays(month)
                    /\ Roll!Visible(e[1], e[2]) = mark}]
           f == [c \in C |-> Roll!Counted(c, month, mark)]
<1>1. \A c \in C : IsFiniteSet(F[c])
  BY PlacesFinite, FS_Subset
<1>2. \A c, d \in C : c # d => F[c] \cap F[d] = {}
  OBVIOUS
<1>3. DOMAIN f = C /\ \A c \in C : f[c] = Cardinality(F[c])
  BY RollSize DEF Roll!Counted, Places
<1>4. UNION {F[c] : c \in C} \subseteq Bearing(month, mark)
  BY DEF Bearing
<1>5. IsFiniteSet(C) /\ IsFiniteSet(Bearing(month, mark))
  BY CountingAssumption, PlacesFinite, FS_Subset DEF Bearing
<1> HIDE DEF F, f
<1>6. Total(f) = Cardinality(UNION {F[c] : c \in C})
  BY <1>1, <1>2, <1>3, <1>5, SumCounts
<1>7. Cardinality(UNION {F[c] : c \in C}) <= Cardinality(Bearing(month, mark))
  BY <1>4, <1>5, FS_Subset
<1> QED BY <1>6, <1>7 DEF f

\* The three reports of a month agree on what readers see.
LEMMA CountsAgreeInMonth ==
    ASSUME Marked, NEW month \in Nat
    PROVE  Roll!CountsAgree(month)
<1>1. ASSUME NEW mark \in Roll!Marks, NEW u \in RollUsers
      PROVE  LET summaries == Roll!FoldFunction(+, 0, [s \in RollStudents |-> Roll!Summary(s, month, mark)])
                 reports == Roll!FoldFunction(+, 0, Roll!Report(u, month, mark))
             IN  IF Role[u] = "ADMIN" THEN reports = summaries ELSE reports <= summaries
  <2> DEFINE f == [s \in RollStudents |-> Roll!Summary(s, month, mark)]
             g == Roll!Report(u, month, mark)
  <2>1. g = [c \in Roll!Reported(u) |-> Roll!Counted(c, month, mark)]
    BY DEF Roll!Report
  <2>2. Roll!Reported(u) \in SUBSET Classes /\ (Role[u] = "ADMIN" => Roll!Reported(u) = Classes)
    BY DEF Roll!Reported
  <2>3. Total(f) = Cardinality(Bearing(month, mark))
    BY SummariesAddUp
  <2>4. Role[u] = "ADMIN" => Total(g) = Total(f)
    BY <2>1, <2>2, <2>3, ReportsAddUp
  <2>5. Total(g) <= Total(f)
    BY <2>1, <2>2, <2>3, ReportsStayWithin
  <2> HIDE DEF f, g
  <2>6. Roll!FoldFunction(+, 0, f) = Total(f) /\ Roll!FoldFunction(+, 0, g) = Total(g)
    BY RollSum
  <2>7. IF Role[u] = "ADMIN" THEN Roll!FoldFunction(+, 0, g) = Roll!FoldFunction(+, 0, f)
                             ELSE Roll!FoldFunction(+, 0, g) <= Roll!FoldFunction(+, 0, f)
    BY <2>4, <2>5, <2>6
  <2> QED BY <2>7 DEF f, g
<1>2. ASSUME NEW s \in RollStudents
      PROVE  Roll!Cardinality(Roll!History(s, month * DaysPerMonth, (month + 1) * DaysPerMonth - 1))
               = Roll!FoldFunction(+, 0, [mark \in Roll!Marks |-> Roll!Summary(s, month, mark)])
  BY RollSum, RollSize, HistoryAddsUp
<1> QED BY <1>1, <1>2, RateIsBounded DEF Roll!CountsAgree

\* A commit shows marks of a roll, and every other step nothing new.
LEMMA MarkedStep ==
    ASSUME RollInv, Marked, [Roll!Next]_Roll!vars
    PROVE  Marked'
<1>1. CASE Roll!Table' = Roll!Table
  <2>1. ASSUME NEW x \in Roll!Sessions, NEW s \in RollStudents
        PROVE  Roll!Visible(x, s)' = Roll!Visible(x, s)
    <3>1. Roll!Table'[x][s] = Roll!Table[x][s]
      BY <1>1
    <3> QED BY <3>1 DEF Roll!Table
  <2> QED BY <2>1 DEF Marked
<1>2. ASSUME NEW u \in RollUsers, Roll!CommitRoll(u),
             Roll!Table' = Roll!After(Roll!Table, rollOp[u].session, rollOp[u].roll)
      PROVE  Marked'
  <2> DEFINE roll == rollOp[u].roll
             At(s) == CHOOSE i \in DOMAIN roll : roll[i].student = s
  <2>1. roll \in Rolls
    BY <1>2 DEF Roll!CommitRoll, RollInv, RollUnderWay
  <2>2. ASSUME NEW s \in Roll!Named(roll) PROVE roll[At(s)].status \in Roll!Marks
    <3>1. At(s) \in DOMAIN roll
      BY DEF Roll!Named
    <3> HIDE DEF At
    <3> QED BY <2>1, <3>1, RollIsSequence
  <2>3. ASSUME NEW x \in Roll!Sessions, NEW s \in RollStudents
        PROVE  Roll!Visible(x, s)' \in Roll!Marks \cup {None}
    <3>1. Roll!Table'[x][s] = IF x = rollOp[u].session /\ s \in Roll!Named(roll)
                              THEN roll[At(s)].status ELSE Roll!Table[x][s]
      BY <1>2 DEF Roll!After
    <3>2. Roll!Table'[x][s] = Roll!Visible(x, s)' /\ Roll!Table[x][s] = Roll!Visible(x, s)
      BY DEF Roll!Table
    <3> HIDE DEF At
    <3> QED BY <2>2, <3>1, <3>2 DEF Marked
  <2> QED BY <2>3 DEF Marked
<1> QED BY <1>1, <1>2, RollInvStep

\* In every month, whether it has sessions or not and while rolls of any number of
\* teachers are in flight, the summaries of all students and the reports of all
\* classes count the same records, the history of a student is what the four
\* summaries count, and no rate exceeds 100 percent.
THEOREM ReportsAlwaysAgree ==
    DeskSpec => []ReportsAgree /\ [](\A month \in Nat : Roll!CountsAgree(month))
<1>1. Roll!Init => RollInv /\ Marked
  <2> SUFFICES ASSUME Roll!Init PROVE RollInv /\ Marked
    OBVIOUS
  <2>1. RollInv
    BY DEF Roll!Init, RollInv, Roll!Idle, Writes
  <2>2. \A x \in Roll!Sessions, s \in RollStudents : Roll!Visible(x, s) = record[x][s]
    BY <2>1, VisibleIs DEF Views, Writes, Roll!Init, Roll!Idle
  <2> QED BY <2>1, <2>2 DEF Marked, Roll!Init
<1>2. RollInv /\ Marked /\ [Roll!Next]_Roll!vars => RollInv' /\ Marked'
  BY RollInvStep, MarkedStep
<1>3. Marked => \A month \in Nat : Roll!CountsAgree(month)
  BY CountsAgreeInMonth
<1>4. (\A month \in Nat : Roll!CountsAgree(month)) => ReportsAgree
  <2>1. ASSUME NEW x \in Roll!Sessions PROVE x[2] \div DaysPerMonth \in Nat
    <3>1. x[2] \in Nat /\ DaysPerMonth \in Nat \ {0}
      BY CountingAssumption DEF Roll!Sessions
    <3> QED BY <3>1
  <2> QED BY <2>1 DEF ReportsAgree, Roll!ReportsAgree
<1> QED
  BY <1>1, <1>2, <1>3, <1>4, DeskImplementsParts, PTL DEF Roll!Spec

=============================================================================
