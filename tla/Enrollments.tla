---------------------------- MODULE Enrollments ----------------------------
(***************************************************************************)
(* Class membership: EnrollmentsService.create and remove against          *)
(* ClassesService.update, over the tables classes and enrollments.         *)
(*                                                                         *)
(* Grain.  create takes the class row FOR UPDATE, runs its checks and      *)
(* inserts; the checks and the insert are two steps, because a removal, a  *)
(* change of the student's profile and the clock can come between them.    *)
(* Every other write of the class row waits for that lock.  update counts  *)
(* the members in one statement and writes the class in a later one, with  *)
(* no transaction around them.                                             *)
(***************************************************************************)
EXTENDS Null, Integers, FiniteSets

CONSTANTS
    Classes, Students,
    Rows,         \* ids of enrollments rows
    Clerks,       \* create requests that may be in flight together
    Editors,      \* class update requests that may be in flight together
    MaxCapacity,  \* bound on a class's capacity
    MaxDay        \* bound on the calendar

ASSUME EnrollmentsAssumption ==
    /\ IsFiniteSet(Rows)
    /\ MaxCapacity \in Nat
    /\ MaxDay \in Nat
    /\ None \notin Classes
    /\ None \notin Students

ClassStatus == {"ACTIVE", "PAUSED", "ARCHIVED"}
Capacities == 1..MaxCapacity

Enrollment == [state : {"ABSENT", "OPEN", "LEFT"}, student : Students \cup {None},
               class : Classes \cup {None}, day : 0..MaxDay]

VARIABLES
    status,      \* class -> status
    capacity,    \* class -> capacity
    eligible,    \* students whose profile is ACTIVE and not deleted
    enrollment,  \* row id -> row; "OPEN" means left_at is null
    today,       \* the current UTC day
    create,      \* create request -> what its transaction is about to insert
    edit         \* update request -> the capacity it is about to write

vars == <<status, capacity, eligible, enrollment, today, create, edit>>

NoRow == [state |-> "ABSENT", student |-> None, class |-> None, day |-> 0]

NoCreate == [student |-> None, class |-> None, day |-> 0]

NoEdit == [class |-> None, capacity |-> 0]

Init ==
    /\ status = [c \in Classes |-> "ACTIVE"]
    /\ capacity \in [Classes -> Capacities]
    /\ eligible = Students
    /\ enrollment = [r \in Rows |-> NoRow]
    /\ today = 0
    /\ create = [k \in Clerks |-> NoCreate]
    /\ edit = [u \in Editors |-> NoEdit]

-----------------------------------------------------------------------------
\* Members of class c: its rows with left_at null.
Active(c) == {r \in Rows : enrollment[r].state = "OPEN" /\ enrollment[r].class = c}

\* Rows of one student in one class, past ones included.
History(s, c) ==
    {r \in Rows : /\ enrollment[r].state # "ABSENT"
                  /\ enrollment[r].student = s
                  /\ enrollment[r].class = c}

\* Mutant: create runs without the row lock.
NoLock(c) == TRUE

\* Nobody holds the row lock of class c.
LockFree(c) == \A k \in Clerks : create[k].class # c

-----------------------------------------------------------------------------
(* EnrollmentsService                                                      *)

\* Mutant: the capacity comparison is off by one.
RoomForOneMore(c) == Cardinality(Active(c)) <= capacity[c]

HasRoom(c) == Cardinality(Active(c)) < capacity[c]

\* create up to its insert: lock the class, then every check.
CheckEnrollment(k, s, c) ==
    /\ create[k] = NoCreate
    /\ LockFree(c)
    /\ status[c] = "ACTIVE"
    /\ s \in eligible
    /\ \A r \in History(s, c) : enrollment[r].state # "OPEN"
    /\ \A r \in History(s, c) : enrollment[r].day < today
    /\ HasRoom(c)
    /\ create' = [create EXCEPT ![k] = [student |-> s, class |-> c, day |-> today]]
    /\ UNCHANGED <<status, capacity, eligible, enrollment, today, edit>>

NewEnrollment(k) == [state |-> "OPEN", student |-> create[k].student,
                     class |-> create[k].class, day |-> create[k].day]

\* The insert and the commit, which frees the lock.
InsertEnrollment(k, r) ==
    /\ create[k] # NoCreate
    /\ enrollment[r].state = "ABSENT"
    /\ enrollment' = [enrollment EXCEPT ![r] = NewEnrollment(k)]
    /\ create' = [create EXCEPT ![k] = NoCreate]
    /\ UNCHANGED <<status, capacity, eligible, today, edit>>

\* The transaction fails before its commit.
AbortEnrollment(k) ==
    /\ create[k] # NoCreate
    /\ create' = [create EXCEPT ![k] = NoCreate]
    /\ UNCHANGED <<status, capacity, eligible, enrollment, today, edit>>

\* remove finds the row open and stamps left_at by id.  One step stands for both: an
\* open row can only become a left one, so whatever comes between them, the stamp
\* has the effect it would have if the row were looked up at that moment, or none.
RemoveEnrollment(r) ==
    /\ enrollment[r].state = "OPEN"
    /\ enrollment' = [enrollment EXCEPT ![r] =
                        [state |-> "LEFT", student |-> enrollment[r].student,
                         class |-> enrollment[r].class, day |-> enrollment[r].day]]
    /\ UNCHANGED <<status, capacity, eligible, today, create, edit>>

-----------------------------------------------------------------------------
(* ClassesService.update                                                   *)

\* The members are counted, without a lock, against the wanted capacity.
CheckCapacity(u, c, n) ==
    /\ edit[u] = NoEdit
    /\ n >= Cardinality(Active(c))
    /\ edit' = [edit EXCEPT ![u] = [class |-> c, capacity |-> n]]
    /\ UNCHANGED <<status, capacity, eligible, enrollment, today, create>>

\* The UPDATE statement, which waits for the row lock.
WriteCapacity(u) ==
    /\ edit[u] # NoEdit
    /\ LockFree(edit[u].class)
    /\ capacity' = [capacity EXCEPT ![edit[u].class] = edit[u].capacity]
    /\ edit' = [edit EXCEPT ![u] = NoEdit]
    /\ UNCHANGED <<status, eligible, enrollment, today, create>>

\* An update that only changes the status.
WriteStatus(c, v) ==
    /\ status[c] # v
    /\ LockFree(c)
    /\ status' = [status EXCEPT ![c] = v]
    /\ UNCHANGED <<capacity, eligible, enrollment, today, create, edit>>

-----------------------------------------------------------------------------
(* The rest of the world                                                   *)

\* StudentsService: approval, suspension or soft delete of a profile.
ChangeProfile(s) ==
    /\ eligible' = IF s \in eligible THEN eligible \ {s} ELSE eligible \cup {s}
    /\ UNCHANGED <<status, capacity, enrollment, today, create, edit>>

\* startOfUtcDay moves on.
Midnight ==
    /\ today < MaxDay
    /\ today' = today + 1
    /\ UNCHANGED <<status, capacity, eligible, enrollment, create, edit>>

Next ==
    \/ \E k \in Clerks, s \in Students, c \in Classes : CheckEnrollment(k, s, c)
    \/ \E k \in Clerks, r \in Rows : InsertEnrollment(k, r)
    \/ \E k \in Clerks : AbortEnrollment(k)
    \/ \E r \in Rows : RemoveEnrollment(r)
    \/ \E u \in Editors, c \in Classes, n \in Capacities : CheckCapacity(u, c, n)
    \/ \E u \in Editors : WriteCapacity(u)
    \/ \E c \in Classes, v \in ClassStatus : WriteStatus(c, v)
    \/ \E s \in Students : ChangeProfile(s)
    \/ Midnight

Spec == Init /\ [][Next]_vars

-----------------------------------------------------------------------------
(* Properties                                                              *)

\* Every variable stays in its type.
TypeOK ==
    /\ status \in [Classes -> ClassStatus]
    /\ capacity \in [Classes -> Capacities]
    /\ eligible \subseteq Students
    /\ enrollment \in [Rows -> Enrollment]
    /\ today \in 0..MaxDay
    /\ create \in [Clerks -> [student : Students \cup {None},
                              class : Classes \cup {None}, day : 0..MaxDay]]
    /\ edit \in [Editors -> [class : Classes \cup {None}, capacity : 0..MaxCapacity]]

\* What a create transaction found before it inserts is still true when it
\* does, because the row lock keeps other creates and class updates out: there
\* is room, the class is active, the student has no open row and none of today.
ChecksHoldUnderLock ==
    \A k \in Clerks : create[k] # NoCreate =>
        /\ HasRoom(create[k].class)
        /\ status[create[k].class] = "ACTIVE"
        /\ \A r \in History(create[k].student, create[k].class) :
              enrollment[r].state # "OPEN" /\ enrollment[r].day # create[k].day

\* A student is a member of a class at most once, and joins it at most once a
\* day: the index on enrolled_at::date that the plan asks for does not exist,
\* the row lock alone keeps it.
OneOpenRowOneRowPerDay ==
    \A r, q \in Rows :
        (/\ r # q
         /\ enrollment[r].state # "ABSENT" /\ enrollment[q].state # "ABSENT"
         /\ enrollment[r].student = enrollment[q].student
         /\ enrollment[r].class = enrollment[q].class) =>
            /\ enrollment[r].day # enrollment[q].day
            /\ ~(enrollment[r].state = "OPEN" /\ enrollment[q].state = "OPEN")

\* No step that adds a member takes a class beyond the capacity in force.
EnrollingNeverOverbooks ==
    [][\A c \in Classes :
          Cardinality(Active(c)') > Cardinality(Active(c)) =>
             /\ Cardinality(Active(c)') <= capacity[c]
             /\ status[c] = "ACTIVE"]_vars

\* "Keep the invariant the enrollment flow enforces: active enrollments <=
\* capacity", as update's comment promises.
ActiveWithinCapacity == \A c \in Classes : Cardinality(Active(c)) <= capacity[c]

=============================================================================
