------------------------------- MODULE Leaves -------------------------------
(***************************************************************************)
(* Absence requests: LeavesService.create, review, cancel and delete.      *)
(*                                                                         *)
(* Grain.  Every operation reads the rows it decides on in one step and    *)
(* writes in a later one; nothing is locked between them.  A row is        *)
(* written by its id, whatever its status has become, and fails if the row *)
(* has gone.                                                               *)
(***************************************************************************)
EXTENDS Null, Integers, FiniteSets

CONSTANTS
    Users, Students, Classes,
    Role,        \* user -> ADMIN, INSTRUCTOR, STUDENT or PARENT
    Reach,       \* user -> students the ownership guard lets the user act for
    Instructor,  \* class -> the user who teaches it
    Account,     \* student -> the user of the profile, or None
    Rows,        \* ids of leave_requests rows
    MaxDay       \* bound on the calendar

VARIABLES
    request,  \* row id -> row
    member,   \* <<student, class>> of the open enrolments
    open,     \* classes that are ACTIVE
    today,
    op        \* user -> the operation the user has in flight

vars == <<request, member, open, today, op>>
world == <<member, open, today>>

Verdicts == {"APPROVED", "REJECTED"}
Decided == Verdicts \cup {"CANCELLED"}

NoRow == [status |-> "ABSENT", student |-> None, class |-> None, day |-> 0, by |-> None,
          reviewer |-> None]
Idle == [kind |-> "IDLE"]

Init ==
    /\ request = [r \in Rows |-> NoRow]
    /\ member = Students \X Classes
    /\ open = Classes
    /\ today = 0
    /\ op = [u \in Users |-> Idle]

Stored(r) == request[r].status \notin {"ABSENT", "DELETED"}

WithStatus(r, status) ==
    [status |-> status, student |-> request[r].student, class |-> request[r].class,
     day |-> request[r].day, by |-> request[r].by, reviewer |-> request[r].reviewer]

-----------------------------------------------------------------------------
(* create                                                                  *)

\* The roles of the route, the guard, the date, the class and the enrolment, in that
\* order.
CheckCreate(u, s, c, day) ==
    /\ op[u].kind = "IDLE"
    /\ Role[u] \in {"ADMIN", "STUDENT", "PARENT"}
    /\ s \in Reach[u]
    /\ day >= today
    /\ c \in open
    /\ <<s, c>> \in member
    /\ op' = [op EXCEPT ![u] = [kind |-> "CREATE", student |-> s, class |-> c, day |-> day]]
    /\ UNCHANGED <<request, world>>

\* The unique index on (student, class, date).
Taken(u) ==
    \E r \in Rows : /\ Stored(r)
                    /\ request[r].student = op[u].student
                    /\ request[r].class = op[u].class
                    /\ request[r].day = op[u].day

InsertRequest(u, r) ==
    /\ op[u].kind = "CREATE"
    /\ request[r].status = "ABSENT"
    /\ ~Taken(u)
    /\ request' = [request EXCEPT ![r] =
                     [status |-> "PENDING", student |-> op[u].student,
                      class |-> op[u].class, day |-> op[u].day, by |-> u, reviewer |-> None]]
    /\ op' = [op EXCEPT ![u] = Idle]
    /\ UNCHANGED world

\* A conflict on the index is answered with 409.
RefuseRequest(u) ==
    /\ op[u].kind = "CREATE"
    /\ Taken(u)
    /\ op' = [op EXCEPT ![u] = Idle]
    /\ UNCHANGED <<request, world>>

-----------------------------------------------------------------------------
(* review, cancel and delete                                               *)

\* An instructor reviews only requests for the classes he teaches.
MayReview(u, r) ==
    \/ Role[u] = "ADMIN"
    \/ Role[u] = "INSTRUCTOR" /\ Instructor[request[r].class] = u

CheckReview(u, r, verdict) ==
    /\ op[u].kind = "IDLE"
    /\ request[r].status = "PENDING"
    /\ MayReview(u, r)
    /\ op' = [op EXCEPT ![u] = [kind |-> "DECIDE", row |-> r, status |-> verdict]]
    /\ UNCHANGED <<request, world>>

\* cancel reads a pending request of the caller, or any as an administrator.
MayCancel(u, r) ==
    /\ request[r].status = "PENDING"
    /\ Role[u] = "ADMIN" \/ u \in {request[r].by, Account[request[r].student]}

CheckCancel(u, r) ==
    /\ op[u].kind = "IDLE"
    /\ Stored(r)
    /\ MayCancel(u, r)
    /\ op' = [op EXCEPT ![u] = [kind |-> "DECIDE", row |-> r, status |-> "CANCELLED"]]
    /\ UNCHANGED <<request, world>>

\* Mutant: a review writes the status alone as well.
WrittenUnsigned(u) == WithStatus(op[u].row, op[u].status)

\* The columns a decision writes: cancel the status alone, review its author too.
Written(u) ==
    LET q == request[op[u].row] IN
    [status |-> op[u].status, student |-> q.student, class |-> q.class, day |-> q.day,
     by |-> q.by, reviewer |-> IF op[u].status = "CANCELLED" THEN q.reviewer ELSE u]

\* The update by id: it asks nothing of the status the row has by now, and fails
\* when the row is no longer there.
Decide(u) ==
    /\ op[u].kind = "DECIDE"
    /\ request' = IF Stored(op[u].row) THEN [request EXCEPT ![op[u].row] = Written(u)]
                  ELSE request
    /\ op' = [op EXCEPT ![u] = Idle]
    /\ UNCHANGED world

\* delete, by an administrator.
Delete(u, r) ==
    /\ op[u].kind = "IDLE"
    /\ Role[u] = "ADMIN"
    /\ Stored(r)
    /\ request' = [request EXCEPT ![r] = WithStatus(r, "DELETED")]
    /\ UNCHANGED <<op, world>>

-----------------------------------------------------------------------------
(* The rest of the world                                                   *)

\* An enrolment ends, a class is paused or taken up again, the day changes.
EndEnrollment(s, c) ==
    /\ <<s, c>> \in member
    /\ member' = member \ {<<s, c>>}
    /\ UNCHANGED <<request, open, today, op>>

ChangeClass(c) ==
    /\ open' = IF c \in open THEN open \ {c} ELSE open \cup {c}
    /\ UNCHANGED <<request, member, today, op>>

Midnight ==
    /\ today < MaxDay
    /\ today' = today + 1
    /\ UNCHANGED <<request, member, open, op>>

Next ==
    \/ \E u \in Users, s \in Students, c \in Classes, day \in 0..MaxDay :
          CheckCreate(u, s, c, day)
    \/ \E u \in Users, r \in Rows : InsertRequest(u, r) \/ CheckCancel(u, r) \/ Delete(u, r)
    \/ \E u \in Users : RefuseRequest(u) \/ Decide(u)
    \/ \E u \in Users, r \in Rows, verdict \in Verdicts : CheckReview(u, r, verdict)
    \/ \E s \in Students, c \in Classes : EndEnrollment(s, c)
    \/ \E c \in Classes : ChangeClass(c)
    \/ Midnight

Spec == Init /\ [][Next]_vars

-----------------------------------------------------------------------------
(* Properties                                                              *)

\* An approval or a rejection names the user who gave it, and that is an
\* administrator or the instructor of the class, whatever reviews and cancels of the
\* same request overlap; a pending request names nobody.
VerdictsAreSigned ==
    \A r \in Rows :
        /\ request[r].status \in Verdicts => /\ request[r].reviewer \in Users
                                             /\ \/ Role[request[r].reviewer] = "ADMIN"
                                                \/ Instructor[request[r].class] = request[r].reviewer
        /\ request[r].status = "PENDING" => request[r].reviewer = None

\* "Only PENDING can be reviewed (409 after finality)" and "final states cannot be
\* cancelled (409)", as the contract says: a decided request keeps its decision, short
\* of an administrator deleting the row.
DecisionsAreFinal ==
    [][\A r \in Rows : request[r].status \in Decided =>
          request'[r] \in {request[r], WithStatus(r, "DELETED")}]_vars

=============================================================================
