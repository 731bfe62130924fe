----------------------------- MODULE Attendance -----------------------------
(***************************************************************************)
(* Roll calls: AttendanceService.createSession and upsertRecords, the      *)
(* gates they share with ClassesService, and the four ways the records are *)
(* read back: listRecords, history, summary and monthlyReport.             *)
(*                                                                         *)
(* Grain.  A roll is checked in one step; its upserts then run one by one  *)
(* in one transaction.  Each holds the row lock of its record until the    *)
(* commit, which makes all of them visible.  Two rolls that name the same  *)
(* students in different orders can block each other: the database then    *)
(* aborts one of them.                                                     *)
(***************************************************************************)
EXTENDS Null, Integers, FiniteSets, Sequences, Functions

CONSTANTS
    Users, Students, Classes,
    Role,          \* user -> ADMIN or INSTRUCTOR
    Rolls,         \* bodies of upsertRecords: sequences of student and status
    Days,          \* days of the calendar, 0..MaxDay
    DaysPerMonth

VARIABLES
    class,      \* class -> status and instructor
    member,     \* <<student, class>> of the open enrolments
    session,    \* <<class, day>> -> instructor of the session row, or None
    record,     \* <<class, day>> -> student -> newest version of the status, or None
    op          \* user -> the operation the user has in flight

vars == <<class, member, session, record, op>>

Marks == {"PRESENT", "LATE", "ABSENT", "EXCUSED"}
Sessions == Classes \X Days
Idle == [kind |-> "IDLE"]

Teachers == {u \in Users : Role[u] = "INSTRUCTOR"}

Init ==
    /\ class \in [Classes -> [status : {"ACTIVE"}, instructor : Teachers]]
    /\ member = Students \X Classes
    /\ session = [x \in Sessions |-> None]
    /\ record = [x \in Sessions |-> [s \in Students |-> None]]
    /\ op = [u \in Users |-> Idle]

-----------------------------------------------------------------------------
(* createSession                                                           *)

\* assertManageable and assertSessionAccessible: administrators, and the
\* instructor of the class.
Manages(u, c) == Role[u] = "ADMIN" \/ class[c].instructor = u

CheckSession(u, x) ==
    /\ op[u].kind = "IDLE"
    /\ Manages(u, x[1])
    /\ class[x[1]].status = "ACTIVE"
    /\ op' = [op EXCEPT ![u] =
                [kind |-> "SESSION", session |-> x,
                 instructor |-> IF Role[u] = "INSTRUCTOR" THEN u ELSE class[x[1]].instructor]]
    /\ UNCHANGED <<class, member, session, record>>

\* The insert; the unique index on (class, date) answers a second one with 409.
InsertSession(u) ==
    /\ op[u].kind = "SESSION"
    /\ session' = IF session[op[u].session] = None
                  THEN [session EXCEPT ![op[u].session] = op[u].instructor] ELSE session
    /\ op' = [op EXCEPT ![u] = Idle]
    /\ UNCHANGED <<class, member, record>>

-----------------------------------------------------------------------------
(* upsertRecords                                                           *)

Named(roll) == {roll[i].student : i \in DOMAIN roll}

NoDuplicates(roll) == Cardinality(Named(roll)) = Len(roll)

\* The session, the names and the enrolments are checked before the transaction.
CheckRoll(u, x, roll) ==
    /\ op[u].kind = "IDLE"
    /\ session[x] # None
    /\ Manages(u, x[1])
    /\ NoDuplicates(roll)
    /\ Named(roll) \X {x[1]} \subseteq member
    /\ op' = [op EXCEPT ![u] = [kind |-> "ROLL", session |-> x, roll |-> roll, done |-> 0,
                                old |-> [s \in Students |-> None]]]
    /\ UNCHANGED <<class, member, session, record>>

\* Students whose record the transaction of u has written.
Written(u) == {op[u].roll[i].student : i \in 1..op[u].done}

\* Mutant: an upsert does not wait for another transaction.
NeverHeld(u, x, s) == FALSE

\* Another transaction holds the lock of the record of s in session x.
Held(u, x, s) ==
    \E v \in Users \ {u} : op[v].kind = "ROLL" /\ op[v].session = x /\ s \in Written(v)

\* The next upsert waits for its lock and writes a version that only the commit
\* shows; the version it replaces is kept until then.
UpsertNext(u) ==
    LET o == op[u]
        x == o.session
        s == o.roll[o.done + 1].student
    IN
    /\ o.kind = "ROLL"
    /\ o.done < Len(o.roll)
    /\ ~Held(u, x, s)
    /\ record' = [record EXCEPT ![x][s] = o.roll[o.done + 1].status]
    /\ op' = [op EXCEPT ![u] = [kind |-> "ROLL", session |-> x, roll |-> o.roll,
                                done |-> o.done + 1, old |-> [o.old EXCEPT ![s] = record[x][s]]]]
    /\ UNCHANGED <<class, member, session>>

CommitRoll(u) ==
    LET o == op[u] IN
    /\ o.kind = "ROLL"
    /\ o.done = Len(o.roll)
    /\ op' = [op EXCEPT ![u] = Idle]
    /\ UNCHANGED <<class, member, session, record>>

\* The database aborts a transaction, a deadlock's victim among others, and
\* brings the versions it replaced back.
AbortRoll(u) ==
    LET o == op[u] IN
    /\ o.kind = "ROLL"
    /\ record' = [record EXCEPT ![o.session] =
                     [s \in Students |-> IF s \in Written(u) THEN o.old[s] ELSE @[s]]]
    /\ op' = [op EXCEPT ![u] = Idle]
    /\ UNCHANGED <<class, member, session>>

-----------------------------------------------------------------------------
(* The rest of the world                                                   *)

\* ClassesService.update: another status, or another active instructor.
UpdateClass(c, status, u) ==
    /\ u \in Teachers
    /\ class' = [class EXCEPT ![c] = [status |-> status, instructor |-> u]]
    /\ UNCHANGED <<member, session, record, op>>

\* EnrollmentsService.remove.
EndEnrollment(s, c) ==
    /\ <<s, c>> \in member
    /\ member' = member \ {<<s, c>>}
    /\ UNCHANGED <<class, session, record, op>>

Next ==
    \/ \E u \in Users, x \in Sessions : CheckSession(u, x)
    \/ \E u \in Users, x \in Sessions, roll \in Rolls : CheckRoll(u, x, roll)
    \/ \E u \in Users : InsertSession(u) \/ UpsertNext(u) \/ CommitRoll(u) \/ AbortRoll(u)
    \/ \E c \in Classes, status \in {"ACTIVE", "PAUSED", "ARCHIVED"}, u \in Users :
          UpdateClass(c, status, u)
    \/ \E s \in Students, c \in Classes : EndEnrollment(s, c)

Spec == Init /\ [][Next]_vars

-----------------------------------------------------------------------------
(* Reading the records back                                                *)

\* The committed version, which is what every other statement reads.
Visible(x, s) ==
    LET writers == {u \in Users : op[u].kind = "ROLL" /\ op[u].session = x /\ s \in Written(u)}
    IN  IF writers = {} THEN record[x][s] ELSE op[CHOOSE u \in writers : TRUE].old[s]

\* monthRange of the summary, and the range of the report: two computations.
SummaryDays(month) == {d \in Days : month * DaysPerMonth <= d /\ d < (month + 1) * DaysPerMonth}

\* Mutant: the report includes the first day of the next month.
ReportDaysInclusive(month) ==
    {d \in Days : month * DaysPerMonth <= d /\ d <= (month + 1) * DaysPerMonth}

ReportDays(month) == {d \in Days : month * DaysPerMonth <= d /\ d < (month + 1) * DaysPerMonth}

\* listRecords: the students recorded in one session.
ListRecords(x) == {s \in Students : Visible(x, s) # None}

\* history: the sessions with a record of student s between two days, inclusive.
History(s, from, to) ==
    {x \in Sessions : from <= x[2] /\ x[2] <= to /\ Visible(x, s) # None}

\* summary: how often student s got one mark in a month.
Summary(s, month, mark) ==
    Cardinality({x \in Sessions : x[2] \in SummaryDays(month) /\ Visible(x, s) = mark})

\* monthlyReport has a row for every class of an administrator's report, and for the
\* classes an instructor teaches that are not archived.
Reported(u) ==
    {c \in Classes : Role[u] = "ADMIN" \/ (class[c].instructor = u /\ class[c].status # "ARCHIVED")}

\* The count of one mark in class c.
Counted(c, month, mark) ==
    Cardinality({e \in Sessions \X Students :
                   /\ e[1][1] = c /\ e[1][2] \in ReportDays(month)
                   /\ Visible(e[1], e[2]) = mark})

\* What user u reads of one mark.  The classes, their sessions and the records are
\* three statements, taken here in one state.
Report(u, month, mark) == [c \in Reported(u) |-> Counted(c, month, mark)]

\* The rate of a row in tenths of a percent, rounded half up.
AttendanceRate(c, month) ==
    LET marked == Cardinality({e \in Sessions \X Students :
                                 /\ e[1][1] = c /\ e[1][2] \in ReportDays(month)
                                 /\ e[2] \in ListRecords(e[1])})
        there == Counted(c, month, "PRESENT") + Counted(c, month, "LATE")
    IN  IF marked = 0 THEN None ELSE (2000 * there + marked) \div (2 * marked)

-----------------------------------------------------------------------------
(* Properties                                                              *)

\* What readers see of every session.
Table == [x \in Sessions |-> [s \in Students |-> Visible(x, s)]]

\* A table after a roll of session x that runs alone.
After(table, x, roll) ==
    [y \in Sessions |-> [s \in Students |->
        IF y = x /\ s \in Named(roll)
        THEN roll[CHOOSE i \in DOMAIN roll : roll[i].student = s].status
        ELSE table[y][s]]]

\* Rolls of several teachers behave as if they had come one after the other: what
\* readers see changes only by a commit, which then shows that teacher's roll
\* whole and nothing else; an aborted roll leaves no trace.
RollsSerialize ==
    [][\/ Table' = Table
       \/ \E u \in Users : /\ CommitRoll(u)
                           /\ Table' = After(Table, op[u].session, op[u].roll)]_vars

\* In one month the per-student summaries, the per-student history and an
\* administrator's per-class report count the same records, an instructor's report
\* counts no more of them, and a rate lies between 0 and 100 percent.
CountsAgree(month) ==
    /\ \A mark \in Marks, u \in Users :
          LET summaries == FoldFunction(+, 0, [s \in Students |-> Summary(s, month, mark)])
              reports == FoldFunction(+, 0, Report(u, month, mark))
          IN  IF Role[u] = "ADMIN" THEN reports = summaries ELSE reports <= summaries
    /\ \A s \in Students :
          Cardinality(History(s, month * DaysPerMonth, (month + 1) * DaysPerMonth - 1))
            = FoldFunction(+, 0, [mark \in Marks |-> Summary(s, month, mark)])
    /\ \A c \in Classes : AttendanceRate(c, month) \in {None} \cup 0..1000

\* The counts agree in every month that has a session, and so can have records.
ReportsAgree ==
    \A x \in Sessions : session[x] # None => CountsAgree(x[2] \div DaysPerMonth)

=============================================================================
