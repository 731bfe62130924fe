---------------------------- MODULE Evaluations ----------------------------
(***************************************************************************)
(* Evaluations of students: EvaluationsService.create, update and delete.  *)
(*                                                                         *)
(* Grain.  Each operation checks in one step and writes in a later one.    *)
(***************************************************************************)
EXTENDS Null, Integers, FiniteSets

CONSTANTS
    Users, Students, Classes, Periods,
    Role,        \* user -> ADMIN or INSTRUCTOR
    Reach,       \* user -> students the ownership guard lets the user act for
    Instructor,  \* class -> the user who teaches it
    Ratings,     \* 1..10 in the code
    Rows         \* ids of student_evaluations rows

VARIABLES
    evaluation,  \* row id -> row; writer is the user whose rating it holds
    op           \* user -> the operation the user has in flight

vars == <<evaluation, op>>

NoRow == [state |-> "ABSENT", student |-> None, by |-> None, class |-> None, period |-> 0,
          rating |-> 0, writer |-> None]
Idle == [kind |-> "IDLE"]

Init ==
    /\ evaluation = [r \in Rows |-> NoRow]
    /\ op = [u \in Users |-> Idle]

Stored(r) == evaluation[r].state = "STORED"

\* The class an evaluation may name: none, or for an instructor one he teaches.
MayName(u, c) == (c # None /\ Role[u] = "INSTRUCTOR") => Instructor[c] = u

\* The guard and the class; month and year come together, 0 is no period.
CheckCreate(u, s, c, period, rating) ==
    /\ op[u].kind = "IDLE"
    /\ s \in Reach[u]
    /\ MayName(u, c)
    /\ op' = [op EXCEPT ![u] = [kind |-> "CREATE", student |-> s, class |-> c,
                                period |-> period, rating |-> rating]]
    /\ UNCHANGED evaluation

\* The unique index on (student, author, month, year), which rows without a
\* period never meet.
Taken(u) ==
    \E r \in Rows : /\ Stored(r) /\ evaluation[r].by = u
                    /\ evaluation[r].student = op[u].student
                    /\ evaluation[r].period = op[u].period /\ op[u].period # 0

Insert(u, r) ==
    /\ op[u].kind = "CREATE"
    /\ evaluation[r].state = "ABSENT"
    /\ evaluation' = IF Taken(u) THEN evaluation
                     ELSE [evaluation EXCEPT ![r] =
                             [state |-> "STORED", student |-> op[u].student, by |-> u,
                              class |-> op[u].class, period |-> op[u].period,
                              rating |-> op[u].rating, writer |-> u]]
    /\ op' = [op EXCEPT ![u] = Idle]

\* Mutant: anybody may change an evaluation.
AnyUser(u, r) == TRUE

\* update and delete are for the author and administrators.
Owns(u, r) == Role[u] = "ADMIN" \/ evaluation[r].by = u

CheckChange(u, r, kind, rating) ==
    /\ op[u].kind = "IDLE"
    /\ Stored(r)
    /\ Owns(u, r)
    /\ op' = [op EXCEPT ![u] = [kind |-> kind, row |-> r, rating |-> rating]]
    /\ UNCHANGED evaluation

\* The write by id, which fails when the row has gone.
WriteChange(u) ==
    LET o == op[u]
        e == evaluation[o.row]
    IN
    /\ o.kind \in {"UPDATE", "DELETE"}
    /\ evaluation' =
         IF ~Stored(o.row) THEN evaluation
         ELSE [evaluation EXCEPT ![o.row] =
                 [state |-> IF o.kind = "DELETE" THEN "DELETED" ELSE "STORED",
                  student |-> e.student, by |-> e.by, class |-> e.class, period |-> e.period,
                  rating |-> IF o.kind = "DELETE" THEN e.rating ELSE o.rating, writer |-> u]]
    /\ op' = [op EXCEPT ![u] = Idle]

Next ==
    \/ \E u \in Users, s \in Students, c \in Classes \cup {None}, period \in Periods \cup {0},
          rating \in Ratings : CheckCreate(u, s, c, period, rating)
    \/ \E u \in Users, r \in Rows : Insert(u, r)
    \/ \E u \in Users, r \in Rows, kind \in {"UPDATE", "DELETE"}, rating \in Ratings :
          CheckChange(u, r, kind, rating)
    \/ \E u \in Users : WriteChange(u)

Spec == Init /\ [][Next]_vars

-----------------------------------------------------------------------------
(* Properties                                                              *)

\* What an evaluation says, and its removal, comes from its author or from an
\* administrator; an instructor's names no class but his own; and an author has one
\* evaluation of a student per period.
EvaluationsAreTheAuthors ==
    /\ \A r \in Rows : evaluation[r].state # "ABSENT" =>
          /\ evaluation[r].writer = evaluation[r].by \/ Role[evaluation[r].writer] = "ADMIN"
          /\ MayName(evaluation[r].by, evaluation[r].class)
    /\ \A r, q \in Rows :
          (/\ r # q /\ Stored(r) /\ Stored(q) /\ evaluation[r].period # 0
           /\ evaluation[r].period = evaluation[q].period
           /\ evaluation[r].student = evaluation[q].student)
              => evaluation[r].by # evaluation[q].by

=============================================================================
