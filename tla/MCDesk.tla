------------------------------- MODULE MCDesk -------------------------------
(***************************************************************************)
(* Small instances of the desk, and of the sessions of an account, for     *)
(* TLC.  The parts write disjoint tables, so each is explored on its own,  *)
(* chosen in the initial state, with the others at rest.  The sessions are *)
(* explored twice, to keep the run short: with all calls at once while     *)
(* nothing expires, and with the clock next to one call.                   *)
(***************************************************************************)
EXTENDS Desk, Sessions, TLC

CONSTANTS
    adm, ins, aid, stu, par,  \* an administrator, two instructors, a student's
                              \* account and a parent
    s1, s2, c1,               \* students, a class
    q1, q2                    \* ids of rows

VARIABLE part

MCRole == [u \in {adm, ins, aid, stu, par} |->
             CASE u = adm -> "ADMIN" [] u \in {ins, aid} -> "INSTRUCTOR"
               [] u = stu -> "STUDENT" [] u = par -> "PARENT"]

MCReach == [u \in {adm, ins, aid, stu, par} |-> IF u \in {adm, ins} THEN {s1, s2} ELSE {s1}]

MCAccount == [s \in {s1, s2} |-> IF s = s1 THEN stu ELSE None]

MCInstructor == [c \in {c1} |-> ins]

MCJoined == [u \in {adm, ins, aid, stu} |-> IF u = stu THEN {c1} ELSE {}]

MCDays == 0..1

\* Two rolls that name two students in opposite orders, and one that names a
\* student twice.
MCRolls ==
    LET Mark(s, m) == [student |-> s, status |-> m]
    IN  {<<Mark(s1, "PRESENT"), Mark(s2, "ABSENT")>>, <<Mark(s2, "LATE"), Mark(s1, "EXCUSED")>>,
         <<Mark(s2, "LATE"), Mark(s2, "ABSENT")>>}

MCInit ==
    /\ part \in {"ENROLMENT", "LEAVE", "PROMOTION", "EVALUATION", "ROLL", "CONSENT", "BOARD",
              "ROTATION", "EXPIRY"}
    /\ DeskInit
    /\ SessionsInit
    /\ part # "BOARD" => teaches = MCInstructor
    /\ part # "CONSENT" => minors = {}
    /\ part # "ENROLMENT" => capacity = [c \in {c1} |-> 1]
    /\ part \notin {"ROTATION", "EXPIRY"} => emailVerified

\* Pairs are interchangeable, so the ids are used in order; at most one access
\* token is in the denylist at a time.
PairsInOrder ==
    /\ \A t, u \in Pairs : t < u /\ pair[u].state # "absent" => pair[t].state # "absent"
    /\ Cardinality(denied) <= 1

InFlight == {r \in AuthCalls : ~AtStep(r, "idle")}

DeskPart ==
    \/ part = "ENROLMENT" /\ EnrollmentStep
    \/ part = "LEAVE" /\ LeaveStep
    \/ part = "PROMOTION" /\ PromotionStep
    \/ part = "EVALUATION" /\ EvaluationStep
    \/ part = "ROLL" /\ RollStep
    \/ part = "CONSENT" /\ ConsentStep
    \/ part = "BOARD" /\ BoardStep

MCNext ==
    /\ UNCHANGED part
    /\ \/ DeskPart /\ UNCHANGED sessionVars
       \/ /\ SessionsNext
          /\ PairsInOrder'
          /\ \/ part = "ROTATION" /\ lapsed' = {}
             \/ part = "EXPIRY" /\ Cardinality(InFlight') <= 1
          /\ UNCHANGED deskVars

MCSpec == MCInit /\ [][MCNext]_<<part, deskVars, sessionVars>>

\* The ids of two rows are interchangeable in every part that has them, and so are
\* two calls of the sessions, whose set has the same members.
Symmetry == Permutations({q1, q2})

=============================================================================
