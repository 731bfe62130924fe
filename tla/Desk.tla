-------------------------------- MODULE Desk --------------------------------
(***************************************************************************)
(* The services around a student's file, together: enrolments, leave       *)
(* requests, promotion proposals, evaluations, roll calls, consents and    *)
(* announcements.  They write disjoint tables and do not call each other,  *)
(* so the desk interleaves their steps.                                    *)
(***************************************************************************)
EXTENDS Enrollments, Sequences

CONSTANTS
    Role,          \* user -> ADMIN, INSTRUCTOR, STUDENT or PARENT
    Reach,         \* user -> students the ownership guard lets the user act for
    Account,       \* student -> the user of the profile, or None
    Instructor,    \* class -> the user who teaches it
    Joined,        \* user -> classes the user, or a linked child, is enrolled in
    LeaveUsers, ProposalUsers, EvaluationUsers, RollUsers, ConsentUsers, BoardUsers,
    FileStudents, RollStudents,
    LeaveRows, ProposalRows, EvaluationRows, ConsentRows, BoardRows,
    Ranks, Notes, Periods, Ratings, Purposes,
    Rolls, Days, DaysPerMonth

\* The body of a roll is a list of students with a mark each.
ASSUME RollsAssumption ==
    Rolls \subseteq Seq([student : RollStudents,
                         status : {"PRESENT", "LATE", "ABSENT", "EXCUSED"}])

\* Roll calls are counted over finitely many classes, days and students; None is no
\* mark.
ASSUME CountingAssumption ==
    /\ IsFiniteSet(Classes) /\ IsFiniteSet(RollStudents)
    /\ IsFiniteSet(Days) /\ Days \subseteq Nat
    /\ DaysPerMonth \in Nat \ {0}
    /\ None \notin {"PRESENT", "LATE", "ABSENT", "EXCUSED"}

VARIABLES
    leave, leaveMember, leaveOpen, leaveToday, leaveOp,
    proposal, belt, proposalOp,
    evaluation, evaluationOp,
    class, member, session, record, rollOp,
    consent, minors, grantOp, withdrawn,
    announcement, teaches, announceOp

leaveVars == <<leave, leaveMember, leaveOpen, leaveToday, leaveOp>>
promotionVars == <<proposal, belt, proposalOp>>
evaluationVars == <<evaluation, evaluationOp>>
rollVars == <<class, member, session, record, rollOp>>
consentVars == <<consent, minors, grantOp, withdrawn>>
boardVars == <<announcement, teaches, announceOp>>

deskVars == <<vars, leaveVars, promotionVars, evaluationVars, rollVars, consentVars,
              boardVars>>

Leave == INSTANCE Leaves WITH
    Users <- LeaveUsers, Students <- FileStudents, Rows <- LeaveRows, request <- leave,
    member <- leaveMember, open <- leaveOpen, today <- leaveToday, op <- leaveOp

Promotion == INSTANCE Promotions WITH
    Users <- ProposalUsers, Students <- FileStudents, Rows <- ProposalRows, op <- proposalOp

Evaluation == INSTANCE Evaluations WITH
    Users <- EvaluationUsers, Students <- FileStudents, Rows <- EvaluationRows,
    op <- evaluationOp

Roll == INSTANCE Attendance WITH
    Users <- RollUsers, Students <- RollStudents, op <- rollOp

Consents == INSTANCE Consent WITH
    Users <- ConsentUsers, Students <- FileStudents, Rows <- ConsentRows, op <- grantOp

Board == INSTANCE Announcements WITH
    Users <- BoardUsers, Rows <- BoardRows, op <- announceOp

DeskInit ==
    /\ Init /\ Leave!Init /\ Promotion!Init /\ Evaluation!Init /\ Roll!Init
    /\ Consents!Init /\ Board!Init

EnrollmentStep ==
    /\ Next
    /\ UNCHANGED <<leaveVars, promotionVars, evaluationVars, rollVars, consentVars, boardVars>>

LeaveStep ==
    /\ Leave!Next
    /\ UNCHANGED <<vars, promotionVars, evaluationVars, rollVars, consentVars, boardVars>>

PromotionStep ==
    /\ Promotion!Next
    /\ UNCHANGED <<vars, leaveVars, evaluationVars, rollVars, consentVars, boardVars>>

EvaluationStep ==
    /\ Evaluation!Next
    /\ UNCHANGED <<vars, leaveVars, promotionVars, rollVars, consentVars, boardVars>>

RollStep ==
    /\ Roll!Next
    /\ UNCHANGED <<vars, leaveVars, promotionVars, evaluationVars, consentVars, boardVars>>

ConsentStep ==
    /\ Consents!Next
    /\ UNCHANGED <<vars, leaveVars, promotionVars, evaluationVars, rollVars, boardVars>>

BoardStep ==
    /\ Board!Next
    /\ UNCHANGED <<vars, leaveVars, promotionVars, evaluationVars, rollVars, consentVars>>

DeskNext ==
    \/ EnrollmentStep \/ LeaveStep \/ PromotionStep \/ EvaluationStep \/ RollStep
    \/ ConsentStep \/ BoardStep

DeskSpec == DeskInit /\ [][DeskNext]_deskVars

-----------------------------------------------------------------------------
(* The properties of the parts other than enrolment                        *)

\* An evaluation is its author's: nobody else rewrites or removes it.
EvaluationsAreTheAuthors == Evaluation!EvaluationsAreTheAuthors

\* Overlapping rolls of a session take effect whole, one commit after the other.
RollsSerialize == Roll!RollsSerialize

\* The attendance report, history and summary count the same records.
ReportsAgree == Roll!ReportsAgree

\* A consent that was withdrawn stays withdrawn until it is granted again.
WithdrawalHolds == Consents!WithdrawalHolds

\* An announcement names a class exactly if its audience is a class.
AudienceFitsClass == Board!AudienceFitsClass

\* An approved or rejected leave request names a reviewer who was entitled to it.
VerdictsAreSigned == Leave!VerdictsAreSigned

\* A reviewed promotion proposal never turns back to pending.
ReviewsAreKept == Promotion!ReviewsAreKept

\* What the contract says of both: decided leave requests and reviewed promotion
\* proposals are final.
DecisionsAreFinal == Leave!DecisionsAreFinal /\ Promotion!ProposalsAreFinal

=============================================================================
