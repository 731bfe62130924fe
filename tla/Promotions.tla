----------------------------- MODULE Promotions -----------------------------
(***************************************************************************)
(* Promotion proposals: PromotionsService.create, updateNote and review.   *)
(*                                                                         *)
(* Grain.  Each operation checks in one step and writes in a later one;    *)
(* no lock and no unique index stands between two of them.                 *)
(***************************************************************************)
EXTENDS Null, Integers, FiniteSets

CONSTANTS
    Users, Students,
    Role,     \* user -> ADMIN or INSTRUCTOR, the roles that propose
    Reach,    \* user -> students the ownership guard lets the user act for
    Ranks,    \* order_index of the active belt ranks; 0 is no rank
    Rows,     \* ids of promotion_proposals rows
    Notes     \* texts of a note

VARIABLES
    proposal,  \* row id -> row
    belt,      \* student -> order_index of the current rank, or 0
    op         \* user -> the operation the user has in flight

vars == <<proposal, belt, op>>

Verdicts == {"APPROVED", "REJECTED"}
NoRow == [status |-> "ABSENT", student |-> None, rank |-> 0, by |-> None, note |-> None,
          reviewer |-> None]
Idle == [kind |-> "IDLE"]

Init ==
    /\ proposal = [r \in Rows |-> NoRow]
    /\ belt = [s \in Students |-> 0]
    /\ op = [u \in Users |-> Idle]

Pending(s) == {r \in Rows : proposal[r].status = "PENDING" /\ proposal[r].student = s}

NoneOpen(s) == Pending(s) = {}

\* create up to its insert: the guard, the rank above the current one, and no
\* open proposal.
CheckProposal(u, s, rank, note) ==
    /\ op[u].kind = "IDLE"
    /\ s \in Reach[u]
    /\ rank > belt[s]
    /\ NoneOpen(s)
    /\ op' = [op EXCEPT ![u] = [kind |-> "CREATE", student |-> s, rank |-> rank,
                                note |-> note]]
    /\ UNCHANGED <<proposal, belt>>

InsertProposal(u, r) ==
    /\ op[u].kind = "CREATE"
    /\ proposal[r].status = "ABSENT"
    /\ proposal' = [proposal EXCEPT ![r] =
                      [status |-> "PENDING", student |-> op[u].student, rank |-> op[u].rank,
                       by |-> u, note |-> op[u].note, reviewer |-> None]]
    /\ op' = [op EXCEPT ![u] = Idle]
    /\ UNCHANGED belt

\* updateNote: the author, or an administrator, while it is pending.
CheckNote(u, r, note) ==
    /\ op[u].kind = "IDLE"
    /\ proposal[r].status = "PENDING"
    /\ Role[u] = "ADMIN" \/ proposal[r].by = u
    /\ op' = [op EXCEPT ![u] = [kind |-> "NOTE", row |-> r, note |-> note]]
    /\ UNCHANGED <<proposal, belt>>

\* Mutant: the note is saved with the rest of the row as it was read.
WriteNoteWhole(u) ==
    LET p == proposal[op[u].row] IN
    /\ op[u].kind = "NOTE"
    /\ proposal' = [proposal EXCEPT ![op[u].row] =
                      [status |-> "PENDING", student |-> p.student, rank |-> p.rank,
                       by |-> p.by, note |-> op[u].note, reviewer |-> None]]
    /\ op' = [op EXCEPT ![u] = Idle]
    /\ UNCHANGED belt

\* The update by id writes the note alone, whatever the status has become.
WriteNote(u) ==
    LET p == proposal[op[u].row] IN
    /\ op[u].kind = "NOTE"
    /\ proposal' = [proposal EXCEPT ![op[u].row] =
                      [status |-> p.status, student |-> p.student, rank |-> p.rank,
                       by |-> p.by, note |-> op[u].note, reviewer |-> p.reviewer]]
    /\ op' = [op EXCEPT ![u] = Idle]
    /\ UNCHANGED belt

\* review: the administrator decides; the belt is not touched.
CheckReview(u, r, verdict) ==
    /\ op[u].kind = "IDLE"
    /\ Role[u] = "ADMIN"
    /\ proposal[r].status = "PENDING"
    /\ op' = [op EXCEPT ![u] = [kind |-> "REVIEW", row |-> r, status |-> verdict]]
    /\ UNCHANGED <<proposal, belt>>

\* The update by id, which asks nothing of the status the row has by now.
WriteReview(u) ==
    LET p == proposal[op[u].row] IN
    /\ op[u].kind = "REVIEW"
    /\ proposal' = [proposal EXCEPT ![op[u].row] =
                      [status |-> op[u].status, student |-> p.student, rank |-> p.rank,
                       by |-> p.by, note |-> p.note, reviewer |-> u]]
    /\ op' = [op EXCEPT ![u] = Idle]
    /\ UNCHANGED belt

\* ExamsService: a passed exam gives the student a higher rank.
PassExam(s, rank) ==
    /\ rank > belt[s]
    /\ belt' = [belt EXCEPT ![s] = rank]
    /\ UNCHANGED <<proposal, op>>

Next ==
    \/ \E u \in Users, s \in Students, rank \in Ranks, note \in Notes :
          CheckProposal(u, s, rank, note)
    \/ \E u \in Users, r \in Rows : InsertProposal(u, r)
    \/ \E u \in Users, r \in Rows, note \in Notes : CheckNote(u, r, note)
    \/ \E u \in Users, r \in Rows, verdict \in Verdicts : CheckReview(u, r, verdict)
    \/ \E u \in Users : WriteNote(u) \/ WriteReview(u)
    \/ \E s \in Students, rank \in Ranks : PassExam(s, rank)

Spec == Init /\ [][Next]_vars

-----------------------------------------------------------------------------
(* Properties                                                              *)

\* A reviewed proposal stays reviewed, by an administrator: neither an edit of the
\* note nor another review that was in flight meanwhile turns it back to pending or
\* takes the reviewer's name away.
ReviewsAreKept ==
    [][\A r \in Rows : proposal[r].status \in Verdicts =>
          /\ proposal'[r].status \in Verdicts
          /\ proposal'[r].reviewer \in Users
          /\ Role[proposal'[r].reviewer] = "ADMIN"]_vars

\* "Final proposals are immutable (409)", as the contract says.
ProposalsAreFinal ==
    [][\A r \in Rows : proposal[r].status \in Verdicts => proposal'[r] = proposal[r]]_vars

=============================================================================
