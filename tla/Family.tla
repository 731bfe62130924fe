------------------------------- MODULE Family -------------------------------
(***************************************************************************)
(* Student profiles, their invite codes and the parents linked through     *)
(* them: StudentsService and ParentsService; and who may see whom:         *)
(* StudentOwnershipService, with the lists that scope by the same rule.    *)
(*                                                                         *)
(* Grain.  create, regenerateInviteCode and linkChild read in one step and *)
(* write in a later one; the claim of the code and the new link commit     *)
(* together.  The second statement of softDelete is on the users table:    *)
(* DeleteStudent of Sessions.  Links are always created verified, so       *)
(* ParentsService.unlink, which refuses verified links, never removes one. *)
(*                                                                         *)
(* Data.  An invite code is eight random characters, some 40 bits, which   *)
(* the services compare with the codes in use.  Two draws may coincide     *)
(* while neither is stored; that a draw brings back a code which has       *)
(* already been replaced is left out.                                      *)
(***************************************************************************)
EXTENDS Null, Integers, FiniteSets

CONSTANTS
    Profiles, Classes, Codes,
    Admins, Parents, Accounts,  \* users; Accounts are the student ones
    Teachers,
    Instructor,    \* class -> the user who teaches it
    Calls                       \* requests in flight, several of one user among them

VARIABLES
    profile,    \* student profile -> state, linked account and invite code
    links,      \* <<parent, profile, code>>: a row of parent_student_links, and
                \* the code the parent used
    enrolment,  \* <<profile, class>> -> NONE, OPEN or LEFT
    op,         \* call -> the operation it is in the middle of
    retired     \* invite codes that were some profile's and have been replaced

vars == <<profile, links, enrolment, op, retired>>

Callers == Admins \cup Parents \cup Accounts \cup Teachers
NoProfile == [state |-> "ABSENT", user |-> None, code |-> None]
Idle == [kind |-> "IDLE"]

Init ==
    /\ profile = [s \in Profiles |-> NoProfile]
    /\ links = {}
    /\ enrolment = [e \in Profiles \X Classes |-> "NONE"]
    /\ op = [x \in Calls |-> Idle]
    /\ retired = {}

Live(s) == profile[s].state \notin {"ABSENT", "DELETED"}
Linked(p, s) == \E code \in Codes : <<p, s, code>> \in links
InUse(code) == \E s \in Profiles : profile[s].code = code
Fresh(code) == code \notin retired
With(s, state, code) == [state |-> state, user |-> profile[s].user, code |-> code]

-----------------------------------------------------------------------------
(* StudentsService                                                         *)

\* create reads the account and a code nobody has; user None is a profile
\* without an account.
CheckProfile(x, user, code) ==
    /\ op[x].kind = "IDLE"
    /\ user # None => \A s \in Profiles : profile[s].user # user
    /\ Fresh(code) /\ ~InUse(code)
    /\ op' = [op EXCEPT ![x] = [kind |-> "CREATE", user |-> user, code |-> code]]
    /\ UNCHANGED <<profile, links, enrolment, retired>>

\* The insert, unless one of the unique indexes on user_id and invite_code
\* refuses it.
InsertProfile(x, s) ==
    LET o == op[x] IN
    /\ o.kind = "CREATE"
    /\ profile[s].state = "ABSENT"
    /\ Fresh(o.code)
    /\ profile' = IF InUse(o.code) \/ \E q \in Profiles : o.user # None /\ profile[q].user = o.user
                  THEN profile
                  ELSE [profile EXCEPT ![s] = [state |-> "ACTIVE", user |-> o.user,
                                               code |-> o.code]]
    /\ op' = [op EXCEPT ![x] = Idle]
    /\ UNCHANGED <<links, enrolment, retired>>

\* update: an administrator changes the status of a live profile.
UpdateStatus(s, status) ==
    /\ Live(s)
    /\ profile[s].state # status
    /\ profile' = [profile EXCEPT ![s] = With(s, status, profile[s].code)]
    /\ UNCHANGED <<links, enrolment, op, retired>>

\* softDelete, first statement: of two deletes one finds the profile.  Its
\* enrolments and links stay.
SoftDelete(s) ==
    /\ Live(s)
    /\ profile' = [profile EXCEPT ![s] = With(s, "DELETED", profile[s].code)]
    /\ UNCHANGED <<links, enrolment, op, retired>>

\* regenerateInviteCode finds the profile live and picks a free code.
CheckRegenerate(x, s, code) ==
    /\ op[x].kind = "IDLE"
    /\ Live(s)
    /\ Fresh(code) /\ ~InUse(code)
    /\ op' = [op EXCEPT ![x] = [kind |-> "REGENERATE", row |-> s, code |-> code]]
    /\ UNCHANGED <<profile, links, enrolment, retired>>

\* The update by id, unless the index on invite_code refuses the code.
WriteCode(x) ==
    LET o == op[x] IN
    /\ o.kind = "REGENERATE"
    /\ Fresh(o.code)
    /\ IF InUse(o.code) THEN UNCHANGED <<profile, retired>>
       ELSE /\ profile' = [profile EXCEPT ![o.row] = With(o.row, profile[o.row].state, o.code)]
            /\ retired' = retired \cup {profile[o.row].code}
    /\ op' = [op EXCEPT ![x] = Idle]
    /\ UNCHANGED <<links, enrolment>>

-----------------------------------------------------------------------------
(* ParentsService.linkChild                                                *)

\* The profile is found by the code; an existing link is refused.
CheckLink(x, p, s) ==
    /\ op[x].kind = "IDLE"
    /\ Live(s)
    /\ ~Linked(p, s)
    /\ op' = [op EXCEPT ![x] =
                 [kind |-> "LINK", parent |-> p, row |-> s, code |-> profile[s].code]]
    /\ UNCHANGED <<profile, links, enrolment, retired>>

\* Mutant: the claim does not ask for the code it consumes.
ClaimsAny(x, code) == code # op[x].code

\* claimRotation: the update matches only the consumed code and sets a new one.
Claims(x, code) == code # op[x].code /\ profile[op[x].row].code = op[x].code

\* The transaction: the claim and the link.
Link(x, code) ==
    LET s == op[x].row IN
    /\ op[x].kind = "LINK"
    /\ Claims(x, code)
    /\ Fresh(code) /\ ~InUse(code)
    /\ profile' = [profile EXCEPT ![s] = With(s, profile[s].state, code)]
    /\ retired' = retired \cup {profile[s].code}
    /\ links' = links \cup {<<op[x].parent, s, op[x].code>>}
    /\ op' = [op EXCEPT ![x] = Idle]
    /\ UNCHANGED <<enrolment>>

\* The code is gone (404), or the fresh one is taken, which aborts the
\* transaction.
LinkFails(x) ==
    /\ op[x].kind = "LINK"
    /\ profile[op[x].row].code # op[x].code \/ \E code \in Codes : InUse(code)
    /\ op' = [op EXCEPT ![x] = Idle]
    /\ UNCHANGED <<profile, links, enrolment, retired>>

-----------------------------------------------------------------------------
(* The rest of the world                                                   *)

\* EnrollmentsService: a student joins or leaves a class.
ChangeEnrolment(s, c) ==
    /\ profile[s].state = "ACTIVE" \/ enrolment[<<s, c>>] = "OPEN"
    /\ enrolment' = [enrolment EXCEPT ![<<s, c>>] = IF @ = "OPEN" THEN "LEFT" ELSE "OPEN"]
    /\ UNCHANGED <<profile, links, op, retired>>

Next ==
    \/ \E x \in Calls, user \in Accounts \cup {None}, code \in Codes :
          CheckProfile(x, user, code)
    \/ \E x \in Calls, s \in Profiles : InsertProfile(x, s)
    \/ \E s \in Profiles : SoftDelete(s)
    \/ \E x \in Calls : WriteCode(x)
    \/ \E s \in Profiles, status \in {"ACTIVE", "PENDING"} : UpdateStatus(s, status)
    \/ \E x \in Calls, s \in Profiles, code \in Codes : CheckRegenerate(x, s, code)
    \/ \E x \in Calls, p \in Parents, s \in Profiles : CheckLink(x, p, s)
    \/ \E x \in Calls, code \in Codes : Link(x, code)
    \/ \E x \in Calls : LinkFails(x)
    \/ \E s \in Profiles, c \in Classes : ChangeEnrolment(s, c)

Spec == Init /\ [][Next]_vars

-----------------------------------------------------------------------------
(* Who may see whom                                                        *)

Taught(u, s) == \E c \in Classes : Instructor[c] = u /\ enrolment[<<s, c>>] = "OPEN"

\* canAccess, by the role of the caller.
CanAccess(u, s) ==
    /\ Live(s)
    /\ \/ u \in Admins
       \/ u \in Accounts /\ profile[s].user = u
       \/ u \in Parents /\ Linked(u, s)
       \/ u \in Teachers /\ Taught(u, s)

\* Mutant: the list counts past enrolments of an instructor's classes.
VisiblePast(u) ==
    IF u \in Teachers
    THEN {s \in Profiles : \E c \in Classes : Instructor[c] = u /\ enrolment[<<s, c>>] # "NONE"}
    ELSE {s \in Profiles : CanAccess(u, s)}

\* visibleStudentIds: the scope of the lists of leave requests and proposals.
\* It does not look at deleted_at for instructors and administrators.
VisibleStudentIds(u) ==
    {s \in Profiles : \/ u \in Admins
                      \/ u \in Accounts /\ Live(s) /\ profile[s].user = u
                      \/ u \in Parents /\ Live(s) /\ Linked(u, s)
                      \/ u \in Teachers /\ Taught(u, s)}

\* StudentsService.list, for administrators and instructors.
Directory(u) == {s \in Profiles : Live(s) /\ (u \in Admins \/ Taught(u, s))}

\* ParentsService.myChildren and findProfileForParent; StudentsService.myProfile.
MyChildren(p) == {s \in Profiles : Linked(p, s) /\ profile[s].state # "DELETED"}
MyProfile(u) == {s \in Profiles : profile[s].user = u /\ profile[s].state # "DELETED"}

\* BillingService.list and assertInvoiceAccess: invoices of which students.
InvoiceScope(u) ==
    IF u \in Accounts THEN MyProfile(u)
    ELSE IF u \in Parents THEN {s \in Profiles : Linked(u, s)}
    ELSE {s \in Profiles : u \in Admins}

InvoiceAccess(u, s) ==
    \/ u \in Admins
    \/ u \in Accounts /\ profile[s].user = u /\ profile[s].state # "DELETED"
    \/ u \in Parents /\ Linked(u, s)

-----------------------------------------------------------------------------
(* Properties                                                              *)

\* An invite code is good for one link: no two links, of one parent or of two,
\* were made with the same code, whichever calls of parents and administrators
\* race, and a profile's code that made one is replaced.
LinksSpendCodes ==
    \A x \in links : /\ \A y \in links : x[3] = y[3] => x = y
                     /\ ~InUse(x[3])

\* The lists a user gets and the guard on single records agree, for each of the
\* four roles, as profiles are created, deleted and linked; and a user sees the
\* invoices of exactly the students whose invoices the guard opens.  There is one
\* difference: for a deleted profile the guard is closed to everybody, while
\* visibleStudentIds keeps it for administrators, and for the instructor of a class
\* it has not left, so their lists of leave requests and proposals still show it.
ScopesAgree ==
    \A u \in Callers, s \in Profiles :
        /\ s \in VisibleStudentIds(u) <=>
              \/ CanAccess(u, s)
              \/ ~Live(s) /\ (u \in Admins \/ (u \in Teachers /\ Taught(u, s)))
        /\ u \in Admins \cup Teachers => (s \in Directory(u) <=> CanAccess(u, s))
        /\ u \in Parents => (s \in MyChildren(u) <=> CanAccess(u, s))
        /\ u \in Accounts => (s \in MyProfile(u) <=> CanAccess(u, s))
        /\ s \in InvoiceScope(u) <=> InvoiceAccess(u, s)

=============================================================================
