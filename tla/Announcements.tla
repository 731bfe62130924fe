--------------------------- MODULE Announcements ---------------------------
(***************************************************************************)
(* Announcements: AnnouncementsService.create, update and remove, and the  *)
(* audience of its feed.                                                   *)
(*                                                                         *)
(* Grain.  create and update read what they decide on in one step and      *)
(* write in a later one, by id; remove reads and deletes in one step, as   *)
(* the author it checks never changes.                                     *)
(***************************************************************************)
EXTENDS Null, Integers, FiniteSets

CONSTANTS
    Users, Classes,
    Role,     \* user -> ADMIN, INSTRUCTOR or another role
    Joined,   \* user -> classes the user, or a linked child, is enrolled in
    Rows      \* ids of announcements rows

VARIABLES
    announcement,  \* row id -> row; writer is the user who wrote it last
    teaches,       \* class -> its instructor
    op             \* user -> the write the user has in flight

vars == <<announcement, teaches, op>>

Authors == {u \in Users : Role[u] \in {"ADMIN", "INSTRUCTOR"}}
Audiences == {"ALL", "CLASS"}
NoRow == [state |-> "ABSENT", audience |-> "ALL", class |-> None, by |-> None, writer |-> None]
Idle == [kind |-> "IDLE"]

Init ==
    /\ announcement = [r \in Rows |-> NoRow]
    /\ teaches \in [Classes -> {u \in Users : Role[u] = "INSTRUCTOR"}]
    /\ op = [u \in Authors |-> Idle]

\* resolveClassTarget accepts an audience and a class only as a pair that fits.
Target(audience, class) == (audience = "ALL") <=> (class = None)

\* Instructors write for the classes they teach, never club-wide.
MayAddress(u, audience, class) ==
    Role[u] = "INSTRUCTOR" => audience = "CLASS" /\ class \in Classes /\ teaches[class] = u

CheckCreate(u, audience, class) ==
    /\ op[u].kind = "IDLE"
    /\ MayAddress(u, audience, class)
    /\ Target(audience, class)
    /\ op' = [op EXCEPT ![u] = [kind |-> "CREATE", audience |-> audience, class |-> class]]
    /\ UNCHANGED <<announcement, teaches>>

Insert(u, r) ==
    /\ op[u].kind = "CREATE"
    /\ announcement[r].state = "ABSENT"
    /\ announcement' = [announcement EXCEPT ![r] =
                          [state |-> "POSTED", audience |-> op[u].audience,
                           class |-> op[u].class, by |-> u, writer |-> u]]
    /\ op' = [op EXCEPT ![u] = Idle]
    /\ UNCHANGED teaches

\* Mutant: switching to ALL keeps the class.
KeepsClass(existing, audience, class) ==
    IF class # None THEN class ELSE existing.class

\* The class of an update: switching to ALL drops the inherited one.
EffectiveClass(existing, audience, class) ==
    IF audience = "ALL" /\ class = None THEN None
    ELSE IF class # None THEN class ELSE existing.class

\* update reads the row; the fields the request leaves out are taken from it.
CheckUpdate(u, r, newAudience, newClass) ==
    LET existing == announcement[r]
        audience == IF newAudience = None THEN existing.audience ELSE newAudience
        class == EffectiveClass(existing, audience, newClass)
    IN
    /\ op[u].kind = "IDLE"
    /\ existing.state = "POSTED"
    /\ Role[u] = "ADMIN" \/ existing.by = u
    /\ MayAddress(u, audience, class)
    /\ (audience = "ALL" /\ newClass = None) \/ Target(audience, class)
    /\ op' = [op EXCEPT ![u] = [kind |-> "UPDATE", row |-> r, audience |-> audience,
                                class |-> class]]
    /\ UNCHANGED <<announcement, teaches>>

\* The update by id: audience and class are written together.
WriteUpdate(u) ==
    LET r == op[u].row IN
    /\ op[u].kind = "UPDATE"
    /\ announcement' = IF announcement[r].state # "POSTED" THEN announcement
                       ELSE [announcement EXCEPT ![r] =
                               [state |-> "POSTED", audience |-> op[u].audience,
                                class |-> op[u].class, by |-> announcement[r].by,
                                writer |-> u]]
    /\ op' = [op EXCEPT ![u] = Idle]
    /\ UNCHANGED teaches

\* remove: the author, or an administrator.
Remove(u, r) ==
    /\ op[u].kind = "IDLE"
    /\ announcement[r].state = "POSTED"
    /\ Role[u] = "ADMIN" \/ announcement[r].by = u
    /\ announcement' = [announcement EXCEPT ![r] = [NoRow EXCEPT !.state = "DELETED"]]
    /\ UNCHANGED <<teaches, op>>

\* ClassesService.update gives a class to another instructor.
Reassign(c, u) ==
    /\ Role[u] = "INSTRUCTOR"
    /\ teaches[c] # u
    /\ teaches' = [teaches EXCEPT ![c] = u]
    /\ UNCHANGED <<announcement, op>>

Next ==
    \/ \E u \in Authors, audience \in Audiences, class \in Classes \cup {None} :
          CheckCreate(u, audience, class)
    \/ \E u \in Authors, r \in Rows : Insert(u, r) \/ Remove(u, r)
    \/ \E u \in Authors, r \in Rows, audience \in Audiences \cup {None},
          class \in Classes \cup {None} : CheckUpdate(u, r, audience, class)
    \/ \E u \in Authors : WriteUpdate(u)
    \/ \E c \in Classes, u \in Users : Reassign(c, u)

Spec == Init /\ [][Next]_vars

\* list: everything for administrators; club-wide announcements for everybody;
\* announcements of a class for its instructor, members and their parents.
Feed(u) ==
    {r \in Rows : /\ announcement[r].state = "POSTED"
                  /\ \/ Role[u] = "ADMIN" \/ announcement[r].audience = "ALL"
                     \/ /\ announcement[r].class \in Classes
                        /\ \/ Role[u] = "INSTRUCTOR" /\ teaches[announcement[r].class] = u
                           \/ announcement[r].class \in Joined[u]}

-----------------------------------------------------------------------------
(* Properties                                                              *)

\* "The effective audience/classId pair must stay consistent", whichever updates
\* race: a club-wide announcement has no class and reaches everybody, a class
\* announcement reaches only administrators and people of its class, and what an
\* instructor wrote last is never club-wide.
AudienceFitsClass ==
    \A r \in Rows : announcement[r].state = "POSTED" =>
        /\ (announcement[r].audience = "ALL") <=> (announcement[r].class = None)
        /\ announcement[r].audience = "ALL" => \A u \in Users : r \in Feed(u)
        /\ Role[announcement[r].writer] = "INSTRUCTOR" => announcement[r].audience = "CLASS"

=============================================================================
