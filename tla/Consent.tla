------------------------------ MODULE Consent ------------------------------
(***************************************************************************)
(* Consent records: ConsentService.grant and revoke, by a user for himself *)
(* or by a parent for a linked minor.                                      *)
(*                                                                         *)
(* Grain.  grant looks for an active row in one step and inserts in a      *)
(* later one; no index forbids a second active row.  revoke resolves the   *)
(* subject in one step and stamps every active row of the purpose in one   *)
(* later statement.                                                        *)
(***************************************************************************)
EXTENDS Null, Integers, FiniteSets

CONSTANTS
    Users, Students, Purposes,
    Reach,    \* user -> students the ownership guard lets the user act for
    Account,  \* student -> the user of the profile, or None
    Rows      \* ids of consent_logs rows

VARIABLES
    consent,   \* row id -> row
    minors,    \* students below MINOR_CUTOFF_YEARS
    op,        \* user -> the grant or revocation the user has in flight
    withdrawn  \* <<subject, purpose>> whose last change was a revocation

vars == <<consent, minors, op, withdrawn>>

NoRow == [state |-> "ABSENT", subject |-> None, purpose |-> None, by |-> None]
Idle == [kind |-> "IDLE"]

Init ==
    /\ consent = [r \in Rows |-> NoRow]
    /\ minors \in SUBSET Students
    /\ op = [u \in Users |-> Idle]
    /\ withdrawn = {}

Active(subject, purpose) ==
    {r \in Rows : /\ consent[r].state = "ACTIVE"
                  /\ consent[r].subject = subject
                  /\ consent[r].purpose = purpose}

\* resolveSubject, for the student s of the request or None: whose consent it
\* is, and the acting user when it is not his own.
Subject(s, u) == IF s = None THEN u ELSE Account[s]

MayActFor(u, s) ==
    s # None => /\ s \in Reach[u]
                /\ Account[s] # None
                /\ Account[s] = u \/ s \in minors

\* grant finds an active row, and answers with it, or goes on to insert.
CheckGrant(u, s, purpose) ==
    /\ op[u].kind = "IDLE"
    /\ MayActFor(u, s)
    /\ Active(Subject(s, u), purpose) = {}
    /\ op' = [op EXCEPT ![u] =
                [kind |-> "GRANT", subject |-> Subject(s, u), purpose |-> purpose,
                 by |-> IF Subject(s, u) = u THEN None ELSE u]]
    /\ UNCHANGED <<consent, minors, withdrawn>>

InsertGrant(u, r) ==
    /\ op[u].kind = "GRANT"
    /\ consent[r].state = "ABSENT"
    /\ consent' = [consent EXCEPT ![r] = [state |-> "ACTIVE", subject |-> op[u].subject,
                                          purpose |-> op[u].purpose, by |-> op[u].by]]
    /\ withdrawn' = withdrawn \ {<<op[u].subject, op[u].purpose>>}
    /\ op' = [op EXCEPT ![u] = Idle]
    /\ UNCHANGED minors

\* Mutant: only the first active row is stamped.
FirstOf(rows) == {CHOOSE r \in rows : TRUE}

\* updateMany stamps all the rows it matches.
Stamped(rows) == rows

\* revoke resolves whose consent it is about,
CheckRevoke(u, s, purpose) ==
    /\ op[u].kind = "IDLE"
    /\ MayActFor(u, s)
    /\ op' = [op EXCEPT ![u] = [kind |-> "REVOKE", subject |-> Subject(s, u),
                                purpose |-> purpose]]
    /\ UNCHANGED <<consent, minors, withdrawn>>

\* and stamps what is active by then,
Revoke(u) ==
    LET active == Active(op[u].subject, op[u].purpose) IN
    /\ op[u].kind = "REVOKE"
    /\ active # {}
    /\ consent' = [r \in Rows |->
                     IF r \in Stamped(active)
                     THEN [state |-> "REVOKED", subject |-> consent[r].subject,
                           purpose |-> consent[r].purpose, by |-> consent[r].by]
                     ELSE consent[r]]
    /\ withdrawn' = withdrawn \cup {<<op[u].subject, op[u].purpose>>}
    /\ op' = [op EXCEPT ![u] = Idle]
    /\ UNCHANGED minors

\* or answers 404 when nothing is.
RevokeNothing(u) ==
    /\ op[u].kind = "REVOKE"
    /\ Active(op[u].subject, op[u].purpose) = {}
    /\ op' = [op EXCEPT ![u] = Idle]
    /\ UNCHANGED <<consent, minors, withdrawn>>

\* A birthday.
ComeOfAge(s) ==
    /\ s \in minors
    /\ minors' = minors \ {s}
    /\ UNCHANGED <<consent, op, withdrawn>>

Next ==
    \/ \E u \in Users, s \in Students \cup {None}, purpose \in Purposes :
          CheckGrant(u, s, purpose) \/ CheckRevoke(u, s, purpose)
    \/ \E u \in Users, r \in Rows : InsertGrant(u, r)
    \/ \E u \in Users : Revoke(u) \/ RevokeNothing(u)
    \/ \E s \in Students : ComeOfAge(s)

Spec == Init /\ [][Next]_vars

\* myHistory: every row of the caller, revoked ones included.
MyHistory(u) == {r \in Rows : consent[r].subject = u}

-----------------------------------------------------------------------------
(* Properties                                                              *)

\* A withdrawal holds: after a revocation no row of the purpose is active until
\* a later grant inserts one, even when two grants at the same time had left two
\* active rows; and rows are only added to a user's history, never taken away.
WithdrawalHolds ==
    \A w \in withdrawn : Active(w[1], w[2]) = {} /\ MyHistory(w[1]) # {}

=============================================================================
