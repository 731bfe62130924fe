------------------------------- MODULE Access -------------------------------
(***************************************************************************)
(* The parts that decide who is who and who may do what, together: the     *)
(* guards in front of a handler, the profiles with their parents, the      *)
(* second factor of an account, and the accounts with their addresses.     *)
(* They keep disjoint state, so a step is a step of one of them.           *)
(***************************************************************************)
EXTENDS Gate, FiniteSets

CONSTANTS
    Profiles, Classes, Codes, Admins, Parents, Accounts, Teachers, Instructor, Calls,
    Devices, Secrets, RecoveryCodes, MaxTime, MaxFailures, BucketTtl, GuardTtl,
    Users, Addresses, Tokens, Flows, ActionTtl, RowTtl, Retention, MailBudget

\* A user has one role.
ASSUME RolesAssumption ==
    /\ Admins \cap (Parents \cup Accounts \cup Teachers) = {}
    /\ Parents \cap (Accounts \cup Teachers) = {}
    /\ Accounts \cap Teachers = {}
    /\ None \notin Accounts \cup Codes

\* REPLAY_GUARD_MS is 120 seconds, four steps; a code is good in three.
ASSUME GuardAssumption ==
    /\ MaxTime \in Nat
    /\ MaxFailures \in Nat /\ MaxFailures > 0
    /\ BucketTtl \in Nat
    /\ GuardTtl \in Nat /\ GuardTtl >= 3

\* A row of used_tokens, kept for the retention of the purge beyond its date,
\* outlives every kind of token.
ASSUME RetentionAssumption ==
    /\ ActionTtl \in Nat /\ RowTtl \in Nat /\ Retention \in Nat
    /\ ActionTtl <= RowTtl + Retention
    /\ 1 <= RowTtl + Retention

VARIABLES
    profile, links, enrolment, op, retired,
    now, credential, pending, drawn, recovery, bucket, guarded, verification, accepted,
    repeated, granted,
    address, verified, status, token, used, mails, flow, effects, proven

familyVars == <<profile, links, enrolment, op, retired>>
factorVars == <<now, credential, pending, drawn, recovery, bucket, guarded, verification,
                accepted, repeated, granted>>
registryVars == <<address, verified, status, token, used, mails, flow, effects, proven>>
accessVars == <<vars, familyVars, factorVars, registryVars>>

Household == INSTANCE Family

Factor == INSTANCE SecondFactor WITH Requests <- Devices, request <- verification

Registry == INSTANCE Account WITH Requests <- Flows, request <- flow

\* None stands for no address and for no token.
ASSUME NoneAssumption == None \notin Addresses \cup Registry!ActionToken

AccessInit == Init /\ Household!Init /\ Factor!Init /\ Registry!Init

GateStep == Next /\ UNCHANGED <<familyVars, factorVars, registryVars>>
FamilyStep == Household!Next /\ UNCHANGED <<vars, factorVars, registryVars>>
FactorStep == Factor!Next /\ UNCHANGED <<vars, familyVars, registryVars>>
RegistryStep == Registry!Next /\ UNCHANGED <<vars, familyVars, factorVars>>

AccessNext == GateStep \/ FamilyStep \/ FactorStep \/ RegistryStep

AccessSpec == AccessInit /\ [][AccessNext]_accessVars

-----------------------------------------------------------------------------
(* The properties of the parts other than the guards                       *)

\* Family: an invite code makes one link, and is replaced when it has.
LinksSpendCodes == Household!LinksSpendCodes

\* Family: the lists and the per-student check show a caller the same students,
\* but for the deleted ones in some lists of administrators and instructors.
ScopesAgree == Household!ScopesAgree

\* SecondFactor: a TOTP code is accepted at most once while the process runs.
CodeAcceptedOnce == Factor!CodeAcceptedOnce

\* SecondFactor: the shared failure bucket never passes MAX_MFA_FAILURES.
FailuresBounded == Factor!FailuresBounded

\* SecondFactor: a recovery code opens one session.  Two sign-ins at once break it.
RecoveryCodesWorkOnce == Factor!RecoveryCodesWorkOnce

\* Account: an action token takes effect at most once.
TokensUsedOnce == Registry!TokensUsedOnce

\* Account: a verified account's address has been proven.
VerifiedAddressProven == Registry!VerifiedAddressProven

=============================================================================
