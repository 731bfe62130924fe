------------------------------ MODULE MCAccess ------------------------------
(***************************************************************************)
(* Small instances of Access for TLC.  As in MCDesk each part is explored  *)
(* on its own, chosen in the initial state, with the others at rest.  The  *)
(* accounts are explored twice, to keep the run short: as one account that *)
(* may hold several tokens, and as several between which there is one that *)
(* concerns an address.                                                    *)
(***************************************************************************)
EXTENDS Access, TLC

VARIABLE part

MCInstructor == [c \in Classes |-> CHOOSE u \in Teachers : TRUE]

MCInit ==
    /\ part \in {"CODES", "SCOPES", "GATE", "FACTOR", "ONE", "TWO"}
    /\ AccessInit
    /\ part # "GATE" => account = [role |-> "STUDENT", active |-> TRUE, mfa |-> FALSE]

MCNext ==
    /\ UNCHANGED part
    /\ \/ part = "GATE" /\ GateStep
       \/ part = "CODES" /\ FamilyStep /\ UNCHANGED enrolment
       \/ /\ part = "SCOPES" /\ FamilyStep
          /\ Cardinality({x \in Calls : op'[x].kind # "IDLE"}) <= 1
       \/ part = "FACTOR" /\ FactorStep
       \/ /\ part = "ONE" /\ RegistryStep
          /\ Cardinality({u \in Users : address'[u] # None}) <= 1
       \/ /\ part = "TWO" /\ RegistryStep
          /\ Cardinality({t \in Tokens : token'[t] # None}) <= 1
          /\ \A t \in Tokens : token'[t] # None => token'[t].purpose # "RESET_PASSWORD"

MCSpec == MCInit /\ [][MCNext]_<<part, accessVars>>

\* No part tells the members of one of these sets apart.  The sets of several
\* parts have members in common, which keeps the group small.
Symmetry ==
    Permutations(Profiles) \cup Permutations(Tokens) \cup Permutations(Users)

=============================================================================
