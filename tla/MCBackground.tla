---------------------------- MODULE MCBackground ----------------------------
(***************************************************************************)
(* Small instances for TLC of what has to happen in the end: the two       *)
(* background writers, and the webhook under a gateway that retries.  They *)
(* share nothing, so each is explored on its own, chosen in the initial    *)
(* state.                                                                  *)
(***************************************************************************)
EXTENDS Background, Payments, TLC

CONSTANTS i1, p1, p2, g1, g2

VARIABLE part

Transfer(p, g, a) == [order |-> p, txnId |-> g, amount |-> a, success |-> TRUE]

MCInvoices == {i1}
MCTotal == (i1 :> 2)

\* One transfer per order, with an id of its own: exact, and of a wrong amount.
SoleEvents == {Transfer(p1, g1, 2), Transfer(p2, g2, 1)}

MCInit ==
    /\ part \in {"OUTBOX", "AUDIT", "WEBHOOK"}
    /\ BackgroundInit
    /\ Init

\* Next to the audit queue and the webhook the worker polls an empty outbox, as its
\* fairness demands.  There a poll is not interrupted, since nothing depends on it.
BetweenPolls == \A w \in Workers : worker[w] = Resting

\* Here no due date passes: an overdue invoice is settled as an unpaid one.
NothingFallsDue == pastDue' = pastDue

MCNext ==
    /\ UNCHANGED part
    /\ \/ part = "OUTBOX" /\ OutboxStep /\ UNCHANGED vars
       \/ part = "AUDIT" /\ BetweenPolls /\ AuditStep /\ UNCHANGED vars
       \/ /\ part = "WEBHOOK" /\ BetweenPolls
          /\ Next /\ NothingFallsDue
          /\ UNCHANGED <<outboxVars, auditVars>>
       \/ /\ part \in {"AUDIT", "WEBHOOK"}
          /\ \E w \in Workers : RunPass(w)
          /\ UNCHANGED <<auditVars, vars>>

MCSpec ==
    /\ MCInit
    /\ [][MCNext]_<<part, outboxVars, auditVars, vars>>
    /\ OutboxFairness
    /\ Audit!Fairness
    /\ Fairness

=============================================================================
