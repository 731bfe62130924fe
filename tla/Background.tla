----------------------------- MODULE Background -----------------------------
(***************************************************************************)
(* The two background writers of a process, together: the delivery worker  *)
(* of the outbox and the audit queue.  They share no state, so a step is a *)
(* step of one of them.                                                    *)
(***************************************************************************)
EXTENDS Outbox

CONSTANTS Entries, AuditBatch, MaxQueue, AuditFaults

ASSUME AuditAssumption ==
    /\ Entries \in Nat
    /\ AuditBatch \in Nat \ {0}
    /\ MaxQueue \in Nat
    /\ AuditFaults \in Nat

VARIABLES recorded, dropped, queue, batch, flush, stored, stop, auditFaults

auditVars == <<recorded, dropped, queue, batch, flush, stored, stop, auditFaults>>

Audit == INSTANCE AuditQueue WITH
    BatchSize <- AuditBatch, MaxFaults <- AuditFaults, faults <- auditFaults

BackgroundInit == OutboxInit /\ Audit!Init

OutboxStep == OutboxNext /\ UNCHANGED auditVars
AuditStep == Audit!Next /\ UNCHANGED outboxVars

BackgroundNext == OutboxStep \/ AuditStep

BackgroundSpec == BackgroundInit /\ [][BackgroundNext]_<<outboxVars, auditVars>>

-----------------------------------------------------------------------------
(* The properties of the audit queue                                       *)

\* No accepted entry gets lost between queue, batch in flight and table, until the
\* process ends.
NothingLost == Audit!NothingLost

\* The trail has no hole: an entry in the table has those accepted before it there.
StoredInOrder == Audit!StoredInOrder

\* While the process runs, an accepted entry reaches the table.
EventuallyStored == Audit!EventuallyStored

=============================================================================
