----------------------------- MODULE AuditQueue -----------------------------
(***************************************************************************)
(* AuditService: the in-memory queue of audit entries and its batched      *)
(* writes to the table audit_logs.                                         *)
(*                                                                         *)
(* Grain.  JavaScript runs to the next await: record() with the first      *)
(* splice of a drain it starts is one step, the end of a createMany with   *)
(* the next splice is one step, and the finally callback that clears       *)
(* flushPromise is one step.  Entries are numbered in the order recorded;  *)
(* the number stands for the random event id.                              *)
(***************************************************************************)
EXTENDS Integers, Sequences, FiniteSets, SequencesExt

CONSTANTS
    Entries,    \* number of entries the application records
    BatchSize,  \* BATCH_SIZE
    MaxQueue,   \* MAX_QUEUE_SIZE
    MaxFaults   \* bound on failing writes

VARIABLES
    recorded,  \* entries recorded so far: 1..recorded
    dropped,   \* those refused because the queue was full
    queue,     \* this.queue
    batch,     \* the batch a createMany is writing
    flush,     \* flushPromise: "none", "writing", or "settled" until finally runs
    stored,    \* entries with a row in audit_logs
    stop,      \* onModuleDestroy: "no", "flush" while it awaits flush(), "down"
    faults

vars == <<recorded, dropped, queue, batch, flush, stored, stop, faults>>

Init ==
    /\ recorded = 0
    /\ dropped = {}
    /\ queue = <<>>
    /\ batch = <<>>
    /\ flush = "none"
    /\ stored = {}
    /\ stop = "no"
    /\ faults = 0

-----------------------------------------------------------------------------
First(q) == SubSeq(q, 1, IF Len(q) < BatchSize THEN Len(q) ELSE BatchSize)
Rest(q) == SubSeq(q, BatchSize + 1, Len(q))

\* drain's loop over queue q up to its next await: take a batch, or finish.
Drain(q) ==
    /\ queue' = Rest(q)
    /\ batch' = First(q)
    /\ flush' = IF q = <<>> THEN "settled" ELSE "writing"

Full == Len(queue) >= MaxQueue

\* record(): refuse, or push and start a flush when a batch is complete and
\* none is running.
Record ==
    LET e == recorded + 1
        q == Append(queue, e)
    IN  /\ stop # "down"
        /\ recorded < Entries
        /\ recorded' = e
        /\ IF Full
           THEN /\ dropped' = dropped \cup {e}
                /\ UNCHANGED <<queue, batch, flush>>
           ELSE /\ UNCHANGED dropped
                /\ IF Len(q) >= BatchSize /\ flush = "none"
                   THEN Drain(q)
                   ELSE queue' = q /\ UNCHANGED <<batch, flush>>
        /\ UNCHANGED <<stored, stop, faults>>

\* The timer calls flush().
TimerFlush ==
    /\ stop = "no"
    /\ flush = "none"
    /\ queue # <<>>
    /\ Drain(queue)
    /\ UNCHANGED <<recorded, dropped, stored, stop, faults>>

\* createMany with skipDuplicates: one statement, and an entry of a write that
\* was committed before is passed over.
Insert(b) == stored \cup ToSet(b)

\* The batch is written and drain goes round.
WriteSucceeds ==
    /\ flush = "writing"
    /\ stop # "down"
    /\ stored' = Insert(batch)
    /\ Drain(queue)
    /\ UNCHANGED <<recorded, dropped, stop, faults>>

\* Mutant: the failed batch is forgotten.
PutNowhere(b, q) == q

\* Mutant: the failed batch is pushed to the end.
PutLast(b, q) == q \o b

\* queue.unshift(...batch)
PutBack(b, q) == b \o q

\* createMany fails, before or after the database committed it; the batch goes
\* back to the front and drain returns.
WriteFails ==
    /\ flush = "writing"
    /\ stop # "down"
    /\ faults < MaxFaults
    /\ faults' = faults + 1
    /\ \/ stored' = stored
       \/ stored' = Insert(batch)
    /\ queue' = PutBack(batch, queue)
    /\ batch' = <<>>
    /\ flush' = "settled"
    /\ UNCHANGED <<recorded, dropped, stop>>

\* The finally callback clears flushPromise.
Finally ==
    /\ flush = "settled"
    /\ flush' = "none"
    /\ UNCHANGED <<recorded, dropped, queue, batch, stored, stop, faults>>

\* onModuleDestroy clears the timer and calls flush().
Destroy ==
    /\ stop = "no"
    /\ stop' = "flush"
    /\ IF flush = "none" THEN Drain(queue) ELSE UNCHANGED <<queue, batch, flush>>
    /\ UNCHANGED <<recorded, dropped, stored, faults>>

\* The awaited promise has settled; the process ends with what is queued.
Down ==
    /\ stop = "flush"
    /\ flush = "none"
    /\ stop' = "down"
    /\ UNCHANGED <<recorded, dropped, queue, batch, flush, stored, faults>>

Next ==
    \/ Record
    \/ TimerFlush
    \/ WriteSucceeds
    \/ WriteFails
    \/ Finally
    \/ Destroy
    \/ Down

Spec == Init /\ [][Next]_vars

\* The timer fires, and the event loop resumes every await.
Fairness ==
    /\ WF_vars(TimerFlush)
    /\ WF_vars(WriteSucceeds)
    /\ WF_vars(Finally)

FairSpec == Spec /\ Fairness

-----------------------------------------------------------------------------
(* Properties                                                              *)

Buffered == ToSet(queue) \cup ToSet(batch)

\* No accepted entry gets lost between queue, batch in flight and table.  What is
\* still queued when the process is down is in no table; onModuleDestroy logs it.
NothingLost ==
    \A e \in 1..recorded : e \in dropped \/ e \in Buffered \/ e \in stored

\* The trail has no hole: when an entry is in the table, every entry accepted
\* before it is too, whichever writes failed, were retried or were cut short.
StoredInOrder ==
    \A e \in 1..recorded, f \in stored : e < f /\ e \notin dropped => e \in stored

\* While the process runs, an accepted entry reaches the table.
EventuallyStored ==
    \A e \in 1..Entries : (e \in Buffered) ~> (e \in stored \/ stop # "no")

=============================================================================
