------------------------------- MODULE Outbox -------------------------------
(***************************************************************************)
(* The notification outbox: NotificationOutboxService and its delivery     *)
(* worker, over the table notifications.                                   *)
(*                                                                         *)
(* A worker is one process of the service; runOnce lets it have one pass   *)
(* at a time.  A pass returns stale claims to the queue, then claims due   *)
(* rows one after the other, oldest first, and delivers each.  Every await *)
(* is a step.  A process may crash or be shut down, a statement may fail,  *)
(* and a sender may fail after the message went out; each of these spends  *)
(* one of MaxFaults.                                                       *)
(*                                                                         *)
(* Data.  Rows are numbered in the order of created_at.  A time stamp is   *)
(* kept as what the queries ask of it: has the ten minute lease of the     *)
(* claim run out, is the backoff still running.                            *)
(***************************************************************************)
EXTENDS Integers, Sequences, FiniteSets

CONSTANTS
    Rows,        \* number of notifications
    Workers,     \* processes that run the worker
    MaxRetries,  \* MAX_RETRIES
    BatchSize,   \* rows one pass may claim
    MaxOutboxFaults,   \* bound on crashes, shutdowns and failing statements
    Configured,  \* channels that have a sender
    Channels     \* channels the business code enqueues for

ASSUME OutboxAssumption ==
    /\ Rows \in Nat
    /\ MaxRetries \in Nat \ {0}
    /\ BatchSize \in Nat \ {0}
    /\ MaxOutboxFaults \in Nat
    /\ Configured \subseteq {"ZNS", "SMS", "EMAIL"}
    /\ Channels \subseteq {"ZNS", "SMS", "EMAIL", "INAPP"}

Ids == 1..Rows

Status == {"ABSENT", "QUEUED", "SENDING", "SENT", "FAILED"}

VARIABLES
    status,     \* row -> status
    channel,    \* row -> channel
    retries,    \* row -> retries
    stale,      \* rows whose claimed_at is more than ten minutes old
    waiting,    \* rows whose next_attempt_at lies in the future
    delivered,  \* row -> how often its message went out
    worker,     \* process -> its pass
    outboxFaults      \* faults so far

outboxVars == <<status, channel, retries, stale, waiting, delivered, worker, outboxFaults>>

\* pc: between passes, about to claim, to send, to mark as sent, to record a
\* failure.  attempt is row.retries as the claim read it.
Pass == [pc : {"idle", "claim", "send", "mark", "fail"}, row : 0..Rows,
         attempt : 0..MaxRetries, left : 0..BatchSize, stopping : BOOLEAN]

Resting == [pc |-> "idle", row |-> 0, attempt |-> 0, left |-> 0, stopping |-> FALSE]

OutboxInit ==
    /\ status = [n \in Ids |-> "ABSENT"]
    /\ channel = [n \in Ids |-> "EMAIL"]
    /\ retries = [n \in Ids |-> 0]
    /\ stale = {}
    /\ waiting = {}
    /\ delivered = [n \in Ids |-> 0]
    /\ worker = [w \in Workers |-> Resting]
    /\ outboxFaults = 0

-----------------------------------------------------------------------------
(* Enqueueing, in the business transaction's commit                        *)

NextId(n) == status[n] = "ABSENT" /\ \A m \in 1..(n - 1) : status[m] # "ABSENT"

Enqueue(n, ch) ==
    /\ NextId(n)
    /\ ch # "INAPP"
    /\ status' = [status EXCEPT ![n] = "QUEUED"]
    /\ channel' = [channel EXCEPT ![n] = ch]
    /\ UNCHANGED <<retries, stale, waiting, delivered, worker, outboxFaults>>

\* An INAPP row is delivered by being inserted.
EnqueueInApp(n) ==
    /\ NextId(n)
    /\ "INAPP" \in Channels
    /\ status' = [status EXCEPT ![n] = "SENT"]
    /\ channel' = [channel EXCEPT ![n] = "INAPP"]
    /\ delivered' = [delivered EXCEPT ![n] = 1]
    /\ UNCHANGED <<retries, stale, waiting, worker, outboxFaults>>

-----------------------------------------------------------------------------
(* A pass                                                                  *)

\* Mutant: an abandoned claim is never taken back.
NoneAbandoned == {}

\* SENDING rows whose claim has timed out.
Abandoned == {n \in stale : status[n] = "SENDING"}

\* runOnce: one UPDATE returns abandoned rows to the queue.
BeginPass(w) ==
    /\ worker[w].pc = "idle"
    /\ ~worker[w].stopping
    /\ status' = [n \in Ids |-> IF n \in Abandoned THEN "QUEUED" ELSE status[n]]
    /\ stale' = stale \ Abandoned
    /\ worker' = [worker EXCEPT ![w] = [Resting EXCEPT !.pc = "claim", !.left = BatchSize]]
    /\ UNCHANGED <<channel, retries, waiting, delivered, outboxFaults>>

Due == {n \in Ids : status[n] = "QUEUED" /\ n \notin waiting}

\* The claim transaction: the oldest due row becomes SENDING.
Claim(w) ==
    /\ worker[w].pc = "claim"
    /\ worker[w].left > 0
    /\ ~worker[w].stopping
    /\ \E n \in Due :
          /\ \A m \in Due : n <= m
          /\ status' = [status EXCEPT ![n] = "SENDING"]
          /\ worker' = [worker EXCEPT ![w] =
                          [@ EXCEPT !.pc = "send", !.row = n, !.attempt = retries[n],
                                    !.left = worker[w].left - 1]]
    /\ UNCHANGED <<channel, retries, stale, waiting, delivered, outboxFaults>>

\* Nothing is due, the batch is used up, or the process is shutting down.
EndPass(w) ==
    /\ worker[w].pc = "claim"
    /\ Due = {} \/ worker[w].left = 0 \/ worker[w].stopping
    /\ worker' = [worker EXCEPT ![w] = Resting]
    /\ UNCHANGED <<status, channel, retries, stale, waiting, delivered, outboxFaults>>

\* channelChain: the senders tried in turn; an unconfigured one is skipped.
ChannelChain(ch) ==
    CASE ch = "ZNS" -> <<"ZNS", "SMS", "EMAIL">>
      [] ch = "SMS" -> <<"SMS", "EMAIL">>
      [] OTHER -> <<"EMAIL">>

HasSender(ch) == \E k \in DOMAIN ChannelChain(ch) : ChannelChain(ch)[k] \in Configured

Goto(w, pc) == worker' = [worker EXCEPT ![w] = [@ EXCEPT !.pc = pc]]

\* sender.send resolves: the message is out.
SendSucceeds(w) ==
    /\ worker[w].pc = "send"
    /\ HasSender(channel[worker[w].row])
    /\ delivered' = [delivered EXCEPT ![worker[w].row] = @ + 1]
    /\ Goto(w, "mark")
    /\ UNCHANGED <<status, channel, retries, stale, waiting, outboxFaults>>

\* sender.send rejects, or every channel of the chain is unconfigured.
SendFails(w) ==
    /\ worker[w].pc = "send"
    /\ Goto(w, "fail")
    /\ UNCHANGED <<status, channel, retries, stale, waiting, delivered, outboxFaults>>

\* sender.send rejects although the message went out.
SendFailsLate(w) ==
    /\ worker[w].pc = "send"
    /\ HasSender(channel[worker[w].row])
    /\ outboxFaults < MaxOutboxFaults
    /\ outboxFaults' = outboxFaults + 1
    /\ delivered' = [delivered EXCEPT ![worker[w].row] = @ + 1]
    /\ Goto(w, "fail")
    /\ UNCHANGED <<status, channel, retries, stale, waiting>>

\* Mutant: the delivery is not written down.
MarkSentUnsaved(w) ==
    /\ worker[w].pc = "mark"
    /\ Goto(w, "claim")
    /\ UNCHANGED <<status, channel, retries, stale, waiting, delivered, outboxFaults>>

\* The row becomes SENT, by id alone.
MarkSent(w) ==
    /\ worker[w].pc = "mark"
    /\ status' = [status EXCEPT ![worker[w].row] = "SENT"]
    /\ stale' = stale \ {worker[w].row}
    /\ waiting' = waiting \ {worker[w].row}
    /\ Goto(w, "claim")
    /\ UNCHANGED <<channel, retries, delivered, outboxFaults>>

\* That UPDATE fails; the catch clause treats it as a failed delivery.
MarkSentFails(w) ==
    /\ worker[w].pc = "mark"
    /\ outboxFaults < MaxOutboxFaults
    /\ outboxFaults' = outboxFaults + 1
    /\ Goto(w, "fail")
    /\ UNCHANGED <<status, channel, retries, stale, waiting, delivered>>

Exhausted(w) == worker[w].attempt + 1 >= MaxRetries

\* recordFailure, by id alone: back to the queue with a backoff, or FAILED.
RecordFailure(w) ==
    LET n == worker[w].row
    IN  /\ worker[w].pc = "fail"
        /\ status' = [status EXCEPT ![n] = IF Exhausted(w) THEN "FAILED" ELSE "QUEUED"]
        /\ retries' = [retries EXCEPT ![n] = worker[w].attempt + 1]
        /\ stale' = stale \ {n}
        /\ waiting' = IF Exhausted(w) THEN waiting \ {n} ELSE waiting \cup {n}
        /\ Goto(w, "claim")
        /\ UNCHANGED <<channel, delivered, outboxFaults>>

\* onModuleDestroy: no new claim, the row in hand is finished.
Shutdown(w) ==
    /\ worker[w].pc # "idle"
    /\ ~worker[w].stopping
    /\ outboxFaults < MaxOutboxFaults
    /\ outboxFaults' = outboxFaults + 1
    /\ worker' = [worker EXCEPT ![w] = [@ EXCEPT !.stopping = TRUE]]
    /\ UNCHANGED <<status, channel, retries, stale, waiting, delivered>>

\* The process dies, or a statement outside deliver's try block fails and ends
\* the pass; the row in hand stays SENDING.  Then the process starts again.
CrashPass(w) ==
    /\ worker[w].pc # "idle"
    /\ outboxFaults < MaxOutboxFaults
    /\ outboxFaults' = outboxFaults + 1
    /\ worker' = [worker EXCEPT ![w] = Resting]
    /\ UNCHANGED <<status, channel, retries, stale, waiting, delivered>>

-----------------------------------------------------------------------------
(* The clock                                                               *)

LeaseRunsOut(n) ==
    /\ status[n] = "SENDING"
    /\ n \notin stale
    /\ stale' = stale \cup {n}
    /\ UNCHANGED <<status, channel, retries, waiting, delivered, worker, outboxFaults>>

BackoffEnds(n) ==
    /\ n \in waiting
    /\ waiting' = waiting \ {n}
    /\ UNCHANGED <<status, channel, retries, stale, delivered, worker, outboxFaults>>

RunPass(w) ==
    \/ BeginPass(w) \/ Claim(w) \/ EndPass(w)
    \/ SendSucceeds(w) \/ SendFails(w) \/ MarkSent(w) \/ RecordFailure(w)

OutboxNext ==
    \/ \E n \in Ids, ch \in Channels : Enqueue(n, ch)
    \/ \E n \in Ids : EnqueueInApp(n)
    \/ \E w \in Workers : RunPass(w)
    \/ \E w \in Workers : SendFailsLate(w)
    \/ \E w \in Workers : MarkSentFails(w)
    \/ \E w \in Workers : Shutdown(w)
    \/ \E w \in Workers : CrashPass(w)
    \/ \E n \in Ids : LeaseRunsOut(n)
    \/ \E n \in Ids : BackoffEnds(n)

OutboxSpec == OutboxInit /\ [][OutboxNext]_outboxVars

\* The poll timer starts passes, the event loop runs them, time goes on.
OutboxFairness ==
    /\ \A w \in Workers : WF_outboxVars(RunPass(w))
    /\ \A n \in Ids : WF_outboxVars(LeaseRunsOut(n)) /\ WF_outboxVars(BackoffEnds(n))

FairOutbox == OutboxSpec /\ OutboxFairness

-----------------------------------------------------------------------------
(* Properties                                                              *)

\* A message goes out twice only if something failed in between: with one
\* process, whatever crashes, retries and recoveries happen, each extra copy
\* costs a fault.
ExtraCopiesNeedFaults == \A n \in Ids : delivered[n] <= 1 + outboxFaults

\* "Claim-first so duplicate or overlapping passes cannot double-send": with no
\* fault at all, no message goes out twice.
NoDoubleSend == outboxFaults = 0 => \A n \in Ids : delivered[n] <= 1

\* Every enqueued row is eventually delivered or given up.
EveryRowFinishes ==
    \A n \in Ids : (status[n] = "QUEUED") ~> (status[n] \in {"SENT", "FAILED"})

=============================================================================
