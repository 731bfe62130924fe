------------------------------ MODULE Payments ------------------------------
(***************************************************************************)
(* Payment collection: PaymentsService (QR initiation, gateway webhook,    *)
(* cash confirmation, refund and dispute) and OverdueInvoiceJob, over the  *)
(* tables invoices and payment_transactions.                               *)
(*                                                                         *)
(* Grain.  Every transaction of the service that moves money first takes   *)
(* the invoice's row lock (lockInvoice), so a whole transaction is one     *)
(* action.  What happens outside a transaction is a step of its own: the   *)
(* webhook's unlocked read of the receipt and its HTTP answer, and the     *)
(* unlocked read of the invoice before the call to the gateway.            *)
(*                                                                         *)
(* Data.  A row's amount is always its invoice's total, which nothing ever *)
(* changes, so it is not stored: the SUCCESS sum of an invoice is the      *)
(* number of its SUCCESS rows times its total.  A time stamp expiresAt is  *)
(* kept as "has it passed".                                                *)
(***************************************************************************)
EXTENDS Null, Integers, FiniteSets

CONSTANTS
    Invoices,   \* invoice ids
    Payments,   \* payment_transactions ids; also stands for the order_ref
    TxnIds,     \* gateway_txn_id values the gateway uses
    Handlers,   \* webhook requests that may be in flight together
    Requests,   \* createQrPayment requests that may be in flight together
    Total,      \* invoice -> total, in VND
    Events,     \* the signed, readable events the gateway may send
    MaxFaults   \* bound on failed or interrupted webhook requests

Event == [order : Payments, txnId : TxnIds, amount : Nat, success : BOOLEAN]

ASSUME PaymentsAssumption ==
    /\ IsFiniteSet(Payments)
    /\ Total \in [Invoices -> Nat]
    /\ Events \subseteq Event
    /\ MaxFaults \in Nat
    /\ None \notin Invoices
    /\ None \notin TxnIds
    /\ None \notin Events
    /\ None \notin {"QR", "CASH"}

InvoiceStatus == {"UNPAID", "PAID", "OVERDUE", "CANCELLED", "REFUNDED"}

\* "ABSENT" marks an id for which no row has been inserted yet.
PaymentStatus == {"ABSENT", "PENDING", "SUCCESS", "FAILED", "DISPUTED", "REFUNDED"}

Row == [status : PaymentStatus, invoice : Invoices \cup {None},
        gateway : {"QR", "CASH", None}, txnId : TxnIds \cup {None},
        expired : BOOLEAN]

Webhook == [pc : {"idle", "process", "answer"}, event : Events \cup {None}]

VARIABLES
    invoice,   \* invoice id -> status
    pastDue,   \* invoices whose due_date has passed
    overpaid,  \* invoices whose note records an overpayment
    row,       \* payment id -> payment_transactions row
    request,   \* createQrPayment in flight -> its invoice, or None
    handler,   \* webhook request in flight -> its progress
    sent,      \* events the gateway has begun to deliver
    acked,     \* events answered with HTTP 200
    faults     \* webhook requests that failed so far

vars == <<invoice, pastDue, overpaid, row, request, handler, sent, acked, faults>>

AbsentRow == [status |-> "ABSENT", invoice |-> None, gateway |-> None,
              txnId |-> None, expired |-> FALSE]

Idle == [pc |-> "idle", event |-> None]

Init ==
    /\ invoice = [i \in Invoices |-> "UNPAID"]
    /\ pastDue = {}
    /\ overpaid = {}
    /\ row = [p \in Payments |-> AbsentRow]
    /\ request = [q \in Requests |-> None]
    /\ handler = [h \in Handlers |-> Idle]
    /\ sent = {}
    /\ acked = {}
    /\ faults = 0

-----------------------------------------------------------------------------
(* Reads and writes over the tables.                                       *)

\* Row r after an UPDATE of its mutable columns.
Written(r, s, g, x) ==
    [status |-> s, invoice |-> r.invoice, gateway |-> r.gateway,
     txnId |-> g, expired |-> x]

Payable(i) == invoice[i] \in {"UNPAID", "OVERDUE"}

\* The SUCCESS receipts of invoice i in table r.
Settling(r, i) == {p \in Payments : r[p].status = "SUCCESS" /\ r[p].invoice = i}

\* aggregate({ status: 'SUCCESS' })._sum.amount of invoice i in table r.
Settled(r, i) == Cardinality(Settling(r, i)) * Total[i]

\* Mutant: the claim without its status.
ClaimableAnyStatus(e) == row[e.order].txnId \in {None, e.txnId}

\* The WHERE clause of every claim of a receipt by a gateway event.
Claimable(e) ==
    /\ row[e.order].status \in {"PENDING", "FAILED"}
    /\ row[e.order].txnId \in {None, e.txnId}

\* The unique index on gateway_txn_id refuses the claim (P2002).
StoredElsewhere(e) == \E p \in Payments \ {e.order} : row[p].txnId = e.txnId

Claimed(e) == Claimable(e) /\ ~StoredElsewhere(e)

\* The table after a conditional claim wrote status s for event e.
ClaimAs(e, s) ==
    [row EXCEPT ![e.order] = Written(row[e.order], s, e.txnId, row[e.order].expired)]

-----------------------------------------------------------------------------
(* createQrPayment                                                         *)

\* The invoice is read without a lock and found payable, then the gateway is
\* asked for a checkout link.
StartQr(q, i) ==
    /\ request[q] = None
    /\ Payable(i)
    /\ request' = [request EXCEPT ![q] = i]
    /\ UNCHANGED <<invoice, pastDue, overpaid, row, handler, sent, acked, faults>>

\* The gateway was unreachable, or the invoice is no longer payable under the
\* lock: 503 or 409, nothing is written.
AbandonQr(q) ==
    /\ request[q] # None
    /\ request' = [request EXCEPT ![q] = None]
    /\ UNCHANGED <<invoice, pastDue, overpaid, row, handler, sent, acked, faults>>

NewQrRow(i) == [status |-> "PENDING", invoice |-> i, gateway |-> "QR",
                txnId |-> None, expired |-> FALSE]

\* Mutant: older QR codes stay open.
SupersedeNothing(i) == row

\* Pending receipts of i in the table after a newer QR supersedes them.
Supersede(i) ==
    [p \in Payments |->
        IF row[p].status = "PENDING" /\ row[p].invoice = i
        THEN Written(row[p], "FAILED", row[p].txnId, TRUE)
        ELSE row[p]]

\* The transaction: lock, check again, supersede, insert.
CreateQrPayment(q, p) ==
    /\ request[q] # None
    /\ row[p].status = "ABSENT"
    /\ Payable(request[q])
    /\ row' = [Supersede(request[q]) EXCEPT ![p] = NewQrRow(request[q])]
    /\ request' = [request EXCEPT ![q] = None]
    /\ UNCHANGED <<invoice, pastDue, overpaid, handler, sent, acked, faults>>

-----------------------------------------------------------------------------
(* The gateway (external) and handleWebhook                                *)

\* Somebody transfers money with the reference of a QR that was handed out,
\* and the gateway begins to report it.
SendEvent(e) ==
    /\ e \notin sent
    /\ row[e.order].gateway = "QR"
    /\ sent' = sent \cup {e}
    /\ UNCHANGED <<invoice, pastDue, overpaid, row, request, handler, acked, faults>>

\* Mutant: a FAILED (also a superseded) receipt counts as handled.
AlreadyHandledIfFailed(e) == row[e.order].status \in {"SUCCESS", "DISPUTED", "REFUNDED", "FAILED"}

\* Early returns on the receipt as the unlocked read saw it.
AlreadyHandled(e) ==
    \/ row[e.order].status \in {"SUCCESS", "DISPUTED", "REFUNDED"}
    \/ row[e.order].status = "FAILED" /\ row[e.order].txnId = e.txnId

\* A first, duplicate or retried delivery arrives; the receipt is read.
ReadReceipt(h, e) ==
    /\ handler[h].pc = "idle"
    /\ e \in sent
    /\ handler' = [handler EXCEPT ![h] =
                     [pc |-> IF AlreadyHandled(e) THEN "answer" ELSE "process",
                      event |-> e]]
    /\ UNCHANGED <<invoice, pastDue, overpaid, row, request, sent, acked, faults>>

Processing(h) == handler[h].pc = "process"

Answered(h) ==
    handler' = [handler EXCEPT ![h] = [pc |-> "answer", event |-> handler[h].event]]

\* A claim that matches no row, or whose id the unique index refuses, writes
\* nothing and is answered 200.
LoseClaim(h) ==
    /\ Processing(h)
    /\ ~Claimed(handler[h].event)
    /\ Answered(h)
    /\ UNCHANGED <<invoice, pastDue, overpaid, row, request, sent, acked, faults>>

\* transitionReceipt: a reported failure, or a transfer of the wrong amount.
TransitionStatus(e) == IF e.success THEN "DISPUTED" ELSE "FAILED"

\* Mutant: any amount will do.
AnyAmount(e) == e.amount > 0

ExactAmount(e) == e.amount = Total[row[e.order].invoice]

TransitionReceipt(h) ==
    LET e == handler[h].event
    IN  /\ Processing(h)
        /\ ~e.success \/ ~ExactAmount(e)
        /\ Claimed(e)
        /\ row' = ClaimAs(e, TransitionStatus(e))
        /\ Answered(h)
        /\ UNCHANGED <<invoice, pastDue, overpaid, request, sent, acked, faults>>

\* The settlement transaction, on a receipt whose QR has expired.
DisputeExpired(h) ==
    LET e == handler[h].event
    IN  /\ Processing(h)
        /\ e.success /\ ExactAmount(e)
        /\ Claimed(e)
        /\ row[e.order].expired
        /\ row' = ClaimAs(e, "DISPUTED")
        /\ Answered(h)
        /\ UNCHANGED <<invoice, pastDue, overpaid, request, sent, acked, faults>>

\* Mutant: the overpayment rule is missing.
NeverExceeds(e) == FALSE

\* The claim together with the other SUCCESS receipts exceeds the total.
Exceeds(e) == LET i == row[e.order].invoice
              IN  Settled(ClaimAs(e, "SUCCESS"), i) > Total[i]

\* The settlement transaction, on a receipt that is still in time: the claim,
\* then the check of the invoice's state, the overpayment rule, the PAID flip.
Settle(h) ==
    LET e == handler[h].event
        i == row[e.order].invoice
        closed == invoice[i] \in {"CANCELLED", "REFUNDED"}
        dispute == closed \/ Exceeds(e)
        paid == Settled(ClaimAs(e, "SUCCESS"), i) >= Total[i]
    IN  /\ Processing(h)
        /\ e.success /\ ExactAmount(e)
        /\ Claimed(e)
        /\ ~row[e.order].expired
        /\ row' = ClaimAs(e, IF dispute THEN "DISPUTED" ELSE "SUCCESS")
        /\ overpaid' = IF ~closed /\ Exceeds(e) THEN overpaid \cup {i} ELSE overpaid
        /\ invoice' = IF ~dispute /\ paid /\ Payable(i)
                      THEN [invoice EXCEPT ![i] = "PAID"] ELSE invoice
        /\ Answered(h)
        /\ UNCHANGED <<pastDue, request, sent, acked, faults>>

\* The 200 reaches the gateway, which stops retrying.
Answer(h) ==
    /\ handler[h].pc = "answer"
    /\ acked' = acked \cup {handler[h].event}
    /\ handler' = [handler EXCEPT ![h] = Idle]
    /\ UNCHANGED <<invoice, pastDue, overpaid, row, request, sent, faults>>

\* The transaction rolls back, the process dies, or the answer is lost after
\* the commit: the gateway sees no 200 and will deliver again.
WebhookFault(h) ==
    /\ handler[h].pc # "idle"
    /\ faults < MaxFaults
    /\ faults' = faults + 1
    /\ handler' = [handler EXCEPT ![h] = Idle]
    /\ UNCHANGED <<invoice, pastDue, overpaid, row, request, sent, acked>>

-----------------------------------------------------------------------------
(* Administration                                                          *)

CashRow(i) == [status |-> "SUCCESS", invoice |-> i, gateway |-> "CASH",
               txnId |-> None, expired |-> FALSE]

\* Mutant: cash is taken without claiming the invoice.
ConfirmCashUnclaimed(i, p) ==
    /\ row[p].status = "ABSENT"
    /\ invoice' = [invoice EXCEPT ![i] = "PAID"]
    /\ row' = [row EXCEPT ![p] = CashRow(i)]
    /\ UNCHANGED <<pastDue, overpaid, request, handler, sent, acked, faults>>

ConfirmCash(i, p) ==
    /\ Payable(i)
    /\ row[p].status = "ABSENT"
    /\ invoice' = [invoice EXCEPT ![i] = "PAID"]
    /\ row' = [row EXCEPT ![p] = CashRow(i)]
    /\ UNCHANGED <<pastDue, overpaid, request, handler, sent, acked, faults>>

\* Mutant: no recomputation.
StatusKept(r, i) == invoice[i]

\* recomputeInvoiceStatus, over the table r the same transaction wrote.
RecomputedStatus(r, i) ==
    LET paid == Settled(r, i) >= Total[i]
    IN  CASE invoice[i] \in {"UNPAID", "OVERDUE"} /\ paid -> "PAID"
          [] invoice[i] = "PAID" /\ ~paid -> "UNPAID"
          [] OTHER -> invoice[i]

SetOutcome(p, s) ==
    /\ s \in {"REFUNDED", "DISPUTED"}
    /\ \/ row[p].status = "SUCCESS"
       \/ row[p].status = "DISPUTED" /\ s = "REFUNDED"
    /\ row' = [row EXCEPT ![p] = Written(row[p], s, row[p].txnId, row[p].expired)]
    /\ invoice' = [invoice EXCEPT ![row[p].invoice] =
                     RecomputedStatus(row', row[p].invoice)]
    /\ UNCHANGED <<pastDue, overpaid, request, handler, sent, acked, faults>>

-----------------------------------------------------------------------------
(* The clock and the daily job                                             *)

QrExpires(p) ==
    /\ row[p].gateway = "QR"
    /\ ~row[p].expired
    /\ row' = [row EXCEPT ![p] = Written(row[p], row[p].status, row[p].txnId, TRUE)]
    /\ UNCHANGED <<invoice, pastDue, overpaid, request, handler, sent, acked, faults>>

DueDatePasses(i) ==
    /\ i \notin pastDue
    /\ pastDue' = pastDue \cup {i}
    /\ UNCHANGED <<invoice, overpaid, row, request, handler, sent, acked, faults>>

\* One UPDATE over every UNPAID invoice whose due date has passed.
MarkOverdue ==
    /\ \E i \in pastDue : invoice[i] = "UNPAID"
    /\ invoice' = [i \in Invoices |->
                     IF invoice[i] = "UNPAID" /\ i \in pastDue
                     THEN "OVERDUE" ELSE invoice[i]]
    /\ UNCHANGED <<pastDue, overpaid, row, request, handler, sent, acked, faults>>

-----------------------------------------------------------------------------
HandleWebhook(h) ==
    \/ LoseClaim(h)
    \/ TransitionReceipt(h)
    \/ DisputeExpired(h)
    \/ Settle(h)
    \/ Answer(h)

Next ==
    \/ \E q \in Requests, i \in Invoices : StartQr(q, i)
    \/ \E q \in Requests : AbandonQr(q)
    \/ \E q \in Requests, p \in Payments : CreateQrPayment(q, p)
    \/ \E e \in Events : SendEvent(e)
    \/ \E h \in Handlers, e \in Events : ReadReceipt(h, e)
    \/ \E h \in Handlers : HandleWebhook(h)
    \/ \E h \in Handlers : WebhookFault(h)
    \/ \E i \in Invoices, p \in Payments : ConfirmCash(i, p)
    \/ \E p \in Payments, s \in {"REFUNDED", "DISPUTED"} : SetOutcome(p, s)
    \/ \E p \in Payments : QrExpires(p)
    \/ \E i \in Invoices : DueDatePasses(i)
    \/ MarkOverdue

Spec == Init /\ [][Next]_vars

\* The event loop runs an accepted webhook to its answer; the gateway delivers
\* an event again until it is answered 200; the aging timer fires every day.
Fairness ==
    /\ \A h \in Handlers : WF_vars(HandleWebhook(h))
    /\ \A e \in Events :
          SF_vars(e \notin acked /\ \E h \in Handlers : ReadReceipt(h, e))
    /\ WF_vars(MarkOverdue)

FairSpec == Spec /\ Fairness

-----------------------------------------------------------------------------
(* Properties                                                              *)

\* Every variable stays in its type.
TypeOK ==
    /\ invoice \in [Invoices -> InvoiceStatus]
    /\ pastDue \subseteq Invoices
    /\ overpaid \subseteq Invoices
    /\ row \in [Payments -> Row]
    /\ request \in [Requests -> Invoices \cup {None}]
    /\ handler \in [Handlers -> Webhook]
    /\ sent \subseteq Events
    /\ acked \subseteq Events
    /\ faults \in 0..MaxFaults

\* Invoices somebody has to pay; a discount may reduce a total to zero.
Charged == {i \in Invoices : Total[i] > 0}

\* "The invoice is PAID when the sum of SUCCESS transactions reaches its
\* total", in both directions and at every moment: whatever the order of QR
\* settlement, cash, refund, dispute, aging and late transfers.
PaidIffSettled ==
    \A i \in Charged : invoice[i] = "PAID" <=> Settled(row, i) >= Total[i]

\* Money beyond the total is never booked as SUCCESS: the overpayment rule of
\* the settlement and the claim of confirmCash hold against each other.
NeverOverSettled == \A i \in Invoices : Settled(row, i) <= Total[i]

\* A newer QR supersedes the older one also when two requests are in flight.
OnePendingPerInvoice ==
    \A p, q \in Payments :
        (/\ row[p].status = "PENDING" /\ row[q].status = "PENDING"
         /\ row[p].invoice = row[q].invoice) => p = q

\* Event e is on the books: its receipt carries its id and a status an
\* administrator sees as money received.
Recorded(e) ==
    /\ row[e.order].txnId = e.txnId
    /\ row[e.order].status \in {"SUCCESS", "DISPUTED", "REFUNDED"}

\* e is the only event reported for its order and the only one with its id.
Sole(e) == \A f \in sent : f.order = e.order \/ f.txnId = e.txnId => f = e

\* A transfer the gateway has been told to forget (200) is on the books,
\* although the receipt was read before the lock was taken, and deliveries
\* are repeated, overlap and are cut short.
AckedTransferRecorded == \A e \in acked : e.success /\ Sole(e) => Recorded(e)

\* The same of every transfer, also of a second one for the same order.
EveryAckedTransferRecorded == \A e \in acked : e.success => Recorded(e)

\* A transfer of the wrong amount never counts towards the invoice.
WrongAmountNeverSettles ==
    \A e \in sent : (Sole(e) /\ row[e.order].status = "SUCCESS") =>
                       e.amount = Total[row[e.order].invoice]

\* What a receipt may become: webhook replays never reopen a settled, disputed
\* or refunded receipt, and an expired or superseded one never settles.
ReceiptLifecycle ==
    [][\A p \in Payments :
          /\ row[p].status = "REFUNDED" => row'[p].status = "REFUNDED"
          /\ row[p].status = "DISPUTED" => row'[p].status \in {"DISPUTED", "REFUNDED"}
          /\ row[p].status = "SUCCESS" =>
                row'[p].status \in {"SUCCESS", "DISPUTED", "REFUNDED"}
          /\ row[p].expired /\ row'[p].status = "SUCCESS" => row[p].status = "SUCCESS"]_vars

\* Every reported transfer is eventually on the books, through faults and
\* retries, when it is the only one reported for its order.
TransferEventuallyRecorded ==
    \A e \in Events : (e.success /\ e \in sent) ~> (Recorded(e) \/ ~Sole(e))

\* The refinement mapping to the abstract ledger, for the invoices that charge
\* something.
Cover == [i \in Charged |-> Settling(row, i)]
Paid == {i \in Charged : invoice[i] = "PAID"}
Spent == {p \in Payments : /\ row[p].status \in {"SUCCESS", "DISPUTED", "REFUNDED"}
                           /\ row[p].invoice \in Charged}

Ledger == INSTANCE InvoiceLedger WITH
    Invoices <- Charged, Receipts <- Payments,
    cover <- Cover, paid <- Paid, spent <- Spent

\* Every step of the service is a step of the ledger or invisible in it: PAID
\* and the covering receipt change together, one invoice at a time, and no
\* receipt pays twice.
ImplementsLedger == Ledger!Spec

=============================================================================
