--------------------------- MODULE PaymentsProofs ---------------------------
(***************************************************************************)
(* Theorems about Payments, for every set of invoices, payments, events    *)
(* and concurrent requests.                                                *)
(***************************************************************************)
EXTENDS Payments, FiniteSetTheorems, TLAPS

\* What the tables and the requests in flight look like, beyond their types:
\* a row that exists belongs to an invoice, one that does not is blank, and a
\* webhook in flight carries an event about an existing row.
WellFormed ==
    /\ \A p \in Payments : row[p].status # "ABSENT" => row[p].invoice \in Invoices
    /\ \A p \in Payments : row[p].status = "ABSENT" => row[p] = AbsentRow
    /\ \A e \in sent : row[e.order].status # "ABSENT"
    /\ \A h \in Handlers : handler[h].pc # "idle" => handler[h].event \in sent

TypeInv == TypeOK /\ WellFormed

\* The tables look as declared when the service starts.
LEMMA InitTypeInv == Init => TypeInv
  BY PaymentsAssumption
  DEF Init, TypeInv, TypeOK, WellFormed, AbsentRow, Idle, Row, Webhook,
      InvoiceStatus, PaymentStatus

\* Every operation, job and fault keeps them so.
LEMMA NextTypeInv == TypeInv /\ [Next]_vars => TypeInv'
<1> USE DEF TypeInv, TypeOK, WellFormed, Written
<1> SUFFICES ASSUME TypeInv, [Next]_vars
             PROVE  TypeInv'
    OBVIOUS
<1>1. ASSUME NEW q \in Requests, NEW i \in Invoices, StartQr(q, i)
      PROVE  TypeInv'
    BY <1>1 DEF StartQr
<1>2. ASSUME NEW q \in Requests, AbandonQr(q)
      PROVE  TypeInv'
    BY <1>2 DEF AbandonQr
<1>3. ASSUME NEW q \in Requests, NEW p \in Payments, CreateQrPayment(q, p)
      PROVE  TypeInv'
    BY <1>3, PaymentsAssumption
    DEF CreateQrPayment, Supersede, NewQrRow, Row, PaymentStatus, AbsentRow, Event
<1>4. ASSUME NEW e \in Events, SendEvent(e)
      PROVE  TypeInv'
    BY <1>4, PaymentsAssumption DEF SendEvent, Event, AbsentRow
<1>5. ASSUME NEW h \in Handlers, NEW e \in Events, ReadReceipt(h, e)
      PROVE  TypeInv'
    BY <1>5 DEF ReadReceipt, Webhook
<1>6. ASSUME NEW h \in Handlers, LoseClaim(h)
      PROVE  TypeInv'
    BY <1>6 DEF LoseClaim, Answered, Processing, Webhook
<1>7. ASSUME NEW h \in Handlers, TransitionReceipt(h)
      PROVE  TypeInv'
    BY <1>7, PaymentsAssumption
    DEF TransitionReceipt, Answered, Processing, Webhook, ClaimAs, Event,
        TransitionStatus, Row, PaymentStatus, Claimed, Claimable
<1>8. ASSUME NEW h \in Handlers, DisputeExpired(h)
      PROVE  TypeInv'
    BY <1>8, PaymentsAssumption
    DEF DisputeExpired, Answered, Processing, Webhook, ClaimAs, Event,
        Row, PaymentStatus, Claimed, Claimable
<1>9. ASSUME NEW h \in Handlers, Settle(h)
      PROVE  TypeInv'
  <2> DEFINE e == handler[h].event
             i == row[e.order].invoice
  <2>1. e \in Events /\ e \in sent /\ e.order \in Payments /\ e.txnId \in TxnIds
    <3>1. Processing(h)
      BY <1>9, Zenon DEF Settle
    <3>2. QED
      BY <3>1, PaymentsAssumption DEF Processing, Event
  <2>2. i \in Invoices
    BY <2>1
  <2>3. PICK s \in {"SUCCESS", "DISPUTED"} : row' = ClaimAs(e, s)
    BY <1>9, Zenon DEF Settle
  <2>4. row' \in [Payments -> Row]
    BY <2>1, <2>3 DEF ClaimAs, Row, PaymentStatus
  <2>5. invoice' \in [Invoices -> InvoiceStatus]
    BY <1>9, Zenon DEF Settle, InvoiceStatus
  <2>6. overpaid' \subseteq Invoices
    BY <1>9, <2>2, Zenon DEF Settle
  <2>7. handler' \in [Handlers -> Webhook] /\ UNCHANGED <<pastDue, request, sent, acked, faults>>
    BY <1>9, <2>1, Zenon DEF Settle, Answered, Webhook
  <2>8. WellFormed'
    <3>1. \A p \in Payments : row'[p].status # "ABSENT" => row'[p].invoice \in Invoices
      BY <2>1, <2>2, <2>3 DEF ClaimAs
    <3>2. \A p \in Payments : row'[p].status = "ABSENT" => row'[p] = AbsentRow
      BY <2>1, <2>3 DEF ClaimAs
    <3>3. \A f \in sent' : row'[f.order].status # "ABSENT"
      BY <2>1, <2>3, <2>7, PaymentsAssumption DEF ClaimAs, Event
    <3>4. \A k \in Handlers : handler'[k].pc # "idle" => handler'[k].event \in sent'
      BY <1>9, <2>1, <2>7, Zenon DEF Settle, Answered
    <3>5. QED
      BY <3>1, <3>2, <3>3, <3>4
  <2>9. QED
    BY <2>4, <2>5, <2>6, <2>7, <2>8
<1>10. ASSUME NEW h \in Handlers, Answer(h)
       PROVE  TypeInv'
    BY <1>10 DEF Answer, Idle, Webhook
<1>11. ASSUME NEW h \in Handlers, WebhookFault(h)
       PROVE  TypeInv'
    BY <1>11, PaymentsAssumption DEF WebhookFault, Idle, Webhook
<1>12. ASSUME NEW i \in Invoices, NEW p \in Payments, ConfirmCash(i, p)
       PROVE  TypeInv'
    BY <1>12, PaymentsAssumption
    DEF ConfirmCash, CashRow, Row, PaymentStatus, InvoiceStatus, Event, AbsentRow
<1>13. ASSUME NEW p \in Payments, NEW s \in {"REFUNDED", "DISPUTED"}, SetOutcome(p, s)
       PROVE  TypeInv'
    BY <1>13, PaymentsAssumption
    DEF SetOutcome, RecomputedStatus, Row, PaymentStatus, InvoiceStatus, Event
<1>14. ASSUME NEW p \in Payments, QrExpires(p)
       PROVE  TypeInv'
  <2>1. row[p].status # "ABSENT"
    BY <1>14, PaymentsAssumption DEF QrExpires, AbsentRow
  <2>2. row' \in [Payments -> Row]
    BY <1>14 DEF QrExpires, Row
  <2>3. QED
    BY <1>14, <2>1, <2>2, PaymentsAssumption DEF QrExpires, Event
<1>15. ASSUME NEW i \in Invoices, DueDatePasses(i)
       PROVE  TypeInv'
    BY <1>15 DEF DueDatePasses
<1>16. CASE MarkOverdue
    BY <1>16 DEF MarkOverdue, InvoiceStatus
<1>17. CASE UNCHANGED vars
    BY <1>17 DEF vars
<1>18. QED
    BY <1>1, <1>2, <1>3, <1>4, <1>5, <1>6, <1>7, <1>8, <1>9, <1>10, <1>11,
       <1>12, <1>13, <1>14, <1>15, <1>16, <1>17 DEF Next, HandleWebhook

\* The rows, requests and handlers always have the shape the schema and the
\* code give them (TypeOK), and are well formed.
THEOREM TypeCorrect == Spec => [](TypeOK /\ WellFormed)
<1>1. Init => TypeInv
    BY InitTypeInv
<1>2. TypeInv /\ [Next]_vars => TypeInv'
    BY NextTypeInv
<1>3. QED
    BY <1>1, <1>2, PTL DEF Spec, TypeInv

-----------------------------------------------------------------------------
(* The SUCCESS sum.                                                        *)

\* A multiple of a positive total reaches it from one on, exceeds it from two.
LEMMA Multiples ==
  ASSUME NEW n \in Nat, NEW t \in Nat, t > 0
  PROVE  /\ n * t >= t <=> n >= 1
         /\ n * t > t <=> n >= 2
<1>1. CASE n = 0
    BY <1>1, SMT
<1>2. CASE n = 1
    BY <1>2, SMT
<1>3. CASE n >= 2
  <2>1. PICK k \in Nat : n = k + 2
    <3>1. n - 2 \in Nat /\ n = (n - 2) + 2
      BY <1>3, SMT
    <3>2. QED
      BY <3>1
  <2>2. k * t >= 0
    BY SMT
  <2>3. n * t = k * t + 2 * t
    BY <2>1, SMT
  <2>4. k * t \in Int
    BY SMT
  <2>5. QED
    BY <1>3, <2>2, <2>3, <2>4, SMT
<1>4. QED
    BY <1>1, <1>2, <1>3, SMT

\* The sum of an invoice reaches its total when a SUCCESS receipt exists, and
\* exceeds it when two do.
LEMMA SumOfReceipts ==
  ASSUME NEW r, NEW i \in Charged
  PROVE  /\ Settled(r, i) >= Total[i] <=> Settling(r, i) # {}
         /\ Settled(r, i) > Total[i] <=> \E p, q \in Settling(r, i) : p # q
<1> DEFINE S == Settling(r, i)
<1>1. IsFiniteSet(S) /\ Cardinality(S) \in Nat
    BY PaymentsAssumption, FS_Subset, FS_CardinalityType DEF Settling
<1>2. Total[i] \in Nat /\ Total[i] > 0
    BY PaymentsAssumption DEF Charged
<1>3. Cardinality(S) >= 1 <=> S # {}
  <2>1. Cardinality(S) = 0 <=> S = {}
    BY <1>1, FS_EmptySet
  <2>2. QED
    BY <1>1, <2>1
<1>4. Cardinality(S) >= 2 <=> \E p, q \in S : p # q
  <2>1. Cardinality(S) = 1 <=> \E x : S = {x}
    BY <1>1, FS_Singleton
  <2>2. ASSUME \E p, q \in S : p # q
        PROVE  Cardinality(S) # 1 /\ S # {}
    BY <2>1, <2>2
  <2>3. ASSUME ~ \E p, q \in S : p # q, S # {}
        PROVE  \E x : S = {x}
    <3>1. PICK x : x \in S
      BY <2>3
    <3>2. S = {x}
      BY <2>3, <3>1
    <3>3. QED
      BY <3>2
  <2>4. Cardinality(S) >= 2 <=> (Cardinality(S) # 1 /\ Cardinality(S) >= 1)
    BY <1>1
  <2>5. QED
    BY <1>3, <2>1, <2>2, <2>3, <2>4
<1>5. QED
    BY <1>1, <1>2, <1>3, <1>4, Multiples DEF Settled

-----------------------------------------------------------------------------
(* PAID exactly when settled, and never settled twice.                     *)

\* The inductive form of PaidIffSettled and NeverOverSettled: about receipts
\* instead of sums.  No code path cancels or refunds an invoice.
MoneyInv ==
    /\ \A i \in Charged : \A p, q \in Settling(row, i) : p = q
    /\ \A i \in Charged : invoice[i] = "PAID" <=> Settling(row, i) # {}
    /\ \A i \in Invoices : invoice[i] \in {"UNPAID", "OVERDUE", "PAID"}

\* A step that neither makes nor unmakes a SUCCESS receipt, and moves no
\* invoice into or out of PAID, keeps the invariant.
LEMMA NoMoneyMoves ==
  ASSUME MoneyInv,
         \A i \in Charged : Settling(row', i) = Settling(row, i),
         \A i \in Invoices : \/ invoice'[i] = invoice[i]
                             \/ invoice[i] = "UNPAID" /\ invoice'[i] = "OVERDUE"
  PROVE  MoneyInv'
  BY DEF MoneyInv, Charged

\* The settlement transaction: a claim that becomes SUCCESS is the only
\* SUCCESS receipt of an invoice that was payable.
LEMMA SettleKeepsMoney ==
  ASSUME TypeInv, MoneyInv, NEW h \in Handlers, Settle(h)
  PROVE  MoneyInv'
<1> DEFINE e == handler[h].event
           i == row[e.order].invoice
<1>1. e.order \in Payments /\ i \in Invoices /\ row[e.order].status \in {"PENDING", "FAILED"}
  <2>1. Processing(h) /\ Claimed(e)
    BY Zenon DEF Settle
  <2>2. e \in sent /\ e.order \in Payments
    BY <2>1, PaymentsAssumption DEF Processing, TypeInv, TypeOK, WellFormed, Event
  <2>3. QED
    BY <2>1, <2>2 DEF Claimed, Claimable, TypeInv, WellFormed
<1>2. \A s, j : Settling(ClaimAs(e, s), j) =
                 IF s = "SUCCESS" /\ j = i THEN Settling(row, j) \cup {e.order}
                                           ELSE Settling(row, j)
    BY <1>1 DEF Settling, ClaimAs, Written, TypeInv, TypeOK
<1>3. CASE row' = ClaimAs(e, "DISPUTED")
  <2>1. \A j : Settling(row', j) = Settling(row, j)
    BY <1>2, <1>3
  <2>2. invoice' = invoice
    <3>1. row'[e.order].status = "DISPUTED"
      BY <1>1, <1>3 DEF ClaimAs, Written, TypeInv, TypeOK
    <3>2. ClaimAs(e, "SUCCESS")[e.order].status = "SUCCESS"
      BY <1>1 DEF ClaimAs, Written, TypeInv, TypeOK
    <3>3. QED
      BY <3>1, <3>2, Zenon DEF Settle
  <2>3. QED
    BY <2>1, <2>2, NoMoneyMoves
<1>4. CASE row' # ClaimAs(e, "DISPUTED")
  <2>1. row' = ClaimAs(e, "SUCCESS") /\ ~Exceeds(e)
    BY <1>4, Zenon DEF Settle
  <2>2. Settling(row', i) = Settling(row, i) \cup {e.order}
    BY <1>2, <2>1
  <2>3. \A j \in Charged \ {i} : Settling(row', j) = Settling(row, j)
    BY <1>2, <2>1
  <2>4. invoice' = IF Settled(row', i) >= Total[i] /\ Payable(i)
                   THEN [invoice EXCEPT ![i] = "PAID"] ELSE invoice
    BY <1>4, <2>1, Zenon DEF Settle
  <2>5. CASE i \in Charged
    <3>1. \A p, q \in Settling(row', i) : p = q
      BY <2>1, <2>5, SumOfReceipts DEF Exceeds
    <3>2. Settling(row, i) = {}
      BY <1>1, <2>2, <3>1 DEF Settling
    <3>3. Settled(row', i) >= Total[i]
      BY <2>2, <2>5, SumOfReceipts
    <3>4. Payable(i)
      BY <1>1, <2>5, <3>2 DEF Payable, MoneyInv
    <3>5. invoice' = [invoice EXCEPT ![i] = "PAID"]
      BY <2>4, <3>3, <3>4
    <3>6. QED
      BY <1>1, <2>2, <2>3, <3>1, <3>5 DEF MoneyInv, TypeInv, TypeOK, Charged
  <2>6. CASE i \notin Charged
    BY <1>1, <2>3, <2>4, <2>6 DEF MoneyInv, TypeInv, TypeOK, Charged
  <2>7. QED
    BY <2>5, <2>6
<1>5. QED
    BY <1>3, <1>4

\* Cash: the claim of the invoice proves that nothing had settled it.
LEMMA CashKeepsMoney ==
  ASSUME TypeInv, MoneyInv, NEW i \in Invoices, NEW p \in Payments, ConfirmCash(i, p)
  PROVE  MoneyInv'
<1>1. \A j : Settling(row', j) = IF j = i THEN Settling(row, j) \cup {p}
                                         ELSE Settling(row, j)
    BY DEF ConfirmCash, CashRow, Settling, TypeInv, TypeOK
<1>2. invoice' = [invoice EXCEPT ![i] = "PAID"] /\ invoice[i] # "PAID"
    BY DEF ConfirmCash, Payable
<1>3. i \in Charged => Settling(row, i) = {}
    BY <1>2 DEF MoneyInv
<1>4. QED
    BY <1>1, <1>2, <1>3 DEF MoneyInv, TypeInv, TypeOK, Charged

\* Refund and dispute: the recomputation follows the receipts.
LEMMA OutcomeKeepsMoney ==
  ASSUME TypeInv, MoneyInv, NEW p \in Payments,
         NEW s \in {"REFUNDED", "DISPUTED"}, SetOutcome(p, s)
  PROVE  MoneyInv'
<1> DEFINE i == row[p].invoice
<1>1. i \in Invoices
    BY DEF SetOutcome, TypeInv, WellFormed
<1>2. \A j : Settling(row', j) = Settling(row, j) \ {p}
    BY DEF SetOutcome, Written, Settling, TypeInv, TypeOK
<1>3. \A j : j # i => Settling(row', j) = Settling(row, j)
    BY <1>2 DEF Settling
<1>4. invoice' = [invoice EXCEPT ![i] = RecomputedStatus(row', i)]
    BY DEF SetOutcome
<1>5. RecomputedStatus(row', i) \in {"UNPAID", "OVERDUE", "PAID"}
    BY <1>1 DEF RecomputedStatus, MoneyInv
<1>6. i \in Charged => (RecomputedStatus(row', i) = "PAID" <=> Settling(row', i) # {})
  <2>1. i \in Charged => (Settled(row', i) >= Total[i] <=> Settling(row', i) # {})
    BY SumOfReceipts
  <2>2. QED
    BY <1>1, <2>1 DEF RecomputedStatus, MoneyInv
<1>7. \A j \in Charged : \A x, y \in Settling(row', j) : x = y
    BY <1>2 DEF MoneyInv
<1>8. QED
    BY <1>1, <1>3, <1>4, <1>5, <1>6, <1>7 DEF MoneyInv, TypeInv, TypeOK, Charged

\* Every step keeps the books balanced.
LEMMA NextMoneyInv == TypeInv /\ MoneyInv /\ [Next]_vars => MoneyInv'
<1> SUFFICES ASSUME TypeInv, MoneyInv, [Next]_vars
             PROVE  MoneyInv'
    OBVIOUS
<1> DEFINE Quiet == /\ \A i \in Charged : Settling(row', i) = Settling(row, i)
                    /\ invoice' = invoice
<1>0. Quiet => MoneyInv'
    BY NoMoneyMoves
<1>1. ASSUME NEW q \in Requests, NEW p \in Payments, CreateQrPayment(q, p)
      PROVE  MoneyInv'
  <2>1. Quiet
    BY <1>1 DEF CreateQrPayment, Supersede, NewQrRow, Written, Settling, TypeInv, TypeOK
  <2>2. QED
    BY <1>0, <2>1
<1>2. ASSUME NEW h \in Handlers, TransitionReceipt(h) \/ DisputeExpired(h)
      PROVE  MoneyInv'
  <2> DEFINE e == handler[h].event
  <2>1. Processing(h) /\ Claimed(e) /\ invoice' = invoice
    BY <1>2 DEF TransitionReceipt, DisputeExpired
  <2>2. e.order \in Payments /\ row[e.order].status # "SUCCESS"
    <3>1. e \in sent
      BY <2>1 DEF Processing, TypeInv, WellFormed
    <3>2. QED
      BY <2>1, <3>1, PaymentsAssumption DEF Claimed, Claimable, TypeInv, TypeOK, Event
  <2>3. PICK s \in {"FAILED", "DISPUTED"} : row' = ClaimAs(e, s)
    BY <1>2 DEF TransitionReceipt, DisputeExpired, TransitionStatus
  <2>4. Quiet
    BY <2>1, <2>2, <2>3 DEF ClaimAs, Written, Settling, TypeInv, TypeOK
  <2>5. QED
    BY <1>0, <2>4
<1>3. ASSUME NEW p \in Payments, QrExpires(p)
      PROVE  MoneyInv'
  <2>1. Quiet
    BY <1>3 DEF QrExpires, Written, Settling, TypeInv, TypeOK
  <2>2. QED
    BY <1>0, <2>1
<1>4. ASSUME MarkOverdue
      PROVE  MoneyInv'
  <2>1. \A i \in Charged : Settling(row', i) = Settling(row, i)
    BY <1>4 DEF MarkOverdue, Settling
  <2>2. \A i \in Invoices : \/ invoice'[i] = invoice[i]
                            \/ invoice[i] = "UNPAID" /\ invoice'[i] = "OVERDUE"
    BY <1>4 DEF MarkOverdue
  <2>3. QED
    BY <2>1, <2>2, NoMoneyMoves
<1>5. ASSUME UNCHANGED <<invoice, row>>
      PROVE  MoneyInv'
    BY <1>0, <1>5 DEF Settling
<1>6. QED
  <2>1. ASSUME NEW q \in Requests, NEW i \in Invoices, StartQr(q, i)
        PROVE  UNCHANGED <<invoice, row>>
    BY <2>1 DEF StartQr
  <2>2. ASSUME NEW q \in Requests, AbandonQr(q)
        PROVE  UNCHANGED <<invoice, row>>
    BY <2>2 DEF AbandonQr
  <2>3. ASSUME NEW e \in Events, SendEvent(e)
        PROVE  UNCHANGED <<invoice, row>>
    BY <2>3 DEF SendEvent
  <2>4. ASSUME NEW h \in Handlers, NEW e \in Events, ReadReceipt(h, e)
        PROVE  UNCHANGED <<invoice, row>>
    BY <2>4 DEF ReadReceipt
  <2>5. ASSUME NEW h \in Handlers, LoseClaim(h) \/ Answer(h) \/ WebhookFault(h)
        PROVE  UNCHANGED <<invoice, row>>
    BY <2>5 DEF LoseClaim, Answer, WebhookFault
  <2>6. ASSUME NEW i \in Invoices, DueDatePasses(i)
        PROVE  UNCHANGED <<invoice, row>>
    BY <2>6 DEF DueDatePasses
  <2>7. (UNCHANGED vars) => UNCHANGED <<invoice, row>>
    BY DEF vars
  <2>8. QED
    BY <1>1, <1>2, <1>3, <1>4, <1>5, <2>1, <2>2, <2>3, <2>4, <2>5, <2>6, <2>7,
       SettleKeepsMoney, CashKeepsMoney, OutcomeKeepsMoney DEF Next, HandleWebhook

\* An invoice that charges something is PAID exactly while its SUCCESS
\* receipts reach its total, for any number of invoices, receipts, overlapping
\* webhooks, QR requests and administrator actions.
THEOREM PaidExactlyWhenSettled == Spec => []PaidIffSettled
<1>1. Init => MoneyInv
    BY DEF Init, MoneyInv, Settling, AbsentRow, Charged
<1>2. MoneyInv => PaidIffSettled
    BY SumOfReceipts DEF MoneyInv, PaidIffSettled
<1>3. QED
    BY <1>1, <1>2, InitTypeInv, NextTypeInv, NextMoneyInv, PTL DEF Spec

\* No invoice ever has more booked as SUCCESS than its total.
THEOREM NeverSettledTwice == Spec => []NeverOverSettled
<1>1. Init => MoneyInv
    BY DEF Init, MoneyInv, Settling, AbsentRow, Charged
<1>2. MoneyInv => NeverOverSettled
  <2> SUFFICES ASSUME MoneyInv, NEW i \in Invoices
               PROVE  Settled(row, i) <= Total[i]
    BY DEF NeverOverSettled
  <2>1. Cardinality(Settling(row, i)) \in Nat /\ Total[i] \in Nat
    BY PaymentsAssumption, FS_Subset, FS_CardinalityType DEF Settling
  <2>2. CASE i \in Charged
    <3>1. ~(Settled(row, i) > Total[i])
      BY <2>2, SumOfReceipts DEF MoneyInv
    <3>2. Settled(row, i) \in Int
      BY <2>1 DEF Settled
    <3>3. QED
      BY <2>1, <3>1, <3>2
  <2>3. CASE i \notin Charged
    BY <2>1, <2>3 DEF Charged, Settled
  <2>4. QED
    BY <2>2, <2>3
<1>3. QED
    BY <1>1, <1>2, InitTypeInv, NextTypeInv, NextMoneyInv, PTL DEF Spec

-----------------------------------------------------------------------------
(* Payments implements InvoiceLedger.                                      *)

\* A step that leaves the SUCCESS receipts, the PAID flags and the set of
\* spent receipts alone, or only adds one receipt to the latter, is a stutter
\* of the ledger or a receipt set aside.
LEMMA QuietRefines ==
  ASSUME \A i \in Charged : Settling(row', i) = Settling(row, i),
         \A i \in Charged : invoice'[i] = "PAID" <=> invoice[i] = "PAID",
         NEW p \in Payments,
         Spent' = Spent \/ (p \notin Spent /\ Spent' = Spent \cup {p})
  PROVE  [Ledger!Next]_<<Cover, Paid, Spent>>
<1>1. Cover' = Cover /\ Paid' = Paid
    BY DEF Cover, Paid, Charged
<1>2. QED
    BY <1>1 DEF Ledger!Next, Ledger!SetAside

\* A receipt that becomes the only SUCCESS receipt of i settles i in the ledger.
LEMMA SettlementRefines ==
  ASSUME NEW i \in Charged, NEW p \in Payments,
         Settling(row, i) = {}, Settling(row', i) = {p},
         \A j \in Charged \ {i} : Settling(row', j) = Settling(row, j),
         invoice'[i] = "PAID",
         \A j \in Charged \ {i} : invoice'[j] = invoice[j],
         p \notin Spent, Spent' = Spent \cup {p}
  PROVE  Ledger!Next
<1>1. Cover[i] = {} /\ Cover' = [Cover EXCEPT ![i] = {p}]
    BY DEF Cover, Charged
<1>2. Paid' = Paid \cup {i}
    BY DEF Paid, Charged
<1>3. QED
    BY <1>1, <1>2 DEF Ledger!Next, Ledger!Settle

\* The settlement transaction.
LEMMA SettleRefines ==
  ASSUME TypeInv, MoneyInv, MoneyInv', NEW h \in Handlers, Settle(h)
  PROVE  [Ledger!Next]_<<Cover, Paid, Spent>>
<1> DEFINE e == handler[h].event
           i == row[e.order].invoice
<1>1. e.order \in Payments /\ i \in Invoices /\ row[e.order].status \in {"PENDING", "FAILED"}
  <2>1. Processing(h) /\ Claimed(e)
    BY Zenon DEF Settle
  <2>2. e \in sent /\ e.order \in Payments
    BY <2>1, PaymentsAssumption DEF Processing, TypeInv, TypeOK, WellFormed, Event
  <2>3. QED
    BY <2>1, <2>2 DEF Claimed, Claimable, TypeInv, WellFormed
<1>2. PICK s \in {"SUCCESS", "DISPUTED"} : row' = ClaimAs(e, s)
    BY Zenon DEF Settle
<1>3. \A j : Settling(row', j) = IF s = "SUCCESS" /\ j = i
                                 THEN Settling(row, j) \cup {e.order} ELSE Settling(row, j)
    BY <1>1, <1>2 DEF Settling, ClaimAs, Written, TypeInv, TypeOK
<1>4. Spent' = IF i \in Charged THEN Spent \cup {e.order} ELSE Spent
    BY <1>1, <1>2 DEF Spent, ClaimAs, Written, TypeInv, TypeOK, Charged
<1>5. e.order \notin Spent
    BY <1>1 DEF Spent
<1>6. \A j \in Invoices \ {i} : invoice'[j] = invoice[j]
    BY Zenon DEF Settle, TypeInv, TypeOK
<1>7. CASE s = "SUCCESS" /\ i \in Charged
  <2>1. Settling(row', i) = Settling(row, i) \cup {e.order}
    BY <1>3, <1>7
  <2>2. Settling(row, i) = {}
    BY <1>1, <1>7, <2>1 DEF MoneyInv, Charged, Settling
  <2>3. invoice'[i] = "PAID"
    BY <1>7, <2>1 DEF MoneyInv, Charged
  <2>4. QED
    BY <1>1, <1>3, <1>4, <1>5, <1>6, <1>7, <2>1, <2>2, <2>3, SettlementRefines DEF Charged
<1>8. CASE ~(s = "SUCCESS" /\ i \in Charged)
  <2>1. \A j \in Charged : Settling(row', j) = Settling(row, j)
    BY <1>3, <1>8
  <2>2. \A j \in Charged : invoice'[j] = "PAID" <=> invoice[j] = "PAID"
    BY <2>1 DEF MoneyInv, Charged
  <2>3. QED
    BY <1>1, <1>4, <1>5, <2>1, <2>2, QuietRefines
<1>9. QED
    BY <1>7, <1>8

\* Cash.
LEMMA CashRefines ==
  ASSUME TypeInv, MoneyInv, NEW i \in Invoices, NEW p \in Payments, ConfirmCash(i, p)
  PROVE  [Ledger!Next]_<<Cover, Paid, Spent>>
<1>1. \A j : Settling(row', j) = IF j = i THEN Settling(row, j) \cup {p}
                                         ELSE Settling(row, j)
    BY DEF ConfirmCash, CashRow, Settling, TypeInv, TypeOK
<1>2. invoice' = [invoice EXCEPT ![i] = "PAID"] /\ invoice[i] # "PAID"
    BY DEF ConfirmCash, Payable
<1>3. i \in Charged => Settling(row, i) = {}
    BY <1>2 DEF MoneyInv
<1>4. p \notin Spent /\ Spent' = IF i \in Charged THEN Spent \cup {p} ELSE Spent
    BY DEF Spent, ConfirmCash, CashRow, TypeInv, TypeOK, Charged
<1>5. CASE i \in Charged
    BY <1>1, <1>2, <1>3, <1>4, <1>5, SettlementRefines DEF TypeInv, TypeOK, Charged
<1>6. CASE i \notin Charged
    BY <1>1, <1>2, <1>4, <1>6, QuietRefines DEF TypeInv, TypeOK, Charged
<1>7. QED
    BY <1>5, <1>6

\* Refund and dispute: a reversal, or invisible when nothing was covered.
LEMMA OutcomeRefines ==
  ASSUME TypeInv, MoneyInv, MoneyInv', NEW p \in Payments,
         NEW s \in {"REFUNDED", "DISPUTED"}, SetOutcome(p, s)
  PROVE  [Ledger!Next]_<<Cover, Paid, Spent>>
<1> DEFINE i == row[p].invoice
<1>1. i \in Invoices
    BY DEF SetOutcome, TypeInv, WellFormed
<1>2. \A j : Settling(row', j) = Settling(row, j) \ {p}
    BY DEF SetOutcome, Written, Settling, TypeInv, TypeOK
<1>3. \A j : j # i => Settling(row', j) = Settling(row, j)
    BY <1>2 DEF Settling
<1>4. Spent' = Spent
    BY DEF Spent, SetOutcome, Written, TypeInv, TypeOK, Charged
<1>5. CASE i \in Charged /\ row[p].status = "SUCCESS"
  <2>1. p \in Settling(row, i)
    BY <1>5 DEF Settling
  <2>2. Settling(row', i) = {}
    BY <1>2, <1>5, <2>1 DEF MoneyInv
  <2>3. Cover' = [Cover EXCEPT ![i] = {}] /\ Cover[i] # {}
    BY <1>3, <1>5, <2>1, <2>2 DEF Cover, Charged
  <2>4. \A j \in Charged : invoice'[j] = "PAID" <=> (j # i /\ invoice[j] = "PAID")
    BY <1>3, <2>2 DEF MoneyInv, Charged
  <2>5. Paid' = Paid \ {i}
    BY <2>4 DEF Paid, Charged
  <2>6. QED
    BY <1>4, <1>5, <2>3, <2>5 DEF Ledger!Next, Ledger!Reverse
<1>6. CASE ~(i \in Charged /\ row[p].status = "SUCCESS")
  <2>1. \A j \in Charged : Settling(row', j) = Settling(row, j)
    BY <1>2, <1>3, <1>6 DEF Settling
  <2>2. \A j \in Charged : invoice'[j] = "PAID" <=> invoice[j] = "PAID"
    BY <2>1 DEF MoneyInv, Charged
  <2>3. QED
    BY <1>4, <2>1, <2>2, QuietRefines
<1>7. QED
    BY <1>5, <1>6

\* Every step of the service is a step of the ledger or a stutter.
LEMMA NextRefines ==
  TypeInv /\ MoneyInv /\ MoneyInv' /\ [Next]_vars => [Ledger!Next]_<<Cover, Paid, Spent>>
<1> SUFFICES ASSUME TypeInv, MoneyInv, MoneyInv', [Next]_vars
             PROVE  [Ledger!Next]_<<Cover, Paid, Spent>>
    OBVIOUS
<1>1. ASSUME NEW q \in Requests, NEW p \in Payments, CreateQrPayment(q, p)
      PROVE  [Ledger!Next]_<<Cover, Paid, Spent>>
  <2>1. \A i \in Charged : Settling(row', i) = Settling(row, i)
    BY <1>1 DEF CreateQrPayment, Supersede, NewQrRow, Written, Settling, TypeInv, TypeOK
  <2>2. Spent' = Spent /\ invoice' = invoice
    BY <1>1 DEF CreateQrPayment, Supersede, NewQrRow, Written, Spent, Charged, TypeInv, TypeOK
  <2>3. QED
    BY <2>1, <2>2, QuietRefines
<1>2. ASSUME NEW h \in Handlers, TransitionReceipt(h) \/ DisputeExpired(h)
      PROVE  [Ledger!Next]_<<Cover, Paid, Spent>>
  <2> DEFINE e == handler[h].event
  <2>1. Processing(h) /\ Claimed(e) /\ invoice' = invoice
    BY <1>2 DEF TransitionReceipt, DisputeExpired
  <2>2. e.order \in Payments /\ row[e.order].status \in {"PENDING", "FAILED"}
    <3>1. e \in sent
      BY <2>1 DEF Processing, TypeInv, WellFormed
    <3>2. QED
      BY <2>1, <3>1, PaymentsAssumption DEF Claimed, Claimable, TypeInv, TypeOK, Event
  <2>3. PICK s \in {"FAILED", "DISPUTED"} : row' = ClaimAs(e, s)
    BY <1>2 DEF TransitionReceipt, DisputeExpired, TransitionStatus
  <2>4. \A i \in Charged : Settling(row', i) = Settling(row, i)
    BY <2>2, <2>3 DEF ClaimAs, Written, Settling, TypeInv, TypeOK
  <2>5. e.order \notin Spent
    BY <2>2 DEF Spent
  <2>6. Spent' = Spent \/ Spent' = Spent \cup {e.order}
    BY <2>2, <2>3 DEF ClaimAs, Written, Spent, Charged, TypeInv, TypeOK
  <2>7. QED
    BY <2>1, <2>2, <2>4, <2>5, <2>6, QuietRefines
<1>3. ASSUME NEW p \in Payments, QrExpires(p)
      PROVE  [Ledger!Next]_<<Cover, Paid, Spent>>
  <2>1. \A i \in Charged : Settling(row', i) = Settling(row, i)
    BY <1>3 DEF QrExpires, Written, Settling, TypeInv, TypeOK
  <2>2. Spent' = Spent /\ invoice' = invoice
    BY <1>3 DEF QrExpires, Written, Spent, Charged, TypeInv, TypeOK
  <2>3. QED
    BY <2>1, <2>2, QuietRefines
<1>4. ASSUME MarkOverdue
      PROVE  [Ledger!Next]_<<Cover, Paid, Spent>>
  <2>1. Cover' = Cover /\ Spent' = Spent
    BY <1>4 DEF MarkOverdue, Cover, Spent, Settling, Charged
  <2>2. Paid' = Paid
    BY <1>4 DEF MarkOverdue, Paid, Charged, TypeInv, TypeOK
  <2>3. QED
    BY <2>1, <2>2
<1>5. ASSUME UNCHANGED <<invoice, row>>
      PROVE  [Ledger!Next]_<<Cover, Paid, Spent>>
    BY <1>5 DEF Cover, Paid, Spent, Settling, Charged
<1>6. QED
  <2>1. ASSUME NEW q \in Requests, NEW i \in Invoices, StartQr(q, i)
        PROVE  UNCHANGED <<invoice, row>>
    BY <2>1 DEF StartQr
  <2>2. ASSUME NEW q \in Requests, AbandonQr(q)
        PROVE  UNCHANGED <<invoice, row>>
    BY <2>2 DEF AbandonQr
  <2>3. ASSUME NEW e \in Events, SendEvent(e)
        PROVE  UNCHANGED <<invoice, row>>
    BY <2>3 DEF SendEvent
  <2>4. ASSUME NEW h \in Handlers, NEW e \in Events, ReadReceipt(h, e)
        PROVE  UNCHANGED <<invoice, row>>
    BY <2>4 DEF ReadReceipt
  <2>5. ASSUME NEW h \in Handlers, LoseClaim(h) \/ Answer(h) \/ WebhookFault(h)
        PROVE  UNCHANGED <<invoice, row>>
    BY <2>5 DEF LoseClaim, Answer, WebhookFault
  <2>6. ASSUME NEW i \in Invoices, DueDatePasses(i)
        PROVE  UNCHANGED <<invoice, row>>
    BY <2>6 DEF DueDatePasses
  <2>7. (UNCHANGED vars) => UNCHANGED <<invoice, row>>
    BY DEF vars
  <2>8. QED
    BY <1>1, <1>2, <1>3, <1>4, <1>5, <2>1, <2>2, <2>3, <2>4, <2>5, <2>6, <2>7,
       SettleRefines, CashRefines, OutcomeRefines DEF Next, HandleWebhook

\* Payment collection implements the abstract ledger: PAID and the covering
\* receipt change together, a receipt pays at most once, only a refund or a
\* dispute uncovers an invoice.
THEOREM PaymentsImplementLedger == Spec => ImplementsLedger
<1>1. Init => MoneyInv /\ Ledger!Init
  <2>1. Init => MoneyInv
    BY DEF Init, MoneyInv, Settling, AbsentRow, Charged
  <2>2. Init => Ledger!Init
    BY DEF Init, Ledger!Init, Cover, Paid, Spent, Settling, AbsentRow, Charged
  <2>3. QED
    BY <2>1, <2>2
<1>2. QED
    BY <1>1, InitTypeInv, NextTypeInv, NextMoneyInv, NextRefines, PTL
    DEF Spec, ImplementsLedger, Ledger!Spec

\* Webhook replays, supersession, expiry and administration move a receipt
\* only forward: a refund is final, a dispute can only be refunded, and money
\* that arrives after expiry never counts as settled.
THEOREM ReceiptsOnlyMoveForward == Spec => ReceiptLifecycle
<1> DEFINE Forward ==
      \A p \in Payments :
          /\ row[p].status = "REFUNDED" => row'[p].status = "REFUNDED"
          /\ row[p].status = "DISPUTED" => row'[p].status \in {"DISPUTED", "REFUNDED"}
          /\ row[p].status = "SUCCESS" =>
                row'[p].status \in {"SUCCESS", "DISPUTED", "REFUNDED"}
          /\ row[p].expired /\ row'[p].status = "SUCCESS" => row[p].status = "SUCCESS"
<1>1. TypeInv /\ [Next]_vars => [Forward]_vars
  <2> SUFFICES ASSUME TypeInv, Next
               PROVE  Forward
    OBVIOUS
  <2>1. ASSUME NEW q \in Requests, NEW p \in Payments, CreateQrPayment(q, p)
        PROVE  Forward
    BY <2>1 DEF CreateQrPayment, Supersede, NewQrRow, Written, TypeInv, TypeOK
  <2>2. ASSUME NEW h \in Handlers,
               TransitionReceipt(h) \/ DisputeExpired(h) \/ Settle(h)
        PROVE  Forward
    <3> DEFINE e == handler[h].event
    <3>1. Processing(h) /\ Claimed(e)
      BY <2>2, Zenon DEF TransitionReceipt, DisputeExpired, Settle
    <3>2. e.order \in Payments /\ row[e.order].status \in {"PENDING", "FAILED"}
      <4>1. e \in sent
        BY <3>1 DEF Processing, TypeInv, WellFormed
      <4>2. QED
        BY <3>1, <4>1, PaymentsAssumption DEF Claimed, Claimable, TypeInv, TypeOK, Event
    <3>3. PICK s \in {"FAILED", "DISPUTED", "SUCCESS"} :
             /\ row' = ClaimAs(e, s)
             /\ s = "SUCCESS" => ~row[e.order].expired
      <4>1. CASE TransitionReceipt(h)
        BY <4>1 DEF TransitionReceipt, TransitionStatus
      <4>2. CASE DisputeExpired(h)
        BY <4>2 DEF DisputeExpired
      <4>3. CASE Settle(h)
        BY <4>3, Zenon DEF Settle
      <4>4. QED
        BY <2>2, <4>1, <4>2, <4>3
    <3>4. QED
      BY <3>2, <3>3 DEF ClaimAs, Written, TypeInv, TypeOK
  <2>3. ASSUME NEW i \in Invoices, NEW p \in Payments, ConfirmCash(i, p)
        PROVE  Forward
    <3>1. ~row[p].expired
      BY <2>3 DEF ConfirmCash, AbsentRow, TypeInv, WellFormed
    <3>2. QED
      BY <2>3, <3>1 DEF ConfirmCash, CashRow, TypeInv, TypeOK
  <2>4. ASSUME NEW p \in Payments, NEW s \in {"REFUNDED", "DISPUTED"}, SetOutcome(p, s)
        PROVE  Forward
    BY <2>4 DEF SetOutcome, Written, TypeInv, TypeOK
  <2>5. ASSUME NEW p \in Payments, QrExpires(p)
        PROVE  Forward
    BY <2>5 DEF QrExpires, Written, TypeInv, TypeOK
  <2>6. ASSUME row' = row
        PROVE  Forward
    BY <2>6 DEF TypeInv, TypeOK
  <2>7. QED
    BY <2>1, <2>2, <2>3, <2>4, <2>5, <2>6
    DEF Next, HandleWebhook, StartQr, AbandonQr, SendEvent, ReadReceipt, LoseClaim,
        Answer, WebhookFault, DueDatePasses, MarkOverdue
<1>2. QED
    BY <1>1, InitTypeInv, NextTypeInv, PTL DEF Spec, ReceiptLifecycle

-----------------------------------------------------------------------------
(* The newest QR is the only open one.                                     *)

\* What the three transactions that write for an event have in common: the
\* claim, and what the event must have said for each status.
LEMMA ClaimStep ==
  ASSUME TypeInv, NEW h \in Handlers,
         TransitionReceipt(h) \/ DisputeExpired(h) \/ Settle(h)
  PROVE  LET e == handler[h].event
         IN  /\ e \in sent /\ e.order \in Payments /\ e.txnId \in TxnIds
             /\ Claimed(e)
             /\ sent' = sent /\ acked' = acked /\ Answered(h)
             /\ \E s \in {"FAILED", "DISPUTED", "SUCCESS"} :
                   /\ row' = ClaimAs(e, s)
                   /\ s = "FAILED" => ~e.success
                   /\ s = "SUCCESS" => ExactAmount(e)
<1> DEFINE e == handler[h].event
<1>1. Processing(h) /\ Claimed(e) /\ sent' = sent /\ acked' = acked /\ Answered(h)
    BY Zenon DEF TransitionReceipt, DisputeExpired, Settle
<1>2. e \in sent /\ e.order \in Payments /\ e.txnId \in TxnIds
    BY <1>1, PaymentsAssumption DEF Processing, TypeInv, TypeOK, WellFormed, Event
<1>3. \E s \in {"FAILED", "DISPUTED", "SUCCESS"} :
         /\ row' = ClaimAs(e, s)
         /\ s = "FAILED" => ~e.success
         /\ s = "SUCCESS" => ExactAmount(e)
  <2>1. CASE TransitionReceipt(h)
    BY <2>1 DEF TransitionReceipt, TransitionStatus
  <2>2. CASE DisputeExpired(h)
    BY <2>2 DEF DisputeExpired
  <2>3. CASE Settle(h)
    BY <2>3, Zenon DEF Settle
  <2>4. QED
    BY <2>1, <2>2, <2>3
<1>4. QED
    BY <1>1, <1>2, <1>3

\* Superseding and inserting in one transaction leaves one PENDING receipt per
\* invoice, however many QR requests overlap.
THEOREM NewestQrIsTheOnlyOne == Spec => []OnePendingPerInvoice
<1>1. Init => OnePendingPerInvoice
    BY DEF Init, OnePendingPerInvoice, AbsentRow
<1>2. TypeInv /\ OnePendingPerInvoice /\ [Next]_vars => OnePendingPerInvoice'
  <2> SUFFICES ASSUME TypeInv, OnePendingPerInvoice, [Next]_vars
               PROVE  OnePendingPerInvoice'
    OBVIOUS
  <2>0. ASSUME \A p \in Payments : row'[p].status = "PENDING" =>
                  row[p].status = "PENDING" /\ row'[p].invoice = row[p].invoice
        PROVE  OnePendingPerInvoice'
    BY <2>0 DEF OnePendingPerInvoice
  <2>1. ASSUME NEW q \in Requests, NEW p \in Payments, CreateQrPayment(q, p)
        PROVE  OnePendingPerInvoice'
    <3>1. \A o \in Payments \ {p} : row'[o].status = "PENDING" =>
             /\ row[o].status = "PENDING" /\ row'[o].invoice = row[o].invoice
             /\ row[o].invoice # request[q]
      BY <2>1 DEF CreateQrPayment, Supersede, Written, TypeInv, TypeOK
    <3>2. row'[p].invoice = request[q]
      BY <2>1 DEF CreateQrPayment, Supersede, NewQrRow, TypeInv, TypeOK
    <3>3. QED
      BY <3>1, <3>2 DEF OnePendingPerInvoice
  <2>2. ASSUME NEW h \in Handlers, TransitionReceipt(h) \/ DisputeExpired(h) \/ Settle(h)
        PROVE  OnePendingPerInvoice'
    <3> DEFINE e == handler[h].event
    <3>1. e.order \in Payments
      BY <2>2, ClaimStep
    <3>2. PICK s \in {"FAILED", "DISPUTED", "SUCCESS"} : row' = ClaimAs(e, s)
      BY <2>2, ClaimStep
    <3>3. \A p \in Payments : row'[p].status = "PENDING" => row'[p] = row[p]
      BY <3>1, <3>2 DEF ClaimAs, Written, TypeInv, TypeOK
    <3>4. QED
      BY <2>0, <3>3
  <2>3. ASSUME NEW i \in Invoices, NEW p \in Payments, ConfirmCash(i, p)
        PROVE  OnePendingPerInvoice'
    BY <2>0, <2>3 DEF ConfirmCash, CashRow, TypeInv, TypeOK
  <2>4. ASSUME NEW p \in Payments, NEW s \in {"REFUNDED", "DISPUTED"}, SetOutcome(p, s)
        PROVE  OnePendingPerInvoice'
    BY <2>0, <2>4 DEF SetOutcome, Written, TypeInv, TypeOK
  <2>5. ASSUME NEW p \in Payments, QrExpires(p)
        PROVE  OnePendingPerInvoice'
    BY <2>0, <2>5 DEF QrExpires, Written, TypeInv, TypeOK
  <2>6. ASSUME row' = row
        PROVE  OnePendingPerInvoice'
    BY <2>0, <2>6
  <2>7. QED
    BY <2>1, <2>2, <2>3, <2>4, <2>5, <2>6
    DEF Next, vars, HandleWebhook, StartQr, AbandonQr, SendEvent, ReadReceipt, LoseClaim,
        Answer, WebhookFault, DueDatePasses, MarkOverdue
<1>3. QED
    BY <1>1, <1>2, InitTypeInv, NextTypeInv, PTL DEF Spec

-----------------------------------------------------------------------------
(* What the gateway was told is on the books.                              *)

\* The receipt p carries a gateway id exactly when a reported event put it
\* there, and its status says what that event said.
Backed(p) ==
    /\ row[p].status \in {"ABSENT", "PENDING"} => row[p].txnId = None
    /\ row[p].gateway = "QR" /\ row[p].status \in {"SUCCESS", "DISPUTED", "REFUNDED"} =>
          row[p].txnId # None
    /\ row[p].txnId # None =>
          \E e \in sent : /\ e.order = p /\ e.txnId = row[p].txnId
                          /\ row[p].status = "FAILED" => ~e.success
                          /\ row[p].status = "SUCCESS" => e.amount = Total[row[p].invoice]

BookInv ==
    /\ \A p \in Payments : Backed(p)
    /\ \A e \in sent : row[e.order].gateway = "QR"

\* A request about to answer 200 knows the transfer is recorded.
AnswerInv ==
    \A h \in Handlers : handler[h].pc = "answer" =>
        LET e == handler[h].event IN e.success /\ Sole(e) => Recorded(e)

\* An only transfer whose receipt is closed, or can no longer be claimed, is
\* recorded already.
LEMMA ClosedIsRecorded ==
  ASSUME TypeInv, BookInv, NEW e \in sent, e.success, Sole(e),
         AlreadyHandled(e) \/ ~Claimed(e)
  PROVE  Recorded(e)
<1>1. e.order \in Payments /\ e.txnId \in TxnIds /\ e.txnId # None
    BY PaymentsAssumption DEF TypeInv, TypeOK, Event
<1>2. row[e.order].status \in PaymentStatus \ {"ABSENT"} /\ row[e.order].gateway = "QR"
    BY <1>1 DEF TypeInv, TypeOK, WellFormed, Row, BookInv
<1>3. ASSUME NEW p \in Payments, row[p].txnId # None, p = e.order \/ row[p].txnId = e.txnId
      PROVE  p = e.order /\ row[p].txnId = e.txnId /\ row[p].status # "FAILED"
    BY <1>3 DEF BookInv, Backed, Sole
<1>4. CASE row[e.order].status \in {"SUCCESS", "DISPUTED", "REFUNDED"}
    BY <1>1, <1>2, <1>3, <1>4 DEF Recorded, BookInv, Backed
<1>5. CASE row[e.order].status \in {"PENDING", "FAILED"}
  <2>1. row[e.order].txnId = None
    BY <1>1, <1>3, <1>5 DEF BookInv, Backed
  <2>2. Claimed(e)
    BY <1>1, <1>3, <1>5, <2>1 DEF Claimed, Claimable, StoredElsewhere
  <2>3. QED
    BY <1>1, <1>5, <2>1, <2>2 DEF AlreadyHandled
<1>6. QED
    BY <1>2, <1>4, <1>5 DEF PaymentStatus

\* A step that keeps the reported events keeps the books when the rows it
\* touches stay backed.
LEMMA BooksKept ==
  ASSUME BookInv, sent' = sent, TypeInv,
         \A p \in Payments : row'[p] = row[p] \/ (Backed(p)' /\ row'[p].gateway = row[p].gateway)
                             \/ (Backed(p)' /\ row[p].status = "ABSENT")
  PROVE  BookInv'
<1>1. ASSUME NEW p \in Payments
      PROVE  Backed(p)'
  <2>1. CASE row'[p] = row[p]
    BY <2>1 DEF BookInv, Backed
  <2>2. QED
    BY <2>1
<1>2. ASSUME NEW e \in sent'
      PROVE  row'[e.order].gateway = "QR"
  <2>1. e.order \in Payments /\ row[e.order].gateway = "QR" /\ row[e.order].status # "ABSENT"
    BY <1>2, PaymentsAssumption DEF BookInv, TypeInv, TypeOK, WellFormed, Event
  <2>2. QED
    BY <2>1
<1>3. QED
    BY <1>1, <1>2 DEF BookInv

\* Every step keeps the books backed by reported events.
LEMMA NextBookInv == TypeInv /\ BookInv /\ [Next]_vars => BookInv'
<1> SUFFICES ASSUME TypeInv, BookInv, [Next]_vars
             PROVE  BookInv'
    OBVIOUS
<1>1. ASSUME NEW q \in Requests, NEW p \in Payments, CreateQrPayment(q, p)
      PROVE  BookInv'
  <2>1. row[p].status = "ABSENT" /\ sent' = sent
    BY <1>1 DEF CreateQrPayment
  <2>2. Backed(p)'
    BY <1>1 DEF CreateQrPayment, Supersede, NewQrRow, Backed, TypeInv, TypeOK
  <2>3. ASSUME NEW o \in Payments \ {p}, row'[o] # row[o]
        PROVE  Backed(o)' /\ row'[o].gateway = row[o].gateway
    <3>1. row[o].status = "PENDING" /\ row'[o] = Written(row[o], "FAILED", row[o].txnId, TRUE)
      BY <1>1, <2>3 DEF CreateQrPayment, Supersede, TypeInv, TypeOK
    <3>2. row[o].txnId = None
      BY <3>1 DEF BookInv, Backed
    <3>3. QED
      BY <3>1, <3>2 DEF Backed, Written
  <2>4. QED
    BY <2>1, <2>2, <2>3, BooksKept
<1>2. ASSUME NEW h \in Handlers, TransitionReceipt(h) \/ DisputeExpired(h) \/ Settle(h)
      PROVE  BookInv'
  <2> DEFINE e == handler[h].event
  <2>1. e \in sent /\ e.order \in Payments /\ e.txnId \in TxnIds /\ sent' = sent
    BY <1>2, ClaimStep
  <2>2. PICK s \in {"FAILED", "DISPUTED", "SUCCESS"} :
           /\ row' = ClaimAs(e, s)
           /\ s = "FAILED" => ~e.success
           /\ s = "SUCCESS" => ExactAmount(e)
    BY <1>2, ClaimStep
  <2>3. PICK p \in Payments : p = e.order
    BY <2>1
  <2>4. PICK f \in sent : f = e
    BY <2>1
  <2>5. /\ row'[p] = Written(row[p], s, f.txnId, row[p].expired)
        /\ \A o \in Payments \ {p} : row'[o] = row[o]
    BY <2>1, <2>2, <2>3, <2>4 DEF ClaimAs, TypeInv, TypeOK
  <2>6. Backed(p)'
    <3>1. f.txnId # None /\ f \in sent' /\ f.order = p
      BY <2>1, <2>3, <2>4, PaymentsAssumption
    <3>2. QED
      BY <2>2, <2>4, <2>5, <3>1 DEF Backed, Written, ExactAmount
  <2>7. row'[p].gateway = row[p].gateway
    BY <2>5 DEF Written
  <2>8. QED
    BY <2>1, <2>5, <2>6, <2>7, BooksKept
<1>3. ASSUME NEW i \in Invoices, NEW p \in Payments, ConfirmCash(i, p)
      PROVE  BookInv'
  <2>1. /\ row[p].status = "ABSENT" /\ sent' = sent /\ row'[p] = CashRow(i)
        /\ \A o \in Payments \ {p} : row'[o] = row[o]
    BY <1>3 DEF ConfirmCash, TypeInv, TypeOK
  <2>2. Backed(p)'
    BY <2>1 DEF Backed, CashRow
  <2>3. QED
    BY <2>1, <2>2, BooksKept
<1>4. ASSUME NEW p \in Payments, NEW s \in {"REFUNDED", "DISPUTED"}, SetOutcome(p, s)
      PROVE  BookInv'
  <2>1. /\ row[p].status \in {"SUCCESS", "DISPUTED"} /\ sent' = sent
        /\ row'[p] = Written(row[p], s, row[p].txnId, row[p].expired)
        /\ \A o \in Payments \ {p} : row'[o] = row[o]
    BY <1>4 DEF SetOutcome, TypeInv, TypeOK
  <2>2. Backed(p)' /\ row'[p].gateway = row[p].gateway
    BY <2>1 DEF Backed, BookInv, Written
  <2>3. QED
    BY <2>1, <2>2, BooksKept
<1>5. ASSUME NEW p \in Payments, QrExpires(p)
      PROVE  BookInv'
  <2>1. /\ sent' = sent
        /\ row'[p] = Written(row[p], row[p].status, row[p].txnId, TRUE)
        /\ \A o \in Payments \ {p} : row'[o] = row[o]
    BY <1>5 DEF QrExpires, TypeInv, TypeOK
  <2>2. Backed(p)' /\ row'[p].gateway = row[p].gateway
    BY <2>1 DEF Backed, BookInv, Written
  <2>3. QED
    BY <2>1, <2>2, BooksKept
<1>6. ASSUME NEW e \in Events, SendEvent(e)
      PROVE  BookInv'
  <2>1. row' = row /\ sent \subseteq sent' /\ sent' = sent \cup {e} /\ row[e.order].gateway = "QR"
    BY <1>6 DEF SendEvent
  <2>2. QED
    BY <2>1 DEF BookInv, Backed
<1>7. ASSUME row' = row, sent' = sent
      PROVE  BookInv'
    BY <1>7, BooksKept
<1>8. QED
    BY <1>1, <1>2, <1>3, <1>4, <1>5, <1>6, <1>7
    DEF Next, vars, HandleWebhook, StartQr, AbandonQr, ReadReceipt, LoseClaim,
        Answer, WebhookFault, DueDatePasses, MarkOverdue

\* An only transfer was the only one before, and once recorded it stays so.
LEMMA RecordedStays ==
  ASSUME TypeInv, BookInv, [Next]_vars, NEW e \in sent, Sole(e)', e.success,
         Recorded(e)
  PROVE  Recorded(e)'
<1>1. e.order \in Payments
    BY PaymentsAssumption DEF TypeInv, TypeOK, Event
<1>2. row[e.order].status \in {"SUCCESS", "DISPUTED", "REFUNDED"}
    BY DEF Recorded
<1>3. ASSUME row'[e.order] = row[e.order]
      PROVE  Recorded(e)'
    BY <1>3 DEF Recorded
<1>4. ASSUME NEW q \in Requests, NEW p \in Payments, CreateQrPayment(q, p)
      PROVE  Recorded(e)'
    BY <1>1, <1>2, <1>3, <1>4 DEF CreateQrPayment, Supersede, TypeInv, TypeOK
<1>5. ASSUME NEW h \in Handlers, TransitionReceipt(h) \/ DisputeExpired(h) \/ Settle(h)
      PROVE  Recorded(e)'
  <2> DEFINE f == handler[h].event
  <2>1. Claimed(f)
    BY <1>5, ClaimStep
  <2>2. PICK s \in {"FAILED", "DISPUTED", "SUCCESS"} : row' = ClaimAs(f, s)
    BY <1>5, ClaimStep
  <2>3. f.order # e.order
    BY <1>2, <2>1 DEF Claimed, Claimable
  <2>4. QED
    BY <1>1, <1>3, <2>2, <2>3 DEF ClaimAs, TypeInv, TypeOK
<1>6. ASSUME NEW i \in Invoices, NEW p \in Payments, ConfirmCash(i, p)
      PROVE  Recorded(e)'
    BY <1>1, <1>2, <1>3, <1>6 DEF ConfirmCash, TypeInv, TypeOK
<1>7. ASSUME NEW p \in Payments, NEW s \in {"REFUNDED", "DISPUTED"}, SetOutcome(p, s)
      PROVE  Recorded(e)'
    BY <1>1, <1>7 DEF SetOutcome, Recorded, Written, TypeInv, TypeOK
<1>8. ASSUME NEW p \in Payments, QrExpires(p)
      PROVE  Recorded(e)'
    BY <1>1, <1>8 DEF QrExpires, Recorded, Written, TypeInv, TypeOK
<1>9. ASSUME row' = row
      PROVE  Recorded(e)'
    BY <1>3, <1>9
<1>10. QED
    BY <1>4, <1>5, <1>6, <1>7, <1>8, <1>9
    DEF Next, vars, HandleWebhook, StartQr, AbandonQr, SendEvent, ReadReceipt, LoseClaim,
        Answer, WebhookFault, DueDatePasses, MarkOverdue

\* No step answers 200 for a transfer that is not recorded.
LEMMA NextAnswers ==
  TypeInv /\ BookInv /\ AnswerInv /\ AckedTransferRecorded /\ acked \subseteq sent
     /\ [Next]_vars /\ TypeInv'
  => AnswerInv' /\ AckedTransferRecorded' /\ (acked \subseteq sent)'
<1> SUFFICES ASSUME TypeInv, BookInv, AnswerInv, AckedTransferRecorded, acked \subseteq sent,
                    [Next]_vars, TypeInv'
             PROVE  AnswerInv' /\ AckedTransferRecorded' /\ (acked \subseteq sent)'
    OBVIOUS
<1>1. sent \subseteq sent'
    BY Zenon DEF Next, vars, HandleWebhook, StartQr, AbandonQr, CreateQrPayment, SendEvent,
           ReadReceipt, LoseClaim, TransitionReceipt, DisputeExpired, Settle, Answer,
           WebhookFault, ConfirmCash, SetOutcome, QrExpires, DueDatePasses, MarkOverdue
<1>2. ASSUME NEW e \in sent, Sole(e)'
      PROVE  Sole(e)
    BY <1>1, <1>2 DEF Sole
<1>3. ASSUME NEW h \in Handlers, handler'[h].pc = "answer",
             NEW e, e = handler'[h].event, e.success, Sole(e)'
      PROVE  Recorded(e)'
  <2>1. CASE handler'[h] = handler[h]
    <3>1. e \in sent
      BY <1>3, <2>1 DEF TypeInv, WellFormed
    <3>2. Recorded(e)
      BY <1>2, <1>3, <2>1, <3>1 DEF AnswerInv
    <3>3. QED
      BY <1>3, <3>1, <3>2, RecordedStays
  <2>2. ASSUME NEW k \in Handlers, NEW f \in Events, ReadReceipt(k, f), handler'[h] # handler[h]
        PROVE  Recorded(e)'
    <3>1. k = h /\ f \in sent /\ e = f /\ AlreadyHandled(f) /\ row' = row
      BY <1>3, <2>2 DEF ReadReceipt, TypeInv, TypeOK
    <3>2. Recorded(e)
      BY <1>2, <1>3, <3>1, ClosedIsRecorded
    <3>3. QED
      BY <3>1, <3>2 DEF Recorded
  <2>3. ASSUME NEW k \in Handlers, LoseClaim(k), handler'[h] # handler[h]
        PROVE  Recorded(e)'
    <3>1. k = h /\ e = handler[k].event /\ ~Claimed(e) /\ row' = row
      BY <1>3, <2>3 DEF LoseClaim, Answered, TypeInv, TypeOK
    <3>2. e \in sent
      BY <2>3, <3>1 DEF LoseClaim, Processing, TypeInv, WellFormed
    <3>3. Recorded(e)
      BY <1>2, <1>3, <3>1, <3>2, ClosedIsRecorded
    <3>4. QED
      BY <3>1, <3>3 DEF Recorded
  <2>4. ASSUME NEW k \in Handlers, TransitionReceipt(k) \/ DisputeExpired(k) \/ Settle(k),
               handler'[h] # handler[h]
        PROVE  Recorded(e)'
    <3>1. Answered(k) /\ handler[k].event \in sent /\ e.order \in Payments
      <4>1. Answered(k) /\ handler[k].event \in sent /\ handler[k].event.order \in Payments
        BY <2>4, ClaimStep
      <4>2. k = h /\ e = handler[k].event
        BY <1>3, <2>4, <4>1 DEF Answered, TypeInv, TypeOK
      <4>3. QED
        BY <4>1, <4>2
    <3>2. k = h /\ e = handler[k].event
      BY <1>3, <2>4, <3>1 DEF Answered, TypeInv, TypeOK
    <3>3. PICK s \in {"FAILED", "DISPUTED", "SUCCESS"} :
             row' = ClaimAs(e, s) /\ (s = "FAILED" => ~e.success)
      BY <2>4, <3>2, ClaimStep
    <3>4. QED
      BY <1>3, <3>1, <3>3 DEF ClaimAs, Written, Recorded, TypeInv, TypeOK
  <2>5. ASSUME NEW k \in Handlers, Answer(k) \/ WebhookFault(k)
        PROVE  handler'[h] = handler[h]
    BY <1>3, <2>5 DEF Answer, WebhookFault, Idle, TypeInv, TypeOK
  <2>6. ASSUME handler' = handler
        PROVE  handler'[h] = handler[h]
    BY <2>6
  <2>7. QED
    BY <2>1, <2>2, <2>3, <2>4, <2>5, <2>6
    DEF Next, vars, HandleWebhook, StartQr, AbandonQr, CreateQrPayment, SendEvent,
        ConfirmCash, SetOutcome, QrExpires, DueDatePasses, MarkOverdue
<1>4. AnswerInv'
    BY <1>3 DEF AnswerInv
<1>5. ASSUME NEW e \in acked'
      PROVE  /\ e \in sent /\ e \in sent'
             /\ (e.success /\ Sole(e)') => Recorded(e)'
  <2>1. CASE e \in acked
    BY <1>1, <1>2, <2>1, RecordedStays DEF AckedTransferRecorded
  <2>2. CASE e \notin acked
    <3>1. PICK h \in Handlers : Answer(h) /\ e = handler[h].event
      BY <1>5, <2>2, Zenon
      DEF Next, vars, HandleWebhook, StartQr, AbandonQr, CreateQrPayment, SendEvent,
          ReadReceipt, LoseClaim, TransitionReceipt, DisputeExpired, Settle, Answer,
          WebhookFault, ConfirmCash, SetOutcome, QrExpires, DueDatePasses, MarkOverdue
    <3>2. e \in sent /\ handler[h].pc = "answer"
      BY <3>1 DEF Answer, TypeInv, WellFormed
    <3>3. (e.success /\ Sole(e)') => Recorded(e)
      BY <1>2, <3>1, <3>2 DEF AnswerInv
    <3>4. QED
      BY <1>1, <3>2, <3>3, RecordedStays
  <2>3. QED
    BY <2>1, <2>2
<1>6. QED
    BY <1>4, <1>5 DEF AckedTransferRecorded

\* The books are backed from the start.
LEMMA InitBookInv ==
  Init => BookInv /\ AnswerInv /\ AckedTransferRecorded /\ acked \subseteq sent
<1> SUFFICES ASSUME Init
             PROVE  BookInv /\ AnswerInv /\ AckedTransferRecorded /\ acked \subseteq sent
    OBVIOUS
<1>1. BookInv
    BY DEF Init, BookInv, Backed, AbsentRow
<1>2. AnswerInv
    BY DEF Init, AnswerInv, Idle
<1>3. QED
    BY <1>1, <1>2 DEF Init, AckedTransferRecorded

\* Once the gateway has its 200, an only transfer is on the books: with any
\* number of overlapping, repeated and interrupted deliveries, QR requests and
\* administrator actions.
THEOREM NoAckedTransferIsLost == Spec => []AckedTransferRecorded
  BY InitTypeInv, NextTypeInv, InitBookInv, NextBookInv, NextAnswers, PTL DEF Spec

\* An only transfer of the wrong amount never makes its receipt SUCCESS.
THEOREM OnlyExactAmountsSettle == Spec => []WrongAmountNeverSettles
<1>1. TypeInv /\ BookInv => WrongAmountNeverSettles
  <2> SUFFICES ASSUME TypeInv, BookInv, NEW e \in sent, Sole(e),
                      row[e.order].status = "SUCCESS"
               PROVE  e.amount = Total[row[e.order].invoice]
    BY DEF WrongAmountNeverSettles
  <2>1. e.order \in Payments /\ row[e.order].gateway = "QR"
    BY PaymentsAssumption DEF BookInv, TypeInv, TypeOK, Event
  <2>2. PICK f \in sent : f.order = e.order /\ f.amount = Total[row[e.order].invoice]
    BY <2>1 DEF BookInv, Backed
  <2>3. QED
    BY <2>2 DEF Sole
<1>2. QED
    BY <1>1, InitTypeInv, NextTypeInv, InitBookInv, NextBookInv, PTL DEF Spec

=============================================================================
