--------------------------- MODULE InvoiceLedger ---------------------------
(***************************************************************************)
(* What payment collection promises, with requests, QR codes, webhooks and *)
(* retries left out: an invoice is covered by at most one receipt, it is   *)
(* PAID exactly while it is covered, a receipt covers one invoice at most  *)
(* once in its life, and only an explicit reversal uncovers an invoice.    *)
(***************************************************************************)
CONSTANTS Invoices, Receipts

VARIABLES
    cover,  \* invoice -> the set of receipts that pay for it: none or one
    paid,   \* the invoices shown as PAID
    spent   \* receipts that cover, or can never again cover, an invoice

Init ==
    /\ cover = [i \in Invoices |-> {}]
    /\ paid = {}
    /\ spent = {}

\* A receipt pays for an uncovered invoice.
Settle(i, p) ==
    /\ cover[i] = {}
    /\ p \notin spent
    /\ cover' = [cover EXCEPT ![i] = {p}]
    /\ paid' = paid \cup {i}
    /\ spent' = spent \cup {p}

\* The covering receipt is refunded or disputed.
Reverse(i) ==
    /\ cover[i] # {}
    /\ cover' = [cover EXCEPT ![i] = {}]
    /\ paid' = paid \ {i}
    /\ UNCHANGED spent

\* A receipt is set aside for an administrator without paying for anything.
SetAside(p) ==
    /\ p \notin spent
    /\ spent' = spent \cup {p}
    /\ UNCHANGED <<cover, paid>>

Next ==
    \/ \E i \in Invoices, p \in Receipts : Settle(i, p)
    \/ \E i \in Invoices : Reverse(i)
    \/ \E p \in Receipts : SetAside(p)

Spec == Init /\ [][Next]_<<cover, paid, spent>>

=============================================================================
