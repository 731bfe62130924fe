----------------------------- MODULE MCBilling -----------------------------
(***************************************************************************)
(* Small instances of what bills and what is billed for TLC: the           *)
(* settlement of one invoice (Payments), the issuing of invoices (Tuition) *)
(* and the belt exams, whose registrations carry a fee.  The three write   *)
(* disjoint columns, so each is explored on its own, chosen in the initial *)
(* state, with the others at rest.  Two of them are explored twice, to     *)
(* keep the run short: the issuing as a race of all issuers for numbers    *)
(* while nobody changes the settings, and with a change of them, or of the *)
(* day, between any two steps that issue up to two invoices; the exams     *)
(* with all requests at once, and with an administrator's edit of a rank   *)
(* next to one of them.                                                    *)
(***************************************************************************)
EXTENDS Payments, Tuition, Exams, TLC

CONSTANTS
    i1, p1, p2, p3, g1, g2, h1, h2, q1, q2,  \* invoice, payments, gateway ids, requests
    c1, c2, s1, s2, d1, d2                   \* classes, students, discount codes

VARIABLE part

Transfer(p, g, a) == [order |-> p, txnId |-> g, amount |-> a, success |-> TRUE]
Failure(p, g, a) == [order |-> p, txnId |-> g, amount |-> a, success |-> FALSE]

MCInvoices == {i1}
MCTotal == (i1 :> 2)

\* An exact transfer and a failure report for one order; a transfer of the
\* wrong amount for another reports the id of the first.
MixedEvents == {Transfer(p1, g1, 2), Failure(p1, g2, 2), Transfer(p2, g1, 1)}

\* A payer uses one QR twice.
TwicePaid == {Transfer(p1, g1, 2), Transfer(p1, g2, 2)}

\* One class is rated at the start; with both rated, a student of both owes
\* more than MaxMoney.
MCInitialRates == [c \in Classes |-> IF c = c1 THEN 2 ELSE 0]
MCRateTables == {MCInitialRates, [c \in Classes |-> 2]}

\* The period that is closed has ended; a student joined the second class after it.
MCMonth == [day \in 0..MaxDay |-> 2]
MCInitialEnrollments ==
    {<<s1, c1, 1>>, <<s1, c2, 1>>, <<s2, c1, 1>>, <<s2, c2, 2>>}

Body(s, type, p, items, discount, d) ==
    [student |-> s, type |-> type, period |-> p, items |-> items, discount |-> discount,
     discountCode |-> d]

\* A tuition invoice, two that take a code (one with a manual discount as well,
\* which may exceed its subtotal), and one with a period it must not have.
MCBodies ==
    LET two == [i \in {1} |-> [quantity |-> 2, unitAmount |-> 1]]
        three == [i \in {1, 2} |-> [quantity |-> i, unitAmount |-> 1]]
    IN  {Body(s1, "TUITION", 1, two, 0, None), Body(s2, "OTHER", 0, two, 1, d2),
         Body(s1, "UNIFORM", 0, three, 0, d1), Body(s2, "OTHER", 1, two, 0, None)}

MCInitialCodes ==
    [d \in Codes |-> IF d = d1 THEN [state |-> "ON", off |-> [kind |-> "PERCENT", value |-> 50],
                                    from |-> 0, until |-> 1] ELSE NoCode]

MCReductions == {[kind |-> "PERCENT", value |-> 50], [kind |-> "AMOUNT", value |-> 2]}

MCInit ==
    /\ part \in {"PAYMENTS", "NUMBERS", "PRICES", "EXAMS", "EDIT"}
    /\ Init
    /\ TuitionInit
    /\ ExamInit
    /\ part \notin {"EXAMS", "EDIT"} => /\ examCapacity = [x \in Exam |-> None]
                                        /\ target = [x \in Exam |-> MaxRank]

\* Requests about an exam that are under way.
InFlight == {<<"register", d>> : d \in {e \in Desks : desk[e] # NoDesk}}
            \cup {<<"recordResult", j>> : j \in {k \in Examiners : judge[k] # NoJudgement}}

MCNext ==
    /\ UNCHANGED part
    /\ \/ part = "PAYMENTS" /\ Next /\ UNCHANGED <<tuitionVars, examVars>>
       \/ /\ \/ part = "NUMBERS" /\ TuitionNext /\ changes' = 0
             \/ part = "PRICES" /\ TuitionNext /\ Cardinality(invoices') <= 2
          /\ UNCHANGED <<vars, examVars>>
       \/ /\ \/ part = "EXAMS" /\ ExamNext /\ edits' = 0
             \/ part = "EDIT" /\ ExamNext /\ Cardinality(InFlight') <= 1
          /\ UNCHANGED <<vars, tuitionVars>>

MCSpec == MCInit /\ [][MCNext]_<<part, vars, tuitionVars, examVars>>

\* Requests of one kind, and candidates, are interchangeable.  The sets of several
\* parts have members in common, which keeps the group small.
Symmetry == Permutations(Handlers) \cup Permutations(Requests)

=============================================================================
