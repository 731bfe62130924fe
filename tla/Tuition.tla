------------------------------ MODULE Tuition ------------------------------
(***************************************************************************)
(* Issuing invoices: BillingService.create, generateMonthly and            *)
(* createExamFeeInvoice number and insert rows of one table while rates,   *)
(* discount codes, profiles and enrolments change under them.              *)
(*                                                                         *)
(* Grain.  Every issuer reads the numbers in use in one statement and      *)
(* inserts in a later one; the unique indexes on invoice_no and on         *)
(* (student, type, period) decide at the insert.  The insert, the lines,   *)
(* the outbox rows and the commit are one step: nothing of them is visible *)
(* before the commit.  All periods lie in one calendar year, since numbers *)
(* of two years never clash.                                               *)
(***************************************************************************)
EXTENDS Null, Integers, FiniteSets, Functions

CONSTANTS
    Students, Classes, Codes,
    WithAccount,   \* students whose profile has a user to notify
    Clerks,        \* create requests that may be in flight together
    Closers,       \* generateMonthly requests that may be in flight together
    Registrars,     \* exam registrations that may be issuing their fee
    Periods,       \* billing periods
    Month,         \* day -> the period it lies in
    InitialRates, InitialCodes, InitialEnrollments,  \* the tables at the start
    RateTables,    \* tuition_rates maps an administrator may store; 0 is no rate
    Bodies,      \* bodies of create requests
    Reductions,    \* what a discount code may grant
    Fee,           \* the fee of an exam
    MaxMoney,      \* MAX_MONEY_AMOUNT, the largest value of an INTEGER column
    MaxAttempts,   \* attempts of create, 5 in the code
    MaxDay,        \* bound on the calendar
    MaxInvoices,   \* bound on the table
    MaxChanges     \* bound on administrative changes and changes of day

ASSUME TuitionAssumption ==
    /\ IsFiniteSet(Students) /\ IsFiniteSet(Classes)
    /\ WithAccount \subseteq Students
    /\ Fee \in 0..MaxMoney
    /\ MaxMoney \in Nat \ {0} /\ MaxDay \in Nat /\ MaxInvoices \in Nat /\ MaxChanges \in Nat
    /\ MaxAttempts \in Nat \ {0}
    /\ Periods \subseteq Nat \ {0} /\ Month \in [0..MaxDay -> Nat \ {0}]
    /\ InitialEnrollments \subseteq Students \X Classes \X (1..Month[0])
    /\ None \notin Students /\ None \notin Codes

VARIABLES
    invoices,  \* rows of the table invoices with their lines
    notices,   \* <<invoice number, channel>> of the outbox rows written with one
    rates,     \* app_settings.tuition_rates
    code,      \* discount code -> its row
    profile,   \* student -> status of the profile
    enrolled,  \* <<student, class, month of enrolled_at>> of the open enrolments
    today,
    changes,   \* administrative changes and changes of day so far
    create,    \* create request -> where it stands
    close,     \* generateMonthly request -> where it stands
    fee        \* exam registration -> where its invoice stands

admin == <<rates, code, profile, enrolled, today, changes>>
tuitionVars == <<invoices, notices, rates, code, profile, enrolled, today, changes, create, close,
                 fee>>

\* Types of an invoice: only TUITION carries a period.
InvoiceType == {"TUITION", "EXAM_FEE", "UNIFORM", "OTHER"}

NoCode == [state |-> "ABSENT", off |-> None, from |-> 0, until |-> 0]
NoCreate == [at |-> "IDLE"]
NoClose == [at |-> "IDLE"]
NoFee == [at |-> "IDLE"]

\* An item list of a request, and the body of a create request; period 0 is no
\* period, discountCode None no code.
Basket(items) ==
    \E n \in 1..50 : items \in [1..n -> [quantity : 1..1000, unitAmount : Nat]]

CreateInvoiceDto(r) ==
    /\ r.student \in Students /\ r.type \in InvoiceType /\ Basket(r.items)
    /\ r.discount \in Nat /\ r.discountCode \in Codes \cup {None}
    /\ r.period \in Periods \cup {0}

ASSUME RequestsAssumption == \A r \in Bodies : CreateInvoiceDto(r)

\* What a discount code grants: a percentage of the subtotal, or an amount.
CreateDiscountCodeDto ==
    [kind : {"PERCENT"}, value : 1..100] \cup [kind : {"AMOUNT"}, value : Nat \ {0}]

\* Rates are whole amounts, 0 among them, and every code grants one reduction.
ASSUME PricesAssumption ==
    /\ InitialRates \in [Classes -> Nat] /\ RateTables \subseteq [Classes -> Nat]
    /\ Reductions \subseteq CreateDiscountCodeDto
    /\ InitialCodes = [d \in Codes |-> InitialCodes[d]]
    /\ \A d \in Codes : InitialCodes[d] # NoCode => InitialCodes[d].off \in CreateDiscountCodeDto

\* A manual code such as INV-2026-D002, whose suffix is no number: it is kept
\* in the table as number 0 and counts for nothing.
Legacy(s) == [no |-> 0, student |-> s, type |-> "OTHER", period |-> 0,
              subtotal |-> 1, discount |-> 0, total |-> 1, lines |-> [i \in {1} |-> 1]]

TuitionInit ==
    /\ invoices = {Legacy(s) : s \in WithAccount}
    /\ notices = {}
    /\ rates = InitialRates
    /\ code = InitialCodes
    /\ profile = [s \in Students |-> "ACTIVE"]
    /\ enrolled = InitialEnrollments
    /\ today = 0
    /\ changes = 0
    /\ create = [k \in Clerks |-> NoCreate]
    /\ close = [g \in Closers |-> NoClose]
    /\ fee = [f \in Registrars |-> NoFee]

-----------------------------------------------------------------------------
(* Numbers, money and the unique indexes                                   *)

Numbers == {i.no : i \in invoices}

\* Mutant: the next number is taken from the count of the rows.
NumberAfterCount == Cardinality(invoices) + 1

\* nextInvoiceNo: one more than the largest numeric suffix.
NextNumber == 1 + CHOOSE n \in Numbers \cup {0} : \A m \in Numbers : m <= n

\* The row of student s for one period, by the index on (student, type, period).
Billed(s, p) == \E i \in invoices : i.type = "TUITION" /\ i.student = s /\ i.period = p

\* Mutant: the second index is on the student alone.
ClashAnyType(no, s, p) == no \in Numbers \/ \E i \in invoices : i.student = s

\* What the two unique indexes refuse.
Clash(no, s, p) == no \in Numbers \/ (p # 0 /\ Billed(s, p))

Subtotal(lines) == FoldFunction(+, 0, lines)

\* Mutant: a discount may exceed the subtotal.
AnyMoney(subtotal, discount) == subtotal <= MaxMoney /\ discount <= MaxMoney

\* assertMoneyAmount on every running sum, and no discount beyond the subtotal.
MoneyFits(subtotal, discount) == subtotal <= MaxMoney /\ discount <= subtotal

InvoiceRow(no, s, type, p, lines, discount) ==
    [no |-> no, student |-> s, type |-> type, period |-> p,
     subtotal |-> Subtotal(lines), discount |-> discount,
     total |-> Subtotal(lines) - discount, lines |-> lines]

Room == Cardinality(invoices) < MaxInvoices

-----------------------------------------------------------------------------
(* BillingService.create                                                   *)

\* resolveDiscountCode accepts a code that is active and in its window.
Usable(d) ==
    /\ code[d].state = "ON"
    /\ code[d].from <= today
    /\ today <= code[d].until

CodeDiscount(d, subtotal) ==
    IF code[d].off.kind = "PERCENT" THEN (subtotal * code[d].off.value) \div 100
                                    ELSE code[d].off.value

\* create reads the profile, and checks the period and the subtotal.
StartCreate(k, dto) ==
    LET lines == [i \in DOMAIN dto.items |-> dto.items[i].quantity * dto.items[i].unitAmount] IN
    /\ create[k].at = "IDLE"
    /\ profile[dto.student] # "DELETED"
    /\ (dto.type = "TUITION") <=> (dto.period # 0)
    /\ Subtotal(lines) <= MaxMoney
    /\ create' = [create EXCEPT ![k] =
                    [at |-> "CODE", student |-> dto.student, type |-> dto.type,
                     period |-> dto.period, lines |-> lines, discount |-> dto.discount,
                     discountCode |-> dto.discountCode]]
    /\ UNCHANGED <<invoices, notices, admin, close, fee>>

\* The discount of a request: its own, and what its code grants.
Discount(c) ==
    c.discount + (IF c.discountCode = None THEN 0
                  ELSE CodeDiscount(c.discountCode, Subtotal(c.lines)))

Acceptable(c) ==
    /\ c.discountCode # None => Usable(c.discountCode)
    /\ MoneyFits(Subtotal(c.lines), Discount(c))

\* It then reads the discount code, if it names one: the first attempt follows,
ApplyDiscount(k) ==
    LET c == create[k] IN
    /\ c.at = "CODE"
    /\ Acceptable(c)
    /\ create' = [create EXCEPT ![k] =
                    [at |-> "NUMBER", student |-> c.student, type |-> c.type,
                     period |-> c.period, lines |-> c.lines, discount |-> Discount(c),
                     attempt |-> 1, no |-> 0]]
    /\ UNCHANGED <<invoices, notices, admin, close, fee>>

\* or the code is of no use, or more than the subtotal, and the request is refused.
RefuseDiscount(k) ==
    /\ create[k].at = "CODE"
    /\ ~Acceptable(create[k])
    /\ create' = [create EXCEPT ![k] = NoCreate]
    /\ UNCHANGED <<invoices, notices, admin, close, fee>>

Attempt(k, at, attempt, no) ==
    [at |-> at, student |-> create[k].student, type |-> create[k].type,
     period |-> create[k].period, lines |-> create[k].lines,
     discount |-> create[k].discount, attempt |-> attempt, no |-> no]

\* The transaction of one attempt reads the numbers in use.
ReadNumber(k) ==
    /\ create[k].at = "NUMBER"
    /\ create' = [create EXCEPT ![k] = Attempt(k, "INSERT", create[k].attempt, NextNumber)]
    /\ UNCHANGED <<invoices, notices, admin, close, fee>>

\* The insert goes through: the row, and the two outbox rows of a student
\* with an account, commit together.
InsertInvoice(k) ==
    LET c == create[k] IN
    /\ c.at = "INSERT"
    /\ Room
    /\ ~Clash(c.no, c.student, c.period)
    /\ invoices' = invoices \cup
                     {InvoiceRow(c.no, c.student, c.type, c.period, c.lines, c.discount)}
    /\ notices' = notices \cup (IF c.student \in WithAccount
                                THEN {c.no} \X {"IN_APP", "EMAIL"} ELSE {})
    /\ create' = [create EXCEPT ![k] = NoCreate]
    /\ UNCHANGED <<admin, close, fee>>

LastAttempt(k) == create[k].attempt = MaxAttempts

\* An index refuses the insert: the next attempt reads the numbers again, and
\* the last one throws.
LoseInsert(k) ==
    LET c == create[k] IN
    /\ c.at = "INSERT"
    /\ Clash(c.no, c.student, c.period)
    /\ create' = [create EXCEPT ![k] =
                    IF LastAttempt(k) THEN Attempt(k, "FAILED", c.attempt, 0)
                                      ELSE Attempt(k, "NUMBER", c.attempt + 1, 0)]
    /\ UNCHANGED <<invoices, notices, admin, close, fee>>

\* The administrator has the error and turns to the next request.
EndCreate(k) ==
    /\ create[k].at = "FAILED"
    /\ create' = [create EXCEPT ![k] = NoCreate]
    /\ UNCHANGED <<invoices, notices, admin, close, fee>>

-----------------------------------------------------------------------------
(* BillingService.generateMonthly                                          *)

\* The rates are read first; classes without one are reported as skipped.
ReadRates(g, p, wanted) ==
    /\ close[g].at = "IDLE"
    /\ close' = [close EXCEPT ![g] =
                   [at |-> "RATED", period |-> p,
                    rate |-> [c \in {c \in wanted : rates[c] > 0} |-> rates[c]],
                    before |-> Cardinality(invoices)]]
    /\ UNCHANGED <<invoices, notices, admin, create, fee>>

\* Student s has an open enrolment in class c that began before the end of period p.
Attends(s, c, p) == \E m \in 1..p : <<s, c, m>> \in enrolled

\* The open enrolments of active students in rated classes, grouped by student.
ReadEnrollments(g) ==
    LET rate == close[g].rate
        lines == [s \in Students |->
                    [c \in {c \in DOMAIN rate : Attends(s, c, close[g].period)} |-> rate[c]]]
        due == {s \in Students : profile[s] = "ACTIVE" /\ DOMAIN lines[s] # {}}
    IN
    /\ close[g].at = "RATED"
    /\ close' = [close EXCEPT ![g] =
                   [at |-> "LOOP", period |-> close[g].period, lines |-> lines, due |-> due,
                    todo |-> due, created |-> {}, skipped |-> {}, student |-> None, no |-> 0,
                    before |-> close[g].before]]
    /\ UNCHANGED <<invoices, notices, admin, create, fee>>

Turn(g, at, todo, created, skipped, s, no) ==
    [at |-> at, period |-> close[g].period, lines |-> close[g].lines, due |-> close[g].due,
     todo |-> todo, created |-> created, skipped |-> skipped, student |-> s, no |-> no,
     before |-> close[g].before]

\* The transaction of the next student reads the numbers in use.
NextStudent(g, s) ==
    LET b == close[g] IN
    /\ b.at = "LOOP"
    /\ s \in b.todo
    /\ close' = [close EXCEPT ![g] =
                   Turn(g, "INSERT", b.todo \ {s}, b.created, b.skipped, s, NextNumber)]
    /\ UNCHANGED <<invoices, notices, admin, create, fee>>

\* The insert goes through; the close writes no outbox row.
InsertTuition(g) ==
    LET b == close[g]
        row == InvoiceRow(b.no, b.student, "TUITION", b.period, b.lines[b.student], 0)
    IN
    /\ b.at = "INSERT"
    /\ Room
    /\ row.total <= MaxMoney
    /\ ~Clash(b.no, b.student, b.period)
    /\ invoices' = invoices \cup {row}
    /\ close' = [close EXCEPT ![g] =
                   Turn(g, "LOOP", b.todo, b.created \cup {b.student}, b.skipped, None, 0)]
    /\ UNCHANGED <<notices, admin, create, fee>>

\* Any unique violation counts as an existing invoice of the period.
SkipExisting(g) ==
    LET b == close[g] IN
    /\ b.at = "INSERT"
    /\ Clash(b.no, b.student, b.period)
    /\ close' = [close EXCEPT ![g] =
                   Turn(g, "LOOP", b.todo, b.created, b.skipped \cup {b.student}, None, 0)]
    /\ UNCHANGED <<invoices, notices, admin, create, fee>>

\* A total that no INTEGER holds is an error, and ends the whole close.
BreakOff(g) ==
    /\ close[g].at = "INSERT"
    /\ Subtotal(close[g].lines[close[g].student]) > MaxMoney
    /\ close' = [close EXCEPT ![g] = NoClose]
    /\ UNCHANGED <<invoices, notices, admin, create, fee>>

\* The answer: created and skippedExisting.
Report(g) ==
    LET b == close[g] IN
    /\ b.at = "LOOP"
    /\ b.todo = {}
    /\ close' = [close EXCEPT ![g] = Turn(g, "DONE", {}, b.created, b.skipped, None, 0)]
    /\ UNCHANGED <<invoices, notices, admin, create, fee>>

\* The administrator has the answer, and may run the close again.
EndClose(g) ==
    /\ close[g].at = "DONE"
    /\ close' = [close EXCEPT ![g] = NoClose]
    /\ UNCHANGED <<invoices, notices, admin, create, fee>>

-----------------------------------------------------------------------------
(* createExamFeeInvoice, inside the transaction of a registration          *)

StartFee(f, s) ==
    /\ fee[f].at = "IDLE"
    /\ fee' = [fee EXCEPT ![f] = [at |-> "INSERT", student |-> s, no |-> NextNumber]]
    /\ UNCHANGED <<invoices, notices, admin, create, close>>

InsertFee(f) ==
    /\ fee[f].at = "INSERT"
    /\ Room
    /\ ~Clash(fee[f].no, fee[f].student, 0)
    /\ invoices' = invoices \cup {InvoiceRow(fee[f].no, fee[f].student, "EXAM_FEE", 0,
                                      [i \in {1} |-> Fee], 0)}
    /\ fee' = [fee EXCEPT ![f] = NoFee]
    /\ UNCHANGED <<notices, admin, create, close>>

\* After a unique violation the database has aborted the transaction: the next
\* attempt's read fails, the error is thrown and the registration rolls back.
LoseFee(f) ==
    /\ fee[f].at = "INSERT"
    /\ Clash(fee[f].no, fee[f].student, 0)
    /\ fee' = [fee EXCEPT ![f] = NoFee]
    /\ UNCHANGED <<invoices, notices, admin, create, close>>

-----------------------------------------------------------------------------
(* Settings and discount codes                                             *)

Administer == changes < MaxChanges /\ changes' = changes + 1

\* updateTuitionRates replaces the whole map.
UpdateTuitionRates(map) ==
    /\ Administer
    /\ rates' = map
    /\ UNCHANGED <<invoices, notices, code, profile, enrolled, today, create, close, fee>>

\* createDiscountCode: a new code, valid over a window that is not empty.
CreateDiscountCode(d, off, from, until) ==
    /\ Administer
    /\ code[d].state = "ABSENT"
    /\ until > from
    /\ code' = [code EXCEPT ![d] = [state |-> "ON", off |-> off, from |-> from,
                                    until |-> until]]
    /\ UNCHANGED <<invoices, notices, rates, profile, enrolled, today, create, close, fee>>

\* updateDiscountCode: the switch and the end of the window, unchecked.
UpdateDiscountCode(d, state, until) ==
    /\ Administer
    /\ code[d].state # "ABSENT"
    /\ code' = [code EXCEPT ![d] = [state |-> state, off |-> code[d].off,
                                    from |-> code[d].from, until |-> until]]
    /\ UNCHANGED <<invoices, notices, rates, profile, enrolled, today, create, close, fee>>

\* deleteDiscountCode: the row goes; invoices keep the amount it granted.
DeleteDiscountCode(d) ==
    /\ Administer
    /\ code[d].state # "ABSENT"
    /\ code' = [code EXCEPT ![d] = NoCode]
    /\ UNCHANGED <<invoices, notices, rates, profile, enrolled, today, create, close, fee>>

-----------------------------------------------------------------------------
(* The rest of the world                                                   *)

\* StudentsService changes or deletes a profile.
ChangeProfile(s, v) ==
    /\ Administer
    /\ profile[s] \notin {v, "DELETED"}
    /\ profile' = [profile EXCEPT ![s] = v]
    /\ UNCHANGED <<invoices, notices, rates, code, enrolled, today, create, close, fee>>

\* EnrollmentsService closes an enrolment, or opens one that begins today.
ChangeEnrollment(s, c) ==
    LET open == {e \in enrolled : e[1] = s /\ e[2] = c} IN
    /\ Administer
    /\ enrolled' = IF open = {} THEN enrolled \cup {<<s, c, Month[today]>>}
                                ELSE enrolled \ open
    /\ UNCHANGED <<invoices, notices, rates, code, profile, today, create, close, fee>>

Midnight ==
    /\ Administer
    /\ today < MaxDay
    /\ today' = today + 1
    /\ UNCHANGED <<invoices, notices, rates, code, profile, enrolled, create, close, fee>>

IssueNext ==
    \/ \E k \in Clerks, dto \in Bodies : StartCreate(k, dto)
    \/ \E k \in Clerks : ApplyDiscount(k) \/ RefuseDiscount(k)
    \/ \E k \in Clerks : ReadNumber(k) \/ InsertInvoice(k) \/ LoseInsert(k) \/ EndCreate(k)
    \/ \E g \in Closers, p \in Periods, wanted \in SUBSET Classes \ {{}} :
          ReadRates(g, p, wanted)
    \/ \E g \in Closers : ReadEnrollments(g) \/ InsertTuition(g) \/ SkipExisting(g)
    \/ \E g \in Closers : BreakOff(g) \/ Report(g) \/ EndClose(g)
    \/ \E g \in Closers, s \in Students : NextStudent(g, s)
    \/ \E f \in Registrars, s \in Students : StartFee(f, s)
    \/ \E f \in Registrars : InsertFee(f) \/ LoseFee(f)

AdminNext ==
    \/ \E map \in RateTables : UpdateTuitionRates(map)
    \/ \E d \in Codes, off \in Reductions, from, until \in 0..MaxDay :
          CreateDiscountCode(d, off, from, until)
    \/ \E d \in Codes, state \in {"ON", "OFF"}, until \in 0..MaxDay :
          UpdateDiscountCode(d, state, until)
    \/ \E d \in Codes : DeleteDiscountCode(d)
    \/ \E s \in Students, v \in {"ACTIVE", "INACTIVE", "DELETED"} : ChangeProfile(s, v)
    \/ \E s \in Students, c \in Classes : ChangeEnrollment(s, c)
    \/ Midnight

TuitionNext == IssueNext \/ AdminNext

TuitionSpec == TuitionInit /\ [][TuitionNext]_tuitionVars

-----------------------------------------------------------------------------
(* Properties                                                              *)

\* The numbers issued are exactly 1, 2, 3, ... without gap or repetition,
\* whatever create, the close and exam registrations do to each other: a lost
\* insert leaves no hole, and manual codes do not disturb the sequence.
NumbersGapless ==
    LET issued == {i \in invoices : i.no # 0} IN Numbers \ {0} = 1..Cardinality(issued)

\* A total is what its lines add up to minus its discount, is never negative
\* and fits the column, for every combination of manual discount and code.
MoneyAddsUp ==
    \A i \in invoices :
        /\ i.subtotal = Subtotal(i.lines)
        /\ i.total = i.subtotal - i.discount
        /\ i.discount \in 0..i.subtotal
        /\ i.total \in 0..MaxMoney

\* "Student/period pairs skipped because the period invoice already exists", as the
\* contract says of skippedExisting: whom a close counts there has the invoice.
SkippedAreBilled ==
    \A g \in Closers : close[g].at = "DONE" =>
        \A s \in close[g].skipped : Billed(s, close[g].period)

\* What holds instead.  When a close reports, every student it found due is either
\* created or skipped, and it left at most as many of them without an invoice of
\* the period as other issuers issued invoices while it ran.
CloseLosesOnlyRaces ==
    \A g \in Closers : close[g].at = "DONE" =>
        /\ close[g].due = close[g].created \cup close[g].skipped
        /\ Cardinality({s \in close[g].due : ~Billed(s, close[g].period)})
             <= Cardinality(invoices) - close[g].before - Cardinality(close[g].created)

=============================================================================
