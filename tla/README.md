# Verification of the Vovinam club backend

The repository is a NestJS service (TypeScript, Prisma, PostgreSQL) that runs a
martial arts club: accounts and sessions, students and their parents, classes and
attendance, belt exams, tuition and payments, notifications, audit. This directory
models the parts in which concurrency, failure or ordering decide whether the
service is right, checks them with TLC on small instances, and proves the most
important results with TLAPS for every size.

Paths below are relative to the repository; component paths are below its `src/`.

## 1. Inventory

| component | state | operations | hard because |
|---|---|---|---|
| payment collection (`billing/payments.service.ts`) | `invoices`, `payment_transactions` | createQrPayment, handleWebhook, confirmCash, setOutcome | webhook deliveries repeat, overlap, come late; the receipt is read before the row lock; money may move through QR, cash and refund at once |
| invoice aging (`billing/overdue-invoice.job.ts`) | `invoices.status` | markOverdue, daily | races with settlement |
| payment gateways (`billing/*.gateway.ts`) | none | createPayment, verifySignature, parseEvent | external; may be unreachable, repeats until answered 200 |
| billing (`billing/billing.service.ts`) | `invoices`, `discount_codes`, settings | create, generateMonthly, createExamFeeInvoice, discounts, reports | numbers are read in one statement and used in a later one; one tuition per student and month; discounts and limits of a column |
| class enrolment (`classes/enrollments.service.ts`) | `enrollments` | create, remove | capacity and uniqueness by a row lock, not by an index |
| classes (`classes/classes.service.ts`) | `classes`, schedules | create, update, schedules | capacity edit against enrolment |
| belt exams (`exams/`) | `belt_exams`, `exam_registrations`, rank | create, update, register, recordResult | capacity lock; results and promotions under READ COMMITTED |
| outbox (`notifications/`) | `notifications` | enqueue, worker passes | claim, lease, retry, crash, shutdown |
| audit log (`auth/audit/`) | in-memory queue, `audit_logs` | record, flush, drain, shutdown | asynchronous batches, failed writes, limit of the queue |
| sessions and tokens (`auth/auth.service.ts`, guards) | `users`, `sessions`, `refresh_tokens`, denylist | login, refresh, logout, revocations | rotation under concurrent calls; state read before an await and used after it |
| second factor (`auth/mfa/`, `auth/auth.service.ts`) | `totp_credentials`, recovery codes, a store with times to live | enrol, verify, validate, disable, sign in | a failure bucket, a replay guard and a credential read at different moments |
| accounts and action tokens (`auth/auth.service.ts`, `auth/used-token.purge.ts`) | `users`, `used_tokens`, mail counters | register, verify, reset, change address, purge | single use over hours and across a purge; an address found free is taken later |
| leave requests, promotions (`leaves/`, `promotions/`) | one row with a status | create, review, cancel, delete | check-then-act on PENDING |
| consent (`consent/`) | `consent_logs` | grant, revoke | concurrent duplicates |
| students, parents (`students/`, `parents/`) | profiles, links, invite codes | create, update, softDelete, linkChild, regenerate | invite code rotation against a claim; three queries for one rule of visibility |
| attendance (`attendance/`) | sessions and records | createSession, upsertRecords, reports | overlapping rolls; month limits computed in four places |
| evaluations, announcements (`evaluations/`, `announcements/`) | rows | create, update, delete, feed | author and audience checked before the write |
| throttling (`common/`, `auth/`) | counters per address | count a request | fixed windows, two of them for the auth surface |
| HTTP layer, OpenAPI contract (`**/*.controller.ts`, `openapi/`) | none | guards of some ninety routes | one forgotten decorator opens a route; the account changes between guards |
| belts, notification feed, seed and load scripts | rows | CRUD | little |

How they interact. Exam registration calls billing inside its own transaction
(fee invoice). BillingService.create enqueues its outbox rows inside the transaction
that inserts the invoice; the outbox worker sends them later. Enrolment, exam
registration and the monthly close read the student's profile, which `students/`
changes. Leaves, promotions, evaluations, attendance and consent ask
StudentOwnershipService whom the caller may act for. Every mutating service records
audit entries after its commit. Every request passes the throttles, the access-token
guard, which reads `users` and `sessions`, and the roles guard. The database is the
only shared state between processes, except for the denylist, the throttle counters,
the store of the second factor and the audit queue, which each process keeps in
memory.

What makes each part correct:

- payments: an invoice is PAID exactly while its receipts cover it; no money is
  booked beyond the total; a reported transfer is never lost; history is one-way;
- billing: numbers without gaps; amounts that add up and fit; a close that leaves
  nobody out except through a race it lost;
- enrolment and exams: limits hold against concurrent requests; a belt never moves
  down; a registration and its fee stand or fall together;
- reviews, consent, evaluations: a decision carries the name of somebody entitled to
  it and is not undone by an edit that began before it (that nobody replaces it, as the
  contract says, does not hold), a withdrawal holds, an author's text stays the author's;
- attendance: overlapping rolls leave what one after the other would; every report
  counts the same records;
- outbox and audit: nothing lost while the process runs, no hole in the audit trail,
  copies only through faults, everything worked off;
- sessions: rotation does not fork, reuse is noticed, what ended stays ended;
- second factor and accounts: a time-based code and an action token work once (two
  sign-ins at once can share a recovery code), guesses are bounded, a verified address
  has been proven;
- families: an invite code makes at most one link; lists and single checks agree;
- routes: the guards let through and refuse whom the API contract says; the statuses
  of successes and of throttled calls differ from it.

`PROJECT.json` lists the hazards behind these, each at its line.

## 2. Modules

| module | models | used by |
|---|---|---|
| `Payments` | PaymentsService and OverdueInvoiceJob | `MCBilling`, `MCBackground`, `PaymentsProofs` |
| `InvoiceLedger` | the abstract promise of payment collection | `Payments` (refinement) |
| `Tuition` | BillingService: create, generateMonthly, createExamFeeInvoice, rates, codes | `MCBilling`, `TuitionProofs` |
| `Enrollments` | EnrollmentsService and ClassesService.update | `Desk` |
| `Exams` | ExamsService.register, update, recordResult | `MCBilling`, `MCExams`, `ExamsProofs` |
| `Leaves` | LeavesService | `Desk` |
| `Promotions` | PromotionsService | `Desk` |
| `Evaluations` | EvaluationsService | `Desk` |
| `Attendance` | AttendanceService, its writes and its four readers | `Desk` |
| `Consent` | ConsentService | `Desk` |
| `Announcements` | AnnouncementsService and its feed | `Desk` |
| `Desk` | Enrollments and the six services from Leaves to Announcements, together | `MCDesk`, `DeskProofs` |
| `Outbox` | NotificationOutboxService and its worker | `MCOutbox`, `Background` |
| `AuditQueue` | AuditService | `Background` |
| `Background` | the two background writers of a process, together | `MCBackground`, `BackgroundProofs` |
| `Sessions` | AuthService's session operations, AdminUsersService, JwtAuthGuard | `MCDesk`, `SessionsProofs` |
| `SecondFactor` | TotpService and the operations of AuthService over it | `Access` |
| `Account` | registration, action tokens, change of address, UsedTokenPurge | `Access` |
| `Family` | StudentsService, ParentsService, StudentOwnershipService | `Access` |
| `Routes` | the decorators of every controller | `Contract` |
| `Contract` | access and status codes of every operation in `openapi/contract.ts` | `Gate` |
| `Gate` | the throttles, JwtAuthGuard, RolesGuard, the token of the metrics route | `Access` |
| `Access` | guards, families, second factor and accounts, together | `MCAccess`, `AccessProofs` |
| `Null` | the null of columns and variables, one constant for all modules | most |
| `Sums` | no code: what the community modules' FoldFunction adds up | `TuitionProofs`, `DeskProofs` |

`MCBilling`, `MCDesk`, `MCAccess` and `MCBackground` instantiate these for TLC, and
`MCExams` and `MCOutbox` two of the violations. To be explored by one run, modules that
do not call each other have distinct names (`examStatus`, `tuitionVars`, `authSession`).

Definitions whose comment begins with "Mutant" are deliberately wrong variants of
the definition that follows; they are never part of a specification and exist to
show that each property notices the mistake.

### Grain and correspondence

The database runs at READ COMMITTED. A transaction that first takes a row lock and
touches nothing another transaction could change in between is one action; where
something can come in between, check and write are two actions, and the lock is a
predicate over the requests in flight (`LockFree`, `ExamLockFree`). In process memory
the unit is the code between two awaits. An operation that is refused changes nothing
and is no step, except where the refusal itself leaves a trace (a lost insert that
retries, a failure that is counted).

- **Payments.** `StartQr` is the unlocked read of the invoice, `CreateQrPayment` the
  locked transaction after the gateway's answer (supersede older QR codes, insert),
  `AbandonQr` the 503 and 409 exits. `SendEvent` is external: the gateway begins to
  report a transfer. `ReadReceipt` is the webhook's unlocked read with its early
  returns, `LoseClaim`, `TransitionReceipt`, `DisputeExpired` and `Settle` are the
  exits of the transaction, `Answer` the HTTP 200; `WebhookFault` stands for a
  rolled-back transaction, a dead process or a lost answer. `SetOutcome` contains
  recomputeInvoiceStatus. A receipt's amount is always the invoice's total, which
  nothing changes, so sums are counts times the total.
- **Tuition.** create reads the profile (`StartCreate`), then the discount code
  (`ApplyDiscount`, `RefuseDiscount`), then the numbers. A close bills the enrolments
  that began before the end of the period (`Attends`). Three issuers share one table and
  two unique indexes (`Clash`). `ReadNumber`, `NextStudent` and `StartFee` read the
  numbers in use; `InsertInvoice`, `InsertTuition` and `InsertFee` insert later. They
  differ in what a unique violation does: `LoseInsert` retries up to MaxAttempts,
  `SkipExisting` counts the student as already billed, `LoseFee` fails the registration,
  because the database has aborted the caller's transaction. A manual code without a
  numeric suffix is number 0.
- **Enrollments.** `CheckEnrollment` takes the class lock and runs every check,
  `InsertEnrollment` inserts and commits. `CheckCapacity` and `WriteCapacity` are the
  two statements of ClassesService.update. Removal, profile changes and midnight
  may come at any time. remove's findFirst and update are one action: only another
  remove could come between them, and both would write the same row.
- **Exams.** The same lock discipline for register, whose two inserts are two steps:
  what `InsertRegistration` writes nobody sees (`SaveInTransaction`) until `IssueFee`
  adds the invoice and commits, or `AbortRegistration` takes it back. recordResult is
  four statements (`ReadRegistration`, `WritePass`/`RecordFail`, `ReadRank`, `Promote`),
  with the row held from its first write (`RowHeld`). Uncommitted writes are invisible.
- **Leaves, Promotions, Evaluations, Announcements, Consent.** `Check...` is everything
  an operation reads and decides, the action of the write follows later, by id,
  whatever the row has become. No lock stands between them, as in the code. revoke of a
  consent resolves its subject (`CheckRevoke`) before its updateMany.
- **Attendance.** A roll is one transaction of upserts in the order of the body, each
  holding its record until the commit; two rolls in opposite orders deadlock, and the
  database aborts one. `record` is the newest version of a row, `old` in the roll under
  way the version readers still see (`Visible`). A report of an administrator has all
  classes, one of an instructor his own that are not archived (`Reported`); its three
  statements are read in one state.
- **Outbox.** One action per await of a pass. The ten minute lease and the backoff
  are kept as "has it run out" (`stale`, `waiting`). Crashes, shutdowns, failing
  statements and senders that fail after the message went out spend `MaxOutboxFaults`.
- **AuditQueue.** `Record` contains the first splice of a drain it starts,
  `WriteSucceeds` the next splice, `Finally` the callback that clears flushPromise.
- **Sessions.** One account. An access token and the refresh token issued with it are
  one pair. login and refresh are one action per awaited statement, and refresh's
  include is a statement of its own: the token is read (`ReadToken`), then its user
  (`ReadUser`), and it is this reading of the user, with its verified address, that
  `CheckSession` judges later. StudentsService.softDelete makes the account inactive and
  touches neither sessions nor version (`DeleteStudent`). The operations that end
  sessions are transactions, except revokeSession, which is two statements. Passwords
  and mails are left out: an operation that checks them happens or does not.
- **SecondFactor.** Time runs in TOTP steps. verifyCode awaits nothing, so its look at
  the lock, the guard, the check and the count of a failure are one action; the
  credential it works on was read before. The code of secret k for step t is the
  pair <<k, t>>, accepted one step early or late, as the authenticator does.
- **Account.** Time runs in units of twelve hours, so that the seven days of a used
  token and the one day of a mail token are a few units. Each flow is check, consume,
  take effect, with the purge and the administrator in between.
- **Family.** linkChild and regenerateInviteCode read a code and claim it later;
  the claim, conditional on the code being unchanged, and the link commit together. A
  caller may have several operations in flight (`Calls`), also two links of one parent.
  A code is some 40 random bits. Two draws may coincide before either is stored, and
  the unique index then decides. `Fresh` leaves out one coincidence: that a draw brings
  back a code which was some profile's and has been replaced (`retired`). If it did, a
  parent who read the old code before it was replaced could still claim with it.
- **Routes, Contract, Gate.** Two tables with the same keys, one read off the
  decorators and one off the contract, and the way of a request through the guards.
  The metrics route has no guard; its handler compares the bearer token itself
  (`CheckMetricsToken`).

## 3. Runs

| run | instance | shows |
|---|---|---|
| `billing` | payments: 1 invoice, 3 receipts, 2 deliveries and 2 QR requests in flight, 3 events (exact, failed, wrong amount with the id of another order); tuition: 2 students, 2 classes, 2 codes, a clerk, a close and a registration in flight, one change of settings; exams: 1 exam, 2 students, 2 registrations and 2 results in flight, edits | PAID matches the receipts, never over-settled, one open QR, one-way receipts, refinement of `InvoiceLedger`; numbers without gaps, amounts that add up and fit, a close leaves out only students it lost a race for; no registration beyond capacity, registration and fee together, belts of one exam's results only move up |
| `payments_twice` | one QR paid twice | **violation**: the second transfer is acknowledged and recorded nowhere, although `docs/DATABASE_BASELINE.md:310` says that overpayment "never hides money" |
| `close_skipped` | the tuition parts of `billing` | **violation**: a close that loses a number to another issuer counts the student in skippedExisting, which `src/openapi/contract.ts:307` describes as "the period invoice already exists" |
| `exams_belt` | 2 exams, 1 student, 2 results in flight | **violation**: both read the old rank, the lower target is written last, against the comment at `src/exams/exams.service.ts:274` |
| `desk` | seven services, each with 2 to 4 users and 2 or 3 rows, and one account: 1 session, 3 tokens, 2 calls, 1 version bump | enrolment: no overbooking, unique rows; leaves: verdicts carry an entitled name; promotions: reviews are not undone; evaluations: the author's; attendance: rolls serialize and reports agree; consent: a withdrawal holds; announcements: audience and class fit; sessions: rotation never forks, reuse ends the session, ended stays ended, the denylist is redundant |
| `enrollments_capacity` | the enrolments of `desk` | **violation**: an enrolment between the count and the write of ClassesService.update leaves more members than capacity, against the comment at `src/classes/classes.service.ts:91` |
| `decisions_final` | the leave requests and proposals of `desk` | **violation**: of two decisions that both found the row pending the second overwrites the first, where `src/openapi/contract.ts:2008`, `:2018` and `:2079` say 409 and "immutable" |
| `access` | six slices (see below) | a code makes one link and lists agree with checks; guards keep the contract on every route; TOTP codes and action tokens work once, failures are bounded, a verified address is proven |
| `recovery_once` | the second factor of `access` | **violation**: two sign-ins that both found a recovery code unused both get a session, where `src/openapi/contract.ts:817` says "Single-use" |
| `contract_answers` | the guards of `access` | **violation**: eight POST routes of `auth/` answer 201 where their entry says 200, and throttles answer 429 on routes whose catalog lacks it, against `src/openapi/enrich-openapi.ts:57` |
| `background` | outbox: 2 rows, 1 worker, 2 faults, 3 retries; audit: 7 entries, batches of 2, queue of 3, 3 failing writes; webhook: 1 invoice, 2 receipts, 2 deliveries, 1 fault, an exact and a wrong transfer, no due date | extra copies need faults, every row finishes; no entry lost, no hole in the trail, every accepted one stored; acknowledged transfers are recorded, a wrong amount never settles, and every reported transfer gets on the books |
| `outbox_overlap` | 1 row, 2 workers, no fault | **violation**: a delivery that outlasts the lease is sent a second time by the other process, against the comment at `src/notifications/notification-outbox.service.ts:98` |

What these do not say. `outbox_overlap` needs a delivery of more than ten minutes; the
SMTP sender gives up long before (`notifications/smtp-mail.sender.ts:28`), so the stall
has to come from the process or the database. ReuseEndsSession is about the session of
the token that was used twice; the code ends every session of the user, as
`src/openapi/contract.ts:575` says, but with one session a second one cannot be told
apart. NothingLost counts an entry that is still queued when the process goes down as
kept: onModuleDestroy logs how many there are, and none of them reaches the table.
`decisions_final` and `contract_answers` each hold two halves that fail independently.

### Parts explored on their own

`Desk`, `Background` and `Access` compose components that write disjoint state and do
not call each other: a step of the whole is a step of one part that leaves the others
alone. Their specifications let all parts move, and the theorems are about those. For
TLC the variable `part` of the MC modules chooses one component in the initial state and
only that one moves; every property is about one part, so the product would multiply
the state spaces and show nothing more. (`DeskImplementsParts` and
`AccessImplementsParts` prove the half of this that a reader may doubt: a behaviour of
the whole is, for each part, a behaviour of the part.) In the same way `MCBilling` puts
payments, tuition and exams, `MCDesk` the desk and the sessions, and `MCBackground` the
background writers and the webhook side by side.

Fairness belongs to the whole, so in `MCBackground` the worker goes on polling its empty
outbox next to the audit queue and to the webhook; without that no behaviour of those
two parts would be fair, and what must happen there would hold for want of behaviours.

Some parts are explored as two instances, each bounded where the other is not:

- tuition as NUMBERS (all issuers race, settings at rest) and PRICES (settings and the
  day change between any two steps, at most two invoices);
- exams as EXAMS (all requests at once, no edit of a rank) and EDIT (edits of a rank next
  to one request);
- sessions as ROTATION (two calls at once, nothing expires) and EXPIRY (the clock next to
  one call), with token ids issued in order and at most one of them on the denylist;
- families as CODES (invite codes with two operations in flight) and SCOPES (what each
  role sees); accounts as ONE (an account that may hold two tokens) and TWO (two accounts
  between which there is one token that concerns an address).

The theorems are about the specifications without these bounds.

What the components do share is kept inside each module: Enrollments, Tuition and
Leaves have the profiles, enrolments and classes they read as variables that others
change at any time.

### Bounds

They are the smallest at which the interesting case happens. Two requests of a kind
are enough for every race found here, since locks, indexes and conditional updates
are pairwise; three receipts give cash, QR and a late transfer on one invoice; a
capacity of two distinguishes "full" from "one left"; three refresh tokens are a token,
its successor and the successor's successor, which is what a refresh that outlives the
end of its session can produce. The queue of 3 with batches of 2 reaches a full
queue while a batch is in flight, and a batch put back on top of it.

- `Tuition`: three invoices besides the manual one are one from each issuer, in every
  order; MaxMoney 3 lets a sum of two rates overflow the column and one not; two
  attempts reach both the retry and its end (the code has five).
- `Attendance`: a month of one day makes every day the limit of a month.
- `SecondFactor`: two failures lock (five in the code), the bucket lasts one step and
  the clock runs two, so that it empties while requests wait; the guard lasts four
  steps, longer than the three in which a code is good, as in the code.
- `Account`: a token lives two units, the record of its use two, and the purge waits two
  more (the code has 2, 14 and 14): what matters is that the record outlives the token
  and a request that has checked it, and the purge comes after both.
- `Gate`: limits of one, one request at a time; the tables are complete.
- `Desk`: one class, and in most parts one student, since every check is about one row;
  rolls take two students, in opposite orders.

`MaxFaults`, `MaxOutboxFaults`, `MaxDay`, `MaxVersion`, `RankEdits`, `MaxCapacity`,
`MaxPlaces`, `MaxInvoices`, `MaxChanges`, `MaxTime` bound counters that the code
leaves unbounded; faults suffice to break every step of a pass once and the retry
after it. Where a theorem exists it removes the bound.

Symmetry is declared over ids that a module treats alike, in runs without liveness.
Deadlock checking is off: every instance has a finite number of rows, so the system
may come to rest.

### Fairness

Safety is checked without fairness. For liveness:

- `Payments`: an accepted webhook runs to its answer (event loop); an event that has
  not been answered 200 is delivered again (strong fairness: the gateway retries
  although handlers may be busy at times); the aging job runs every day. Nothing is
  assumed of clerks, payers or QR requests.
- `Outbox`: the interval starts passes and the event loop runs them; leases and
  backoffs run out. A sender need not ever succeed.
- `AuditQueue`: the timer fires, writes return, `finally` runs. Failing writes are
  bounded, since nothing reaches the table of a database that never accepts a write.

The other components have no liveness of their own: an operation happens when somebody
asks for it.

## 4. Proofs

Each theorem holds for every value of the constants, under the named assumptions of the
modules that declare them: finite tables, totals in Nat and a NULL that is no id
(`PaymentsAssumption`, `TuitionAssumption`, `EnrollmentsAssumption`,
`SessionsAssumption`, `ExamsAssumption`, `CountingAssumption`, `CallersAssumption`),
bounds that are numbers (`OutboxAssumption`, `AuditAssumption`), rates and discount
codes as the DTOs admit them (`PricesAssumption`: any whole rate, a percentage of 1 to
100 or any positive amount, where the code asks for at least 1000), and the few facts
about the code's constants that a result rests on: a user has one role
(`RolesAssumption`), the replay guard lasts at least the three steps in which a code is
good (`GuardAssumption`; the code has four), and a row of `used_tokens`, with the
retention of the purge, outlives its token (`RetentionAssumption`; the code has 28
half-days for a token of two). The last two are needed: without them the inductive step
fails, and a model with a shorter guard or an earlier purge (the mutants of
CodeAcceptedOnce and TokensUsedOnce) breaks the property. TLC also finds every inductive
invariant true on the small instances.

- **PaymentsProofs.** `TypeCorrect`: types and `WellFormed` (an existing row belongs
  to an invoice, an absent one is blank, a webhook in flight is about an existing
  row). `MoneyInv`, on top of it, is the inductive core: a charged invoice has at most
  one SUCCESS receipt, and it is PAID exactly when it has one. PaidIffSettled alone
  is not inductive: with two SUCCESS receipts the refund of one would leave PAID
  standing for the wrong reason, and the overpayment rule would be needed to exclude
  it. `SumOfReceipts` and `Multiples` turn sums of amounts into that count. From it:
  `PaidExactlyWhenSettled`, `NeverSettledTwice`, and `PaymentsImplementLedger`, the
  refinement of `InvoiceLedger` (one lemma per action that moves money; all others
  stutter). `ReceiptsOnlyMoveForward` is an action property from `TypeInv` and the
  claim's condition. `NewestQrIsTheOnlyOne` is inductive by itself over `TypeInv`, since
  superseding and inserting are one transaction. `NoAckedTransferIsLost` and
  `OnlyExactAmountsSettle` rest on `BookInv`, which says that every QR receipt beyond
  PENDING carries the id of an event that was really sent for it, a failed one if the
  receipt FAILED and one of the exact amount if it is SUCCESS; and on `AnswerInv`, which
  says that a handler about to answer 200 already has its transfer on the books. The
  answer itself comes a step later, and in between the receipt may be disputed or
  refunded, which keeps it recorded.
- **TuitionProofs.** `NumbersHaveNoGap`. NumbersGapless is not inductive: an issuer that
  held a number two beyond the largest would tear a hole. The invariant adds `Reads`: a
  number that was read and not yet used is at most the next one. `NextIsFree` shows that
  nextInvoiceNo answers the count of numbered rows plus one, `InsertExtends` that an
  insert which the index lets through takes exactly that number. Only the numbered rows
  need to be finite. `ClosesLoseOnlyRaces` compares two counts: students a close has
  skipped without an invoice, and rows others have inserted since it began. Its
  invariant `CloseInv` adds the step before a loss: when the number a close holds has
  been taken, the inequality is strict, so the student it is about to skip is paid for.
  `MoneyAlwaysAddsUp` follows the amounts from the settings to the row. Its invariant
  `MoneyInv` says that rates and codes are whole amounts (`Priced`), that a manual
  invoice carries a charge which fits from its check until its insert (`Charged`), that
  a close multiplies naturals it read at its start, whatever the settings have become
  (`Tariff`), and that the rows add up. create refuses a discount beyond the subtotal,
  so what is left to show of one is its sign (`DiscountType`); whether a close's lines
  fit is decided at each insert, and `SubtotalType` says that they never add up to less
  than zero.
- **Sums.** Subtotals and report counts are folds over finite functions, and a fold is a
  recursion. The theorems of the library for such inductions take an operator as a
  parameter, which the provers cannot instantiate; here each induction is instead a search
  for a smallest counterexample (`Smallest`, from WFMin over the naturals). `SumExists`
  builds the table that the recursion defines, `FoldIsSum` says that the fold reads it,
  and `SumType`, `SumOfOne` and `SumCounts` (the sizes of disjoint sets add up to the size
  of their union) are what the two theorems need.
- **ExamsProofs.** `IInv`: what a registration has checked under the row lock still holds
  (`Checked`), one registration per exam is past its checks, an examiner judges a
  registration that exists. From it `FeesFollowRegistrations` and `NeverOverbooked`.
  `OneExamNeverLowersBelt` assumes that there is one exam: `RankInv` says that one
  examiner per registration is between write and promotion and that a promotion to be
  written is still above the rank. With a second exam the last part fails, which is the
  violation the run `exams_belt` shows.
- **DeskProofs.** `DeskImplementsParts`, then one argument per service. Enrolments: the
  invariant is TypeOK, `LockHeld` (one create per class holds the lock) and
  ChecksHoldUnderLock, which is what the lock is for; lemmas count members through an
  insert and a removal. From it `ChecksAreStable`, `NeverOverbooked` and
  `RowsAreUnique`. `VerdictsAreEntitled` (`LeaveInv`): whoever holds a verdict ready was
  entitled to it when it was checked, the class of a request never changes, and a
  decision writes status and reviewer together. `ReviewsAreNeverUndone` (`ProposalInv`):
  an edit in flight writes the note alone, so it cannot bring the status back that it
  has read. That decisions stay as they are cannot be proved, since it is not so (run
  `decisions_final`). `AuthorsKeepEvaluations`: whoever has an update or delete in
  flight is the author or an administrator, and a row's author never changes.
  `WithdrawalsHold`: a withdrawal leaves a revoked row behind, and only an insert makes
  one active again. `AudiencesFit`: the pair audience and class fits already in the
  request, since it was completed from the row when it was checked, and the write stores
  the whole pair. `RollsAreSerial` (RollsSerialize): `RollInv` says that a record has at
  most one writer in flight and that everything a roll has written is still there;
  `Views` says what readers see of a record with and without a writer. A commit then
  changes what is visible to exactly that roll, and an abort to nothing.
  `ReportsAlwaysAgree` needs of the rolls only that what readers see is a mark or
  nothing (`Marked`, which needs RollInv for the version a roll will restore). The rest
  is counting: the class reports and the student summaries of a month partition the same
  set of places in the register (`Bearing`), by class and by student, and so add up to
  its size; a history partitions by mark. The theorem states it for every month, with
  sessions or without.
- **SessionsProofs.** The invariant adds to TypeOK: `Linked` (rows and requests refer
  to each other), `OneHolder` (a session has one live token or one refresh call
  between consuming and inserting), `UsedUp` (a finished refresh leaves its token
  revoked, and the consumer is gone unless the session is) and `Over` (what was
  declared over is revoked). RotationNeverForks needs Linked to know that a consumer's
  token is no longer live; ReuseEndsSession needs UsedUp, since the loser of the race
  may finish before the winner does. From it `RotationIsLinear`, `ReuseIsDetected`,
  `EndedForGood`, `RestartRevivesNothing`.
- **AccessProofs.** `AccessImplementsParts`, then four invariants.
  - `GateInv`: in front of JwtAuthGuard nobody is known, behind it the caller has a role
    and the route asks for a token, in the handler the caller has passed RolesGuard, and
    an answer of 401 or 403 comes from a route that has that guard. It speaks of the
    decorators alone. That they say what the contract says is `RoutesAgree`, a lemma about
    the two tables, proved controller by controller from the four kinds of decoration.
    From both `GuardsAlwaysKeepContract`, about callers and refusals with 401, 403 and
    404. TLC compares the tables as well; the theorem adds any number of requests, and
    accounts changing between the guards.
  - `FamilyInv`: codes of profiles are unique and never retired ones, every link was made
    with a retired code, no two with the same. A claim retires the code it uses, and a
    claim on a code that has been replaced meanwhile finds the profile with another one.
    From it `CodesMakeOneLink` and `ScopesAlwaysAgree`.
  - `FactorInv`: every code accepted so far is either too old for the authenticator or
    still guarded until it will be (`CodesGuarded`); the bucket is never above its limit.
    From it `NoCodeTwice` and `FailuresStayBounded`.
  - `RegistryInv`: a token that has taken effect has a row in `used_tokens`, or it has
    expired and no request carries it (`UsedInv`), which needs how old rows, tokens and
    requests can be in relation to each other (`AgeInv`, `RowFits`). A token that can
    still verify an unverified account was sent to the address the account has now
    (`TokenFits`, `FlowFits`, `AddressInv`). From it `TokensTakeEffectOnce` and
    `VerifiedAddressesAreProven`.
- **BackgroundProofs.** `AuditInv`: the batch in flight followed by the queue is in the
  order of recording, an accepted entry is in it or stored, and what is stored comes
  before all of it. `DrainCuts` shows that
  taking a batch splits the queue without loss, so that putting it back restores it.
  From it `NoEntryIsLost`, `TrailHasNoHole` and `PendingIsInOrder`. For the outbox,
  `RetryInv` holds with any number of processes (`AttemptsAreBounded`). `CopyInv` needs
  one process: the row in hand is claimed by nobody else (`HandHeld`), and the copies of
  a row that may be sent again are paid for by faults (`CopiesPaid`). From it
  `OneWorkerPaysForCopies`; with two processes HandHeld fails once the lease runs out,
  which is the violation the run `outbox_overlap` shows.

Only model-checked:

- liveness (TransferEventuallyRecorded, EveryRowFinishes, EventuallyStored): fairness is
  out of the prover's reach.

Every other property of the passing runs is stated by a theorem.

## 5. Observations

Behaviours met while modelling that no property calls wrong:

- A deleted student stays in the lists of administrators and of the instructors of the
  class, while single checks refuse access (ScopesAgree states the difference exactly).
- softDelete of a student leaves sessions and tokens as they are and only makes the
  account inactive: when an administrator activates the account again, they are good
  again. A process that dies between its two statements leaves the account active.
- The retry loop of createExamFeeInvoice runs inside the caller's transaction, which
  the database has aborted after the first violation: the second attempt always fails.
- `flush()` on shutdown awaits a write that is under way and does not drain what was
  queued behind it.
- ParentsService.unlink deletes unverified links only, and no code path creates one.
- Two proposals, or two consents, of one kind can be stored at once; each proposal is
  reviewed on its own, and a revocation ends all active consents.
- Two results of one registration recorded at once: both examiners read it as pending
  and the second write, by id alone, replaces the first.
- The count of failed passwords is read with the account and written later, so
  simultaneous failures count once.
- A discount may make a total zero: such an invoice charges nothing, and
  PaidIffSettled is stated for totals above zero.

## 6. Not modelled

- Body validation, response envelopes, formatting, logging, metrics, start-up: no
  domain state. Of the OpenAPI data only access and status codes are modelled;
  `schema-kit.ts`, descriptions and examples are documentation.
- Gateway signatures and JSON: pure conversion; the models start from a verified,
  readable event.
- Belts and the notification feed: rows edited one by one that nothing else decides on
  (the order of ranks is a constant of Exams and Promotions).
- Class schedules: rows with a check of their own times that no other operation reads.
- Revenue and tuition reports, the bank account, the settings page: reads, or one row.
- Personal data of profiles (updateOwn and the descriptive columns of update).
- Failed password counting (registerFailedAttempt) and the alert on a new address: what
  the lock should count under concurrency is stated nowhere in the repository.
- ExamsService.create: an insert with the next exam code, numbered as in `Tuition`.
- Seed and load scripts.

## 7. Plan

The safety and action properties of the passing runs are proved; what stays with TLC is
liveness. New operations of the service go into the module of their component, with a
property aimed at what may go wrong there, a mutant that breaks it, and the step of the
component's inductive invariant for the new action. The parts listed as partly modelled
in `PROJECT.json` are the places to extend: schedules of classes, the profile columns,
failed passwords, creation of exams.
