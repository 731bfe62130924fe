------------------------------- MODULE Routes -------------------------------
(***************************************************************************)
(* What the decorators of the controllers ask of a request, handler by     *)
(* handler, under the handler's name in the code: whether JwtAuthGuard     *)
(* runs, or the handler asks for the metrics token, the roles of the       *)
(* handler's own @Roles, and the status a success is answered with         *)
(* (@HttpCode, or else 201 for POST and 200 otherwise).                    *)
(***************************************************************************)

Admin == {"ADMIN"}
Staff == {"ADMIN", "INSTRUCTOR"}
Student == {"STUDENT"}
Parent == {"PARENT"}
Families == {"STUDENT", "PARENT"}
Payers == {"ADMIN", "STUDENT", "PARENT"}
Everyone == {"ADMIN", "INSTRUCTOR", "STUDENT", "PARENT"}

Open(ok) == [auth |-> "public", roles |-> {}, ok |-> ok]
Bearer(ok) == [auth |-> "jwt", roles |-> {}, ok |-> ok]
Only(roles, ok) == [auth |-> "jwt", roles |-> roles, ok |-> ok]
Scraped(ok) == [auth |-> "metrics", roles |-> {}, ok |-> ok]

-----------------------------------------------------------------------------
AnnouncementsController == [
    list |-> Bearer(200), create |-> Only(Staff, 201), update |-> Only(Staff, 200),
    remove |-> Only(Staff, 200)]

AttendanceController == [
    createSession |-> Only(Staff, 201), upsertRecords |-> Only(Staff, 200),
    listRecords |-> Only(Staff, 200), history |-> Bearer(200), summary |-> Bearer(200),
    monthlyReport |-> Only(Staff, 200)]

AdminUsersController == [
    list |-> Only(Admin, 200), create |-> Only(Admin, 201), update |-> Only(Admin, 200),
    deactivate |-> Only(Admin, 200), auditLog |-> Only(Admin, 200)]

AuthController == [
    register |-> Open(201), login |-> Open(200), refreshToken |-> Open(200),
    verifyEmail |-> Open(201), resendVerification |-> Open(200), forgotPassword |-> Open(200),
    resetPassword |-> Open(201), logout |-> Bearer(200), logoutAll |-> Bearer(200),
    sessions |-> Bearer(200), revokeSession |-> Bearer(200), me |-> Bearer(200),
    auditLog |-> Bearer(200), changePassword |-> Bearer(201),
    requestChangeEmail |-> Bearer(201), confirmChangeEmail |-> Open(201),
    deactivate |-> Bearer(200), deactivateViaDelete |-> Bearer(200),
    mfaLoginVerify |-> Open(200), mfaMethods |-> Bearer(200), totpEnable |-> Bearer(201),
    totpVerify |-> Bearer(201), totpValidate |-> Bearer(200), totpDisable |-> Bearer(201),
    recoveryCodes |-> Bearer(200)]

BeltsController == [
    list |-> Bearer(200), create |-> Only(Admin, 201), update |-> Only(Admin, 200)]

BeltReportsController == [distribution |-> Only(Staff, 200)]

BillingController == [
    list |-> Only(Payers, 200), getById |-> Bearer(200), create |-> Only(Admin, 201),
    generateMonthly |-> Only(Admin, 200), revenue |-> Only(Admin, 200),
    tuitionReport |-> Only(Admin, 200), getSettings |-> Only(Admin, 200),
    updateTuitionRates |-> Only(Admin, 200), updateBankAccount |-> Only(Admin, 200),
    listDiscounts |-> Only(Admin, 200), createDiscount |-> Only(Admin, 201),
    updateDiscount |-> Only(Admin, 200), deleteDiscount |-> Only(Admin, 200)]

PaymentsController == [
    createQrPayment |-> Only(Payers, 201), webhook |-> Open(200),
    confirmCash |-> Only(Admin, 200), setOutcome |-> Only(Admin, 200),
    listForInvoice |-> Only(Payers, 200)]

ClassesController == [
    list |-> Bearer(200), getById |-> Bearer(200), create |-> Only(Admin, 201),
    update |-> Only(Admin, 200), addSchedule |-> Only(Admin, 201),
    removeSchedule |-> Only(Admin, 200)]

EnrollmentsController == [
    create |-> Bearer(201), list |-> Bearer(200), remove |-> Bearer(200)]

ConsentController == [
    grant |-> Bearer(201), revoke |-> Bearer(200), history |-> Bearer(200)]

EvaluationsController == [
    create |-> Only(Staff, 201), listForStudent |-> Bearer(200), update |-> Only(Staff, 200),
    delete |-> Only(Staff, 200)]

ExamsController == [
    list |-> Bearer(200), getById |-> Bearer(200), create |-> Only(Admin, 201),
    update |-> Only(Admin, 200), register |-> Only(Families, 201),
    listStudentRegistrations |-> Bearer(200), recordResult |-> Only(Staff, 200)]

HealthController == [getLiveness |-> Open(200), getReadiness |-> Open(200)]

\* The handler itself compares the bearer token with METRICS_TOKEN.
MetricsController == [getMetrics |-> Scraped(200)]

VersionController == [getVersion |-> Open(200)]

LeavesController == [
    create |-> Only(Payers, 201), list |-> Only(Everyone, 200), review |-> Only(Staff, 200),
    cancel |-> Only(Payers, 200), delete |-> Only(Admin, 200)]

NotificationsController == [
    feed |-> Bearer(200), flush |-> Only(Admin, 200), markRead |-> Bearer(200)]

ParentsController == [
    linkChild |-> Bearer(201), myChildren |-> Bearer(200), unlink |-> Bearer(200)]

PromotionsController == [
    create |-> Only(Staff, 201), list |-> Only(Everyone, 200),
    updateNote |-> Only(Staff, 200), review |-> Only(Admin, 200)]

StudentsController == [
    me |-> Only(Student, 200), updateOwn |-> Only(Student, 200), list |-> Only(Staff, 200),
    create |-> Only(Admin, 201), getById |-> Bearer(200), update |-> Only(Admin, 200),
    softDelete |-> Only(Admin, 200), regenerateInviteCode |-> Only(Admin, 200)]

-----------------------------------------------------------------------------
Controllers == [
    announcements |-> AnnouncementsController, attendance |-> AttendanceController,
    adminUsers |-> AdminUsersController, auth |-> AuthController,
    belts |-> BeltsController, beltReports |-> BeltReportsController,
    billing |-> BillingController, payments |-> PaymentsController,
    classes |-> ClassesController, enrollments |-> EnrollmentsController,
    consent |-> ConsentController, evaluations |-> EvaluationsController,
    exams |-> ExamsController, health |-> HealthController, metrics |-> MetricsController,
    version |-> VersionController, leaves |-> LeavesController,
    notifications |-> NotificationsController, parents |-> ParentsController,
    promotions |-> PromotionsController, students |-> StudentsController]

\* Every route, as its controller and its handler.
Routes == UNION {{c} \X DOMAIN Controllers[c] : c \in DOMAIN Controllers}

\* Two controllers carry @Roles on the class.
ClassRoles(c) ==
    CASE c = "enrollments" -> Admin [] c = "parents" -> Parent [] OTHER -> {}

Guarded(rt) == Controllers[rt[1]][rt[2]]

=============================================================================
