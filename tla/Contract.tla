------------------------------ MODULE Contract ------------------------------
(***************************************************************************)
(* What the committed API contract promises for each route: how it is      *)
(* secured (the payment webhook, signed, counts as public: no caller is    *)
(* identified), for which roles, the status of a success (200 unless the   *)
(* entry says otherwise) and the catalog of error statuses.  The records   *)
(* have the shape of those of Routes; summaries, schemas and examples are  *)
(* left out.                                                               *)
(***************************************************************************)
EXTENDS Routes

Public(ok, errors) == [auth |-> "public", roles |-> {}, ok |-> ok, errors |-> errors]
Secured(ok, errors) == [auth |-> "jwt", roles |-> {}, ok |-> ok, errors |-> errors]
ForRoles(roles, ok, errors) ==
    [auth |-> "jwt", roles |-> roles, ok |-> ok, errors |-> errors]
Metrics(ok, errors) == [auth |-> "metrics", roles |-> {}, ok |-> ok, errors |-> errors]

\* The entries of two parts of a controller's contract.
Both(f, g) == [h \in DOMAIN f \cup DOMAIN g |-> IF h \in DOMAIN f THEN f[h] ELSE g[h]]

-----------------------------------------------------------------------------
AnnouncementsContract == [
    list |-> Secured(200, {401}), create |-> ForRoles(Staff, 201, {400, 401, 403, 404}),
    update |-> ForRoles(Staff, 200, {400, 401, 403, 404}),
    remove |-> ForRoles(Staff, 200, {400, 401, 403, 404})]

AttendanceContract == [
    createSession |-> ForRoles(Staff, 201, {400, 401, 403, 404, 409}),
    upsertRecords |-> ForRoles(Staff, 200, {400, 401, 403, 404}),
    listRecords |-> ForRoles(Staff, 200, {400, 401, 403, 404}),
    history |-> Secured(200, {400, 401, 404}), summary |-> Secured(200, {400, 401, 404}),
    monthlyReport |-> ForRoles(Staff, 200, {400, 401, 403})]

AdminUsersContract == [
    list |-> ForRoles(Admin, 200, {401, 403}),
    create |-> ForRoles(Admin, 201, {400, 401, 403, 409}),
    update |-> ForRoles(Admin, 200, {400, 401, 403, 404}),
    deactivate |-> ForRoles(Admin, 200, {400, 401, 403, 404}),
    auditLog |-> ForRoles(Admin, 200, {401, 403})]

RegistrationContract == [
    register |-> Public(201, {400, 429}), login |-> Public(200, {400, 401, 429}),
    refreshToken |-> Public(200, {400, 401, 429}),
    verifyEmail |-> Public(200, {400, 401, 429}),
    resendVerification |-> Public(200, {400, 429}),
    forgotPassword |-> Public(200, {400, 429}),
    resetPassword |-> Public(200, {400, 401, 429})]

SessionContract == [
    logout |-> Secured(200, {401, 429}),
    logoutAll |-> Secured(200, {401, 429}), sessions |-> Secured(200, {401}),
    revokeSession |-> Secured(200, {400, 401, 429}), me |-> Secured(200, {401}),
    auditLog |-> Secured(200, {401})]

AccountContract == [
    changePassword |-> Secured(200, {400, 401, 429}),
    requestChangeEmail |-> Secured(200, {400, 401, 409, 429}),
    confirmChangeEmail |-> Public(200, {400, 401, 409, 429}),
    deactivate |-> Secured(200, {400, 401, 429}),
    deactivateViaDelete |-> Secured(200, {400, 401, 429})]

MfaContract == [
    mfaLoginVerify |-> Public(200, {400, 401, 429}), mfaMethods |-> Secured(200, {401}),
    totpEnable |-> Secured(200, {401}), totpVerify |-> Secured(200, {400, 401}),
    totpValidate |-> Secured(200, {400, 401}), totpDisable |-> Secured(200, {400, 401}),
    recoveryCodes |-> Secured(200, {401})]

AuthContract ==
    Both(Both(RegistrationContract, SessionContract), Both(AccountContract, MfaContract))

BeltsContract == [
    list |-> Secured(200, {401}), create |-> ForRoles(Admin, 201, {400, 401, 403, 409}),
    update |-> ForRoles(Admin, 200, {400, 401, 403, 404, 409})]

BeltReportsContract == [distribution |-> ForRoles(Staff, 200, {401, 403})]

InvoiceContract == [
    list |-> ForRoles(Payers, 200, {400, 401, 403}),
    getById |-> Secured(200, {400, 401, 404}),
    create |-> ForRoles(Admin, 201, {400, 401, 403, 404}),
    generateMonthly |-> ForRoles(Admin, 200, {400, 401, 403}),
    revenue |-> ForRoles(Admin, 200, {400, 401, 403}),
    tuitionReport |-> ForRoles(Admin, 200, {400, 401, 403})]

SettingsContract == [
    getSettings |-> ForRoles(Admin, 200, {401, 403}),
    updateTuitionRates |-> ForRoles(Admin, 200, {400, 401, 403}),
    updateBankAccount |-> ForRoles(Admin, 200, {400, 401, 403}),
    listDiscounts |-> ForRoles(Admin, 200, {401, 403}),
    createDiscount |-> ForRoles(Admin, 201, {400, 401, 403, 409}),
    updateDiscount |-> ForRoles(Admin, 200, {400, 401, 403, 404}),
    deleteDiscount |-> ForRoles(Admin, 200, {400, 401, 403, 404})]

BillingContract == Both(InvoiceContract, SettingsContract)

PaymentsContract == [
    createQrPayment |-> ForRoles(Payers, 201, {400, 401, 403, 404, 409}),
    webhook |-> Public(200, {401, 404, 500}),
    confirmCash |-> ForRoles(Admin, 200, {400, 401, 403, 404, 409}),
    setOutcome |-> ForRoles(Admin, 200, {400, 401, 403, 404, 409}),
    listForInvoice |-> ForRoles(Payers, 200, {400, 401, 403, 404})]

ClassesContract == [
    list |-> Secured(200, {401}), getById |-> Secured(200, {400, 401, 404}),
    create |-> ForRoles(Admin, 201, {400, 401, 403, 404}),
    update |-> ForRoles(Admin, 200, {400, 401, 403, 404, 409}),
    addSchedule |-> ForRoles(Admin, 201, {400, 401, 403, 404}),
    removeSchedule |-> ForRoles(Admin, 200, {400, 401, 403, 404})]

EnrollmentsContract == [
    create |-> ForRoles(Admin, 201, {400, 401, 403, 404, 409}),
    list |-> ForRoles(Admin, 200, {401, 403}),
    remove |-> ForRoles(Admin, 200, {400, 401, 403, 404})]

ConsentContract == [
    grant |-> Secured(201, {400, 401, 404}), revoke |-> Secured(200, {400, 401, 404}),
    history |-> Secured(200, {401})]

EvaluationsContract == [
    create |-> ForRoles(Staff, 201, {400, 401, 403, 404, 409}),
    listForStudent |-> Secured(200, {400, 401, 404}),
    update |-> ForRoles(Staff, 200, {400, 401, 403, 404}),
    delete |-> ForRoles(Staff, 200, {400, 401, 403, 404})]

ExamsContract == [
    list |-> Secured(200, {401}), getById |-> Secured(200, {400, 401, 404}),
    create |-> ForRoles(Admin, 201, {400, 401, 403, 404, 409}),
    update |-> ForRoles(Admin, 200, {400, 401, 403, 404, 409}),
    register |-> ForRoles(Families, 201, {400, 401, 403, 404, 409}),
    listStudentRegistrations |-> Secured(200, {400, 401, 404}),
    recordResult |-> ForRoles(Staff, 200, {400, 401, 403, 404, 409})]

HealthContract == [
    getLiveness |-> Public(200, {}), getReadiness |-> Public(200, {503})]

MetricsContract == [getMetrics |-> Metrics(200, {401, 404})]

VersionContract == [getVersion |-> Public(200, {429})]

LeavesContract == [
    create |-> ForRoles(Payers, 201, {400, 401, 403, 404, 409}),
    list |-> ForRoles(Everyone, 200, {401, 403}),
    review |-> ForRoles(Staff, 200, {400, 401, 403, 404, 409}),
    cancel |-> ForRoles(Payers, 200, {400, 401, 403, 404, 409}),
    delete |-> ForRoles(Admin, 200, {400, 401, 403, 404})]

NotificationsContract == [
    feed |-> Secured(200, {401}), flush |-> ForRoles(Admin, 200, {401, 403}),
    markRead |-> Secured(200, {400, 401, 404})]

ParentsContract == [
    linkChild |-> ForRoles(Parent, 201, {400, 401, 403, 404, 409, 429}),
    myChildren |-> ForRoles(Parent, 200, {401, 403}),
    unlink |-> ForRoles(Parent, 200, {400, 401, 403, 404, 409})]

PromotionsContract == [
    create |-> ForRoles(Staff, 201, {400, 401, 403, 404, 409}),
    list |-> ForRoles(Everyone, 200, {401, 403}),
    updateNote |-> ForRoles(Staff, 200, {400, 401, 403, 404, 409}),
    review |-> ForRoles(Admin, 200, {400, 401, 403, 404, 409})]

StudentsContract == [
    me |-> ForRoles(Student, 200, {401, 403, 404}),
    updateOwn |-> ForRoles(Student, 200, {400, 401, 403, 404}),
    list |-> ForRoles(Staff, 200, {401, 403}),
    create |-> ForRoles(Admin, 201, {400, 401, 403, 404, 409}),
    getById |-> Secured(200, {400, 401, 404}),
    update |-> ForRoles(Admin, 200, {400, 401, 403, 404}),
    softDelete |-> ForRoles(Admin, 200, {400, 401, 403, 404}),
    regenerateInviteCode |-> ForRoles(Admin, 200, {400, 401, 403, 404})]

-----------------------------------------------------------------------------
CONTRACT == [
    announcements |-> AnnouncementsContract, attendance |-> AttendanceContract,
    adminUsers |-> AdminUsersContract, auth |-> AuthContract, belts |-> BeltsContract,
    beltReports |-> BeltReportsContract, billing |-> BillingContract,
    payments |-> PaymentsContract, classes |-> ClassesContract,
    enrollments |-> EnrollmentsContract, consent |-> ConsentContract,
    evaluations |-> EvaluationsContract, exams |-> ExamsContract,
    health |-> HealthContract, metrics |-> MetricsContract, version |-> VersionContract,
    leaves |-> LeavesContract, notifications |-> NotificationsContract,
    parents |-> ParentsContract, promotions |-> PromotionsContract,
    students |-> StudentsContract]

Documented(rt) == CONTRACT[rt[1]][rt[2]]

=============================================================================
