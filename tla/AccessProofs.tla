---------------------------- MODULE AccessProofs ----------------------------
(***************************************************************************)
(* Theorems about the guards, profiles and parents, the second factor and  *)
(* accounts, for any number of users, codes, tokens and requests.          *)
(***************************************************************************)
EXTENDS Access, TLAPS

-----------------------------------------------------------------------------
(* The whole and its parts                                                 *)

\* A step is, for each part, one of its own steps or none.
LEMMA PartsStep ==
    ASSUME [AccessNext]_accessVars
    PROVE  /\ [Next]_vars
           /\ [Household!Next]_Household!vars
           /\ [Factor!Next]_Factor!vars
           /\ [Registry!Next]_Registry!vars
<1> USE DEF Household!vars, Factor!vars, Registry!vars, familyVars, factorVars, registryVars
<1>1. CASE UNCHANGED accessVars
  BY <1>1 DEF accessVars
<1>2. CASE GateStep
  BY <1>2 DEF GateStep
<1>3. CASE FamilyStep
  BY <1>3 DEF FamilyStep
<1>4. CASE FactorStep
  BY <1>4 DEF FactorStep
<1>5. CASE RegistryStep
  BY <1>5 DEF RegistryStep
<1> QED
  BY <1>1, <1>2, <1>3, <1>4, <1>5 DEF AccessNext

\* The parts do not disturb each other: a behaviour of the whole is a behaviour of
\* the specification of each.
THEOREM AccessImplementsParts ==
    AccessSpec => Spec /\ Household!Spec /\ Factor!Spec /\ Registry!Spec
<1>1. AccessInit => Init /\ Household!Init /\ Factor!Init /\ Registry!Init
  BY DEF AccessInit
<1>2. [AccessNext]_accessVars =>
        /\ [Next]_vars /\ [Household!Next]_Household!vars
        /\ [Factor!Next]_Factor!vars /\ [Registry!Next]_Registry!vars
  BY PartsStep
<1> QED
  BY <1>1, <1>2, PTL DEF AccessSpec, Spec, Household!Spec, Factor!Spec, Registry!Spec

-----------------------------------------------------------------------------
(* The guards and the contract                                             *)

\* The guards of handler g, on a class with these roles, do what entry d of the
\* contract says of a caller.
Keeps(g, class, d) ==
    /\ g.auth \in {"public", "jwt", "metrics"} /\ g.auth = d.auth
    /\ (IF g.roles # {} THEN g.roles ELSE class) = d.roles
    /\ g.auth # "public" => 401 \in d.errors
    /\ g.auth = "metrics" => 404 \in d.errors
    /\ d.roles # {} => g.auth = "jwt" /\ 403 \in d.errors
    /\ g.ok \in {200, 201}

\* Each kind of decoration with the entry that goes with it.
LEMMA OpenKeeps ==
    ASSUME NEW ok \in {200, 201}, NEW doc, NEW errors
    PROVE  Keeps(Open(ok), {}, Public(doc, errors))
BY DEF Keeps, Open, Public

LEMMA BearerKeeps ==
    ASSUME NEW ok \in {200, 201}, NEW doc, NEW errors, 401 \in errors
    PROVE  Keeps(Bearer(ok), {}, Secured(doc, errors))
BY DEF Keeps, Bearer, Secured

LEMMA OnlyKeeps ==
    ASSUME NEW ok \in {200, 201}, NEW doc, NEW roles, NEW errors, roles # {},
           401 \in errors, 403 \in errors
    PROVE  Keeps(Only(roles, ok), {}, ForRoles(roles, doc, errors))
BY DEF Keeps, Only, ForRoles

\* @Roles of the class instead of the handler's own.
LEMMA ClassKeeps ==
    ASSUME NEW ok \in {200, 201}, NEW doc, NEW roles, NEW errors, roles # {},
           401 \in errors, 403 \in errors
    PROVE  Keeps(Bearer(ok), roles, ForRoles(roles, doc, errors))
BY DEF Keeps, Bearer, ForRoles

LEMMA ScrapedKeeps ==
    ASSUME NEW ok \in {200, 201}, NEW doc, NEW errors, 401 \in errors, 404 \in errors
    PROVE  Keeps(Scraped(ok), {}, Metrics(doc, errors))
BY DEF Keeps, Scraped, Metrics

\* No @Roles is empty.
LEMMA SomeRoles ==
    /\ Admin # {} /\ Staff # {} /\ Student # {} /\ Parent # {} /\ Families # {}
    /\ Payers # {} /\ Everyone # {}
BY DEF Admin, Staff, Student, Parent, Families, Payers, Everyone

\* Controller by controller, the decorators and the contract.
LEMMA AnnouncementsAgree ==
    \A h \in DOMAIN AnnouncementsController :
        Keeps(AnnouncementsController[h], {}, AnnouncementsContract[h])
BY BearerKeeps, OnlyKeeps, SomeRoles DEF AnnouncementsController, AnnouncementsContract

LEMMA AttendanceAgree ==
    \A h \in DOMAIN AttendanceController :
        Keeps(AttendanceController[h], {}, AttendanceContract[h])
BY BearerKeeps, OnlyKeeps, SomeRoles DEF AttendanceController, AttendanceContract

LEMMA AdminUsersAgree ==
    \A h \in DOMAIN AdminUsersController :
        Keeps(AdminUsersController[h], {}, AdminUsersContract[h])
BY OnlyKeeps, SomeRoles DEF AdminUsersController, AdminUsersContract

\* AuthController, by the parts of its contract.
LEMMA AuthPartsAgree ==
    /\ \A h \in DOMAIN RegistrationContract :
          Keeps(AuthController[h], {}, RegistrationContract[h])
    /\ \A h \in DOMAIN SessionContract : Keeps(AuthController[h], {}, SessionContract[h])
    /\ \A h \in DOMAIN AccountContract : Keeps(AuthController[h], {}, AccountContract[h])
    /\ \A h \in DOMAIN MfaContract : Keeps(AuthController[h], {}, MfaContract[h])
<1>1. \A h \in DOMAIN RegistrationContract :
         Keeps(AuthController[h], {}, RegistrationContract[h])
  BY OpenKeeps DEF AuthController, RegistrationContract
<1>2. \A h \in DOMAIN SessionContract : Keeps(AuthController[h], {}, SessionContract[h])
  BY BearerKeeps DEF AuthController, SessionContract
<1>3. \A h \in DOMAIN AccountContract : Keeps(AuthController[h], {}, AccountContract[h])
  BY OpenKeeps, BearerKeeps DEF AuthController, AccountContract
<1>4. \A h \in DOMAIN MfaContract : Keeps(AuthController[h], {}, MfaContract[h])
  BY OpenKeeps, BearerKeeps DEF AuthController, MfaContract
<1> QED BY <1>1, <1>2, <1>3, <1>4

LEMMA AuthAgree ==
    \A h \in DOMAIN AuthController : Keeps(AuthController[h], {}, AuthContract[h])
<1>1. DOMAIN AuthController =
        DOMAIN RegistrationContract \cup DOMAIN SessionContract \cup DOMAIN AccountContract
          \cup DOMAIN MfaContract
  BY DEF AuthController, RegistrationContract, SessionContract, AccountContract, MfaContract
<1>2. ASSUME NEW h \in DOMAIN AuthController
      PROVE  \/ h \in DOMAIN RegistrationContract /\ AuthContract[h] = RegistrationContract[h]
             \/ h \in DOMAIN SessionContract /\ AuthContract[h] = SessionContract[h]
             \/ h \in DOMAIN AccountContract /\ AuthContract[h] = AccountContract[h]
             \/ h \in DOMAIN MfaContract /\ AuthContract[h] = MfaContract[h]
  BY <1>1 DEF AuthContract, Both
<1> QED BY <1>2, AuthPartsAgree

LEMMA BeltsAgree ==
    \A h \in DOMAIN BeltsController : Keeps(BeltsController[h], {}, BeltsContract[h])
BY BearerKeeps, OnlyKeeps, SomeRoles DEF BeltsController, BeltsContract

LEMMA BeltReportsAgree ==
    \A h \in DOMAIN BeltReportsController :
        Keeps(BeltReportsController[h], {}, BeltReportsContract[h])
BY OnlyKeeps, SomeRoles DEF BeltReportsController, BeltReportsContract

LEMMA BillingAgree ==
    \A h \in DOMAIN BillingController :
        Keeps(BillingController[h], {}, BillingContract[h])
BY BearerKeeps, OnlyKeeps, SomeRoles
DEF BillingController, BillingContract, InvoiceContract, SettingsContract, Both

LEMMA PaymentsAgree ==
    \A h \in DOMAIN PaymentsController :
        Keeps(PaymentsController[h], {}, PaymentsContract[h])
BY OnlyKeeps, OpenKeeps, SomeRoles DEF PaymentsController, PaymentsContract

LEMMA ClassesAgree ==
    \A h \in DOMAIN ClassesController :
        Keeps(ClassesController[h], {}, ClassesContract[h])
BY BearerKeeps, OnlyKeeps, SomeRoles DEF ClassesController, ClassesContract

LEMMA EnrollmentsAgree ==
    \A h \in DOMAIN EnrollmentsController :
        Keeps(EnrollmentsController[h], Admin, EnrollmentsContract[h])
BY ClassKeeps, SomeRoles DEF EnrollmentsController, EnrollmentsContract

LEMMA ConsentAgree ==
    \A h \in DOMAIN ConsentController :
        Keeps(ConsentController[h], {}, ConsentContract[h])
BY BearerKeeps, SomeRoles DEF ConsentController, ConsentContract

LEMMA EvaluationsAgree ==
    \A h \in DOMAIN EvaluationsController :
        Keeps(EvaluationsController[h], {}, EvaluationsContract[h])
BY BearerKeeps, OnlyKeeps, SomeRoles DEF EvaluationsController, EvaluationsContract

LEMMA ExamsAgree ==
    \A h \in DOMAIN ExamsController : Keeps(ExamsController[h], {}, ExamsContract[h])
BY BearerKeeps, OnlyKeeps, SomeRoles DEF ExamsController, ExamsContract

LEMMA HealthAgree ==
    \A h \in DOMAIN HealthController :
        Keeps(HealthController[h], {}, HealthContract[h])
BY OpenKeeps, SomeRoles DEF HealthController, HealthContract

LEMMA MetricsAgree ==
    \A h \in DOMAIN MetricsController :
        Keeps(MetricsController[h], {}, MetricsContract[h])
BY ScrapedKeeps DEF MetricsController, MetricsContract

LEMMA VersionAgree ==
    \A h \in DOMAIN VersionController :
        Keeps(VersionController[h], {}, VersionContract[h])
BY OpenKeeps, SomeRoles DEF VersionController, VersionContract

LEMMA LeavesAgree ==
    \A h \in DOMAIN LeavesController :
        Keeps(LeavesController[h], {}, LeavesContract[h])
BY OnlyKeeps, SomeRoles DEF LeavesController, LeavesContract

LEMMA NotificationsAgree ==
    \A h \in DOMAIN NotificationsController :
        Keeps(NotificationsController[h], {}, NotificationsContract[h])
BY BearerKeeps, OnlyKeeps, SomeRoles DEF NotificationsController, NotificationsContract

LEMMA ParentsAgree ==
    \A h \in DOMAIN ParentsController :
        Keeps(ParentsController[h], Parent, ParentsContract[h])
BY ClassKeeps, SomeRoles DEF ParentsController, ParentsContract

LEMMA PromotionsAgree ==
    \A h \in DOMAIN PromotionsController :
        Keeps(PromotionsController[h], {}, PromotionsContract[h])
BY OnlyKeeps, SomeRoles DEF PromotionsController, PromotionsContract

LEMMA StudentsAgree ==
    \A h \in DOMAIN StudentsController :
        Keeps(StudentsController[h], {}, StudentsContract[h])
BY BearerKeeps, OnlyKeeps, SomeRoles DEF StudentsController, StudentsContract

\* What the guards of a route do is what is documented.
Obeyed(rt) ==
    LET d == Documented(rt) IN
    /\ Guarded(rt).auth \in {"public", "jwt", "metrics"} /\ Guarded(rt).auth = d.auth
    /\ RequiredRoles(rt) = d.roles
    /\ Guarded(rt).auth # "public" => 401 \in d.errors
    /\ Guarded(rt).auth = "metrics" => 404 \in d.errors
    /\ d.roles # {} => Guarded(rt).auth = "jwt" /\ 403 \in d.errors
    /\ Guarded(rt).ok \in {200, 201}

\* So it is for all the routes of the program.
LEMMA RoutesAgree == \A rt \in Routes : Obeyed(rt)
<1> SUFFICES ASSUME NEW c \in DOMAIN Controllers, NEW h \in DOMAIN Controllers[c]
             PROVE  Obeyed(<<c, h>>)
  BY DEF Routes
<1>1. Keeps(Controllers[c][h], ClassRoles(c), CONTRACT[c][h])
  BY AnnouncementsAgree, AttendanceAgree, AdminUsersAgree, AuthAgree, BeltsAgree,
     BeltReportsAgree, BillingAgree, PaymentsAgree, ClassesAgree, EnrollmentsAgree,
     ConsentAgree, EvaluationsAgree, ExamsAgree, HealthAgree, MetricsAgree, VersionAgree,
     LeavesAgree, NotificationsAgree, ParentsAgree, PromotionsAgree, StudentsAgree
  DEF Controllers, CONTRACT, ClassRoles
<1> QED
  BY <1>1 DEF Obeyed, Keeps, Guarded, Documented, RequiredRoles

\* Where a request in flight stands: behind JwtAuthGuard or the metrics token its
\* caller is known, and in front of them or on a public route is not; a handler
\* runs for a caller whom RolesGuard let pass; an answer is a throttle's, a
\* guard's or the handler's.
Progress(q) ==
    LET g == Guarded(q.route)
        required == RequiredRoles(q.route)
    IN  /\ q.pc # "IDLE" => q.route \in Routes
        /\ q.pc \in {"IDLE", "AUTH_IP"} => q.role = None
        /\ q.pc = "JWT" => g.auth = "jwt" /\ q.role = None
        /\ q.pc = "METRICS" => g.auth = "metrics" /\ q.role = None
        /\ q.pc = "ROLES" => g.auth = "jwt" /\ q.role \in Everyone
        /\ q.pc = "HANDLER" =>
             /\ g.auth = "public" => q.role = None
             /\ g.auth = "metrics" => q.role = "SCRAPER"
             /\ g.auth = "jwt" => q.role \in Everyone
             /\ g.auth = "jwt" /\ required # {} =>
                  q.role \in required /\ (q.role = "ADMIN" => q.mfa)
        /\ q.pc = "DONE" =>
             \/ q.status = 429
             \/ q.status = 401 /\ g.auth # "public" /\ q.role = None
             \/ q.status = 404 /\ g.auth = "metrics" /\ q.role = None
             \/ /\ q.status = 403 /\ g.auth = "jwt" /\ required # {}
                /\ q.role \notin required \/ q.role = "ADMIN"
             \/ q.status = g.ok

RequestRecord == [
    pc : {"IDLE", "AUTH_IP", "JWT", "METRICS", "ROLES", "HANDLER", "DONE"},
    route : Routes \cup {None}, role : Everyone \cup {None, "SCRAPER"}, mfa : BOOLEAN, status : Int]

GateTypes ==
    /\ account \in [role : Everyone, active : BOOLEAN, mfa : BOOLEAN]
    /\ request \in [Requests -> RequestRecord]

GateInv == GateTypes /\ \A r \in Requests : Progress(request[r])

\* A route's status of success is a number.
LEMMA GuardedTypes ==
    ASSUME NEW rt \in Routes
    PROVE  Guarded(rt).auth \in {"public", "jwt", "metrics"} /\ Guarded(rt).ok \in Int
BY RoutesAgree DEF Obeyed

\* Every step of the gate keeps the invariant.
LEMMA GateInvStep ==
    ASSUME GateInv, [Next]_vars
    PROVE  GateInv'
<1> USE DEF GateInv
<1>0. SUFFICES ASSUME Next PROVE GateInv'
  BY DEF vars, GateTypes
<1>1. ASSUME NEW r \in Requests, NEW rt \in Routes, Arrive(r, rt) PROVE GateInv'
  <2>1. GateTypes'
    BY <1>1, GuardedTypes DEF Arrive, AfterThrottles, GateTypes, RequestRecord
  <2>2. Progress(request'[r])
    BY <1>1, GuardedTypes DEF Arrive, AfterThrottles, GateTypes, RequestRecord, Progress
  <2> QED
    BY <1>1, <2>1, <2>2 DEF Arrive, GateTypes
<1>2. ASSUME NEW r \in Requests, CountAuthRequest(r) PROVE GateInv'
  <2>1. request[r].route \in Routes /\ Progress(request[r])
    BY <1>2 DEF CountAuthRequest, At, Progress
  <2>2. GateTypes'
    BY <1>2, <2>1, GuardedTypes
    DEF CountAuthRequest, Answer, Goto, AfterThrottles, GateTypes, RequestRecord
  <2>3. Progress(request'[r])
    BY <1>2, <2>1, GuardedTypes
    DEF CountAuthRequest, At, Answer, Goto, AfterThrottles, GateTypes, RequestRecord, Progress
  <2> QED
    BY <1>2, <2>2, <2>3 DEF CountAuthRequest, Answer, Goto, GateTypes
<1>3. ASSUME NEW r \in Requests, NEW good \in BOOLEAN, Authenticate(r, good) PROVE GateInv'
  <2>1. GateTypes'
    BY <1>3 DEF Authenticate, Answer, GateTypes, RequestRecord
  <2>2. Progress(request'[r])
    BY <1>3 DEF Authenticate, At, Answer, GateTypes, RequestRecord, Progress
  <2> QED
    BY <1>3, <2>1, <2>2 DEF Authenticate, Answer, GateTypes
<1>9. ASSUME NEW r \in Requests, NEW configured \in BOOLEAN, NEW good \in BOOLEAN,
             CheckMetricsToken(r, configured, good)
      PROVE  GateInv'
  <2>1. \/ request' = [request EXCEPT ![r].pc = "HANDLER", ![r].role = "SCRAPER"]
        \/ Answer(r, 401)
        \/ Answer(r, 404)
    BY <1>9 DEF CheckMetricsToken
  <2>2. GateTypes'
    BY <1>9, <2>1 DEF CheckMetricsToken, Answer, GateTypes, RequestRecord
  <2>3. Progress(request'[r])
    BY <1>9, <2>1 DEF CheckMetricsToken, At, Answer, GateTypes, RequestRecord, Progress
  <2> QED
    BY <1>9, <2>1, <2>2, <2>3 DEF CheckMetricsToken, Answer, GateTypes
<1>4. ASSUME NEW r \in Requests, CheckRoles(r) PROVE GateInv'
  <2>1. GateTypes'
    BY <1>4 DEF CheckRoles, Answer, GateTypes, RequestRecord
  <2>2. Progress(request'[r])
    BY <1>4 DEF CheckRoles, At, Answer, GateTypes, RequestRecord, Progress
  <2> QED
    BY <1>4, <2>1, <2>2 DEF CheckRoles, Answer, GateTypes
<1>5. ASSUME NEW r \in Requests, Succeed(r) PROVE GateInv'
  <2>1. request[r].route \in Routes
    BY <1>5 DEF Succeed, At, Progress
  <2> DEFINE ok == Guarded(request[r].route).ok
  <2>2. GateTypes'
    <3>1. ok \in Int
      BY <2>1, GuardedTypes
    <3>2. account' = account
          /\ request' = [request EXCEPT ![r].pc = "DONE", ![r].status = ok]
      BY <1>5 DEF Succeed, Answer
    <3> HIDE DEF ok
    <3> QED
      BY <3>1, <3>2 DEF GateTypes, RequestRecord
  <2>3. Progress(request'[r])
    BY <1>5, <2>1 DEF Succeed, At, Answer, GateTypes, RequestRecord, Progress
  <2> QED
    BY <1>5, <2>2, <2>3 DEF Succeed, Answer, GateTypes
<1>6. ASSUME NEW r \in Requests, Leave(r) PROVE GateInv'
  <2>1. GateTypes'
    BY <1>6 DEF Leave, Idle, GateTypes, RequestRecord
  <2>2. Progress(request'[r])
    BY <1>6 DEF Leave, Idle, GateTypes, Progress
  <2> QED
    BY <1>6, <2>1, <2>2 DEF Leave, GateTypes
<1>7. CASE WindowCloses \/ AuthWindowCloses
  BY <1>7 DEF WindowCloses, AuthWindowCloses, GateTypes
<1>8. ASSUME NEW a \in [role : Everyone, active : BOOLEAN, mfa : BOOLEAN], ChangeAccount(a)
      PROVE  GateInv'
  BY <1>8 DEF ChangeAccount, GateTypes
<1> QED
  BY <1>0, <1>1, <1>2, <1>3, <1>4, <1>5, <1>6, <1>7, <1>8, <1>9 DEF Next

\* The invariant in every state, with all parts at work.
LEMMA GateAlways == AccessSpec => []GateInv
<1>1. AccessInit => GateInv
  <2> SUFFICES ASSUME Init PROVE GateInv
    BY DEF AccessInit
  <2>1. GateTypes
    <3>1. Idle \in RequestRecord
      BY DEF Idle, RequestRecord
    <3>2. account \in [role : Everyone, active : BOOLEAN, mfa : BOOLEAN]
      BY DEF Init
    <3> QED
      BY <3>1, <3>2 DEF Init, GateTypes
  <2>2. \A r \in Requests : request[r].pc = "IDLE" /\ request[r].role = None
    BY DEF Init, Idle
  <2> QED
    BY <2>1, <2>2 DEF GateInv, Progress
<1>2. GateInv /\ [AccessNext]_accessVars => GateInv'
  BY PartsStep, GateInvStep
<1> QED
  BY <1>1, <1>2, PTL DEF AccessSpec

\* JwtAuthGuard, RolesGuard and the token of the metrics route, on every route of
\* the 21 controllers and while accounts change under the requests, let through
\* the callers contract.ts documents for the route, and refuse the others with a
\* status of its catalog.  (Of the throttles' 429 and of a success it says nothing.)
THEOREM GuardsAlwaysKeepContract == AccessSpec => []GuardsKeepContract
<1>1. GateInv => GuardsKeepContract
  <2> SUFFICES ASSUME GateInv, NEW r \in Requests
               PROVE  GuardsKeepContract!(r)
    BY DEF GuardsKeepContract
  <2>1. CASE request[r].pc \in {"HANDLER", "DONE"}
    <3>1. request[r].route \in Routes /\ Obeyed(request[r].route)
      BY <2>1, RoutesAgree DEF GateInv, Progress
    <3>2. CASE request[r].pc = "HANDLER"
      <4>1. /\ Guarded(request[r].route).auth = Documented(request[r].route).auth
            /\ Documented(request[r].route).roles # {} =>
                  Guarded(request[r].route).auth = "jwt"
            /\ RequiredRoles(request[r].route) = Documented(request[r].route).roles
            /\ Guarded(request[r].route).auth \in {"public", "jwt", "metrics"}
        BY <3>1 DEF Obeyed
      <4>2. "SCRAPER" \notin Everyone
        BY DEF Everyone
      <4> QED
        BY <3>2, <4>1, <4>2, CallersAssumption DEF GateInv, Progress
    <3>3. CASE request[r].pc = "DONE"
      BY <3>1, <3>3, CallersAssumption DEF GateInv, Progress, Obeyed
    <3> QED
      BY <2>1, <3>2, <3>3
  <2>2. CASE request[r].pc \notin {"HANDLER", "DONE"}
    BY <2>2
  <2> QED
    BY <2>1, <2>2
<1> QED
  BY <1>1, GateAlways, PTL

-----------------------------------------------------------------------------
(* Profiles, invite codes and links                                        *)

\* An operation in flight works on a profile that exists, with a code.
FamilyOps ==
    /\ op = [x \in Calls |-> op[x]]
    /\ \A x \in Calls :
          /\ op[x].kind \in {"CREATE", "REGENERATE", "LINK"} => op[x].code \in Codes
          /\ op[x].kind = "LINK" => op[x].parent \in Parents
          /\ op[x].kind = "CREATE" => op[x].user \in Accounts \cup {None}
          /\ op[x].kind \in {"REGENERATE", "LINK"} =>
                op[x].row \in Profiles /\ profile[op[x].row].state # "ABSENT"

\* A profile has a code exactly if it exists, nobody else has that code, and it is
\* none of the codes that were replaced.
CodesUnique ==
    /\ profile = [s \in Profiles |-> profile[s]]
    /\ retired \subseteq Codes
    /\ \A s \in Profiles :
          /\ profile[s].state # "ABSENT" => profile[s].code \in Codes \ retired
          /\ profile[s].state = "ABSENT" => profile[s] = Household!NoProfile
    /\ \A s, q \in Profiles :
          (profile[s].code = profile[q].code /\ profile[s].code # None) => s = q

\* A link was made with a code that has been replaced since, and with which no
\* other link was made.
LinksMade ==
    /\ \A x \in links : \E p \in Parents, s \in Profiles, code \in retired :
          x = <<p, s, code>> /\ profile[s].state # "ABSENT"
    /\ \A x, y \in links : x[3] = y[3] => x = y

FamilyInv == FamilyOps /\ CodesUnique /\ LinksMade

\* The operations that leave profiles, links and codes alone.
LEMMA FamilyReads ==
    ASSUME FamilyInv, UNCHANGED <<profile, links, retired>>, FamilyOps'
    PROVE  FamilyInv'
BY DEF FamilyInv, CodesUnique, LinksMade

\* Storing a code nobody has and nobody had, on a profile that exists, keeps the
\* codes unique; the old one joins those that were replaced.
LEMMA Replace ==
    ASSUME FamilyInv, NEW s \in Profiles, profile[s].state # "ABSENT",
           NEW code \in Codes, Household!Fresh(code), ~Household!InUse(code),
           profile' = [profile EXCEPT ![s] = Household!With(s, profile[s].state, code)],
           retired' = retired \cup {profile[s].code}
    PROVE  CodesUnique'
<1> USE DEF FamilyInv, CodesUnique, Household!Fresh, Household!InUse, Household!With
<1>1. profile'[s] = [state |-> profile[s].state, user |-> profile[s].user, code |-> code]
  OBVIOUS
<1>2. \A q \in Profiles : q # s => profile'[q] = profile[q]
  OBVIOUS
<1>3. profile[s].code \in Codes /\ profile[s].code # code
  OBVIOUS
<1>4. \A q \in Profiles : (q # s /\ profile[q].state # "ABSENT") => profile[q].code # profile[s].code
  BY <1>3, RolesAssumption
<1> QED
  BY <1>1, <1>2, <1>3, <1>4, RolesAssumption DEF Household!NoProfile

\* Every operation of StudentsService and ParentsService keeps the invariant.
LEMMA FamilyInvStep == FamilyInv /\ [Household!Next]_Household!vars => FamilyInv'
<1> SUFFICES ASSUME FamilyInv, [Household!Next]_Household!vars PROVE FamilyInv'
  OBVIOUS
<1>1. CASE UNCHANGED Household!vars
  <2>1. FamilyOps'
    BY <1>1 DEF FamilyInv, FamilyOps, Household!vars
  <2> QED
    BY <1>1, <2>1, FamilyReads DEF Household!vars
<1>2. ASSUME NEW a \in Calls, NEW user \in Accounts \cup {None}, NEW code \in Codes,
             Household!CheckProfile(a, user, code)
      PROVE  FamilyInv'
  <2>1. FamilyOps'
    BY <1>2 DEF FamilyInv, FamilyOps, Household!CheckProfile
  <2> QED
    BY <1>2, <2>1, FamilyReads DEF Household!CheckProfile
<1>3. ASSUME NEW a \in Calls, NEW s \in Profiles, Household!InsertProfile(a, s)
      PROVE  FamilyInv'
  <2>1. CASE profile' = profile
    <3>1. FamilyOps'
      BY <1>3, <2>1 DEF FamilyInv, FamilyOps, Household!InsertProfile, Household!Idle
    <3> QED
      BY <1>3, <2>1, <3>1, FamilyReads DEF Household!InsertProfile
  <2>2. CASE /\ ~Household!InUse(op[a].code)
             /\ profile' = [profile EXCEPT ![s] = [state |-> "ACTIVE", user |-> op[a].user,
                                                    code |-> op[a].code]]
    <3>1. /\ op[a].code \in Codes \ retired
          /\ profile[s].state = "ABSENT"
          /\ UNCHANGED <<links, retired>>
          /\ op' = [op EXCEPT ![a] = Household!Idle]
      BY <1>3 DEF FamilyInv, FamilyOps, Household!InsertProfile, Household!Fresh
    <3>2. FamilyOps'
      BY <2>2, <3>1 DEF FamilyInv, FamilyOps, CodesUnique, Household!Idle
    <3>3. CodesUnique'
      BY <2>2, <3>1, RolesAssumption
      DEF FamilyInv, CodesUnique, Household!InUse, Household!NoProfile
    <3>4. LinksMade'
      BY <2>2, <3>1 DEF FamilyInv, CodesUnique, LinksMade
    <3> QED
      BY <3>2, <3>3, <3>4 DEF FamilyInv
  <2> QED
    BY <1>3, <2>1, <2>2 DEF Household!InsertProfile
<1>4. ASSUME NEW s \in Profiles, NEW status_ \in {"ACTIVE", "PENDING", "DELETED"},
             Household!Live(s),
             profile' = [profile EXCEPT ![s] = Household!With(s, status_, profile[s].code)],
             UNCHANGED <<links, retired>>, FamilyOps'
      PROVE  FamilyInv'
  <2>1. profile'[s] = [state |-> status_, user |-> profile[s].user, code |-> profile[s].code]
        /\ status_ # "ABSENT" /\ profile[s].state # "ABSENT"
    BY <1>4 DEF Household!Live, Household!With, FamilyInv, CodesUnique
  <2>2. \A q \in Profiles : q # s => profile'[q] = profile[q]
    BY <1>4 DEF FamilyInv, CodesUnique
  <2>3. profile' = [q \in Profiles |-> profile'[q]]
    BY <1>4 DEF FamilyInv, CodesUnique
  <2>4. CodesUnique'
    BY <1>4, <2>1, <2>2, <2>3 DEF FamilyInv, CodesUnique
  <2>5. LinksMade'
    BY <1>4, <2>1, <2>2 DEF FamilyInv, LinksMade
  <2> QED
    BY <1>4, <2>4, <2>5 DEF FamilyInv
<1>5. ASSUME NEW s \in Profiles, Household!SoftDelete(s)
      PROVE  FamilyInv'
  <2>1. FamilyOps'
    BY <1>5
    DEF FamilyInv, FamilyOps, CodesUnique, Household!SoftDelete, Household!With
  <2> QED
    BY <1>4, <1>5, <2>1 DEF Household!SoftDelete
<1>6. ASSUME NEW s \in Profiles, NEW new \in {"ACTIVE", "PENDING"}, Household!UpdateStatus(s, new)
      PROVE  FamilyInv'
  <2>1. FamilyOps'
    BY <1>6
    DEF FamilyInv, FamilyOps, CodesUnique, Household!UpdateStatus, Household!With
  <2> QED
    BY <1>4, <1>6, <2>1 DEF Household!UpdateStatus
<1>8. ASSUME NEW a \in Calls, NEW s \in Profiles, NEW code \in Codes,
             Household!CheckRegenerate(a, s, code)
      PROVE  FamilyInv'
  <2>1. FamilyOps'
    BY <1>8 DEF FamilyInv, FamilyOps, Household!CheckRegenerate, Household!Live
  <2> QED
    BY <1>8, <2>1, FamilyReads DEF Household!CheckRegenerate
<1>9. ASSUME NEW a \in Calls, Household!WriteCode(a)
      PROVE  FamilyInv'
  <2>1. /\ op[a].row \in Profiles /\ profile[op[a].row].state # "ABSENT"
        /\ op[a].code \in Codes
        /\ op' = [op EXCEPT ![a] = Household!Idle]
        /\ links' = links
    BY <1>9 DEF FamilyInv, FamilyOps, Household!WriteCode
  <2>2. CASE UNCHANGED <<profile, retired>>
    <3>1. FamilyOps'
      BY <2>1, <2>2 DEF FamilyInv, FamilyOps, Household!Idle
    <3> QED
      BY <2>1, <2>2, <3>1, FamilyReads
  <2>3. CASE ~Household!InUse(op[a].code)
    <3>1. /\ profile' = [profile EXCEPT ![op[a].row] =
                            Household!With(op[a].row, profile[op[a].row].state, op[a].code)]
          /\ retired' = retired \cup {profile[op[a].row].code}
          /\ Household!Fresh(op[a].code)
      BY <1>9, <2>3 DEF Household!WriteCode
    <3>2. CodesUnique'
      BY <2>1, <2>3, <3>1, Replace
    <3>3. \A q \in Profiles : profile'[q].state = profile[q].state
      BY <2>1, <3>1 DEF FamilyInv, CodesUnique, Household!With
    <3>4. FamilyOps'
      BY <2>1, <3>3 DEF FamilyInv, FamilyOps, Household!Idle
    <3>5. LinksMade'
      BY <2>1, <3>1, <3>3 DEF FamilyInv, LinksMade
    <3> QED
      BY <3>2, <3>4, <3>5 DEF FamilyInv
  <2> QED
    BY <1>9, <2>2, <2>3 DEF Household!WriteCode
<1>10. ASSUME NEW a \in Calls, NEW p \in Parents, NEW s \in Profiles, Household!CheckLink(a, p, s)
       PROVE  FamilyInv'
  <2>1. profile[s].state # "ABSENT" /\ profile[s].code \in Codes
    BY <1>10 DEF Household!CheckLink, Household!Live, FamilyInv, CodesUnique
  <2>2. FamilyOps'
    BY <1>10, <2>1 DEF FamilyInv, FamilyOps, Household!CheckLink
  <2> QED
    BY <1>10, <2>2, FamilyReads DEF Household!CheckLink
<1>11. ASSUME NEW a \in Calls, NEW code \in Codes, Household!Link(a, code)
       PROVE  FamilyInv'
  <2> DEFINE s == op[a].row
  <2>1. /\ s \in Profiles /\ profile[s].state # "ABSENT"
        /\ profile[s].code = op[a].code
        /\ op[a].code \in Codes \ retired
        /\ op[a].parent \in Parents
    BY <1>11 DEF FamilyInv, FamilyOps, CodesUnique, Household!Link, Household!Claims
  <2>2. /\ profile' = [profile EXCEPT ![s] = Household!With(s, profile[s].state, code)]
        /\ retired' = retired \cup {profile[s].code}
        /\ links' = links \cup {<<op[a].parent, s, op[a].code>>}
        /\ op' = [op EXCEPT ![a] = Household!Idle]
        /\ Household!Fresh(code) /\ ~Household!InUse(code)
    BY <1>11 DEF Household!Link
  <2>3. CodesUnique'
    BY <2>1, <2>2, Replace
  <2>4. \A q \in Profiles : profile'[q].state = profile[q].state
    BY <2>1, <2>2 DEF FamilyInv, CodesUnique, Household!With
  <2>5. FamilyOps'
    BY <2>2, <2>4 DEF FamilyInv, FamilyOps, Household!Idle
  <2>6. \A x \in links : x[3] \in retired
    BY DEF FamilyInv, LinksMade
  <2>7. LinksMade'
    BY <2>1, <2>2, <2>4, <2>6 DEF FamilyInv, LinksMade
  <2> QED
    BY <2>3, <2>5, <2>7 DEF FamilyInv
<1>12. ASSUME NEW a \in Calls, Household!LinkFails(a)
       PROVE  FamilyInv'
  <2>1. FamilyOps'
    BY <1>12 DEF FamilyInv, FamilyOps, Household!LinkFails, Household!Idle
  <2> QED
    BY <1>12, <2>1, FamilyReads DEF Household!LinkFails
<1>13. ASSUME NEW s \in Profiles, NEW c \in Classes, Household!ChangeEnrolment(s, c)
       PROVE  FamilyInv'
  BY <1>13, FamilyReads DEF FamilyInv, FamilyOps, Household!ChangeEnrolment
<1> QED
  BY <1>1, <1>2, <1>3, <1>5, <1>6, <1>8, <1>9, <1>10, <1>11, <1>12, <1>13
  DEF Household!Next

\* The invariant in every state, with all parts at work.
LEMMA FamilyAlways == AccessSpec => []FamilyInv
<1>1. AccessInit => FamilyInv
  BY DEF AccessInit, Household!Init, Household!Idle, Household!NoProfile, FamilyInv, FamilyOps,
         CodesUnique, LinksMade
<1>2. FamilyInv /\ [AccessNext]_accessVars => FamilyInv'
  BY PartsStep, FamilyInvStep
<1> QED
  BY <1>1, <1>2, PTL DEF AccessSpec

\* linkChild: of all the calls of parents and administrators that race, an invite
\* code makes one link (parents.service.ts, claimRotation).
THEOREM CodesMakeOneLink == AccessSpec => []LinksSpendCodes
<1>1. FamilyInv => LinksSpendCodes
  <2> SUFFICES ASSUME FamilyInv, NEW x \in links PROVE ~Household!InUse(x[3])
    BY DEF LinksSpendCodes, Household!LinksSpendCodes, FamilyInv, LinksMade
  <2>1. x[3] \in retired /\ x[3] \in Codes
    BY DEF FamilyInv, LinksMade, CodesUnique
  <2> QED
    BY <2>1, RolesAssumption
    DEF FamilyInv, CodesUnique, Household!InUse, Household!NoProfile
<1> QED
  BY <1>1, FamilyAlways, PTL

\* canAccess and the scopes of the lists open the same students to each role, but
\* for the deleted ones in lists of administrators and instructors
\* (student-ownership.service.ts), and the invoice list the invoices its guard
\* opens (billing.service.ts).
THEOREM ScopesAlwaysAgree == AccessSpec => []ScopesAgree
<1>1. FamilyInv => ScopesAgree
  <2> SUFFICES ASSUME FamilyInv, NEW u \in Household!Callers, NEW s \in Profiles
               PROVE  Household!ScopesAgree!(u, s)
    BY DEF ScopesAgree, Household!ScopesAgree
  <2> USE DEF Household!Live, Household!CanAccess
  <2>1. \A p \in Parents : Household!Linked(p, s) => profile[s].state # "ABSENT"
    BY DEF FamilyInv, LinksMade, Household!Linked
  <2>2. \A q \in Accounts : profile[s].user = q => profile[s].state # "ABSENT"
    BY RolesAssumption DEF FamilyInv, CodesUnique, Household!NoProfile
  <2>3. s \in Household!VisibleStudentIds(u) <=>
           \/ Household!CanAccess(u, s)
           \/ ~Household!Live(s) /\ (u \in Admins \/ (u \in Teachers /\ Household!Taught(u, s)))
    BY DEF Household!VisibleStudentIds
  <2>4. u \in Admins \cup Teachers => (s \in Household!Directory(u) <=> Household!CanAccess(u, s))
    BY RolesAssumption DEF Household!Directory
  <2>5. u \in Parents => (s \in Household!MyChildren(u) <=> Household!CanAccess(u, s))
    BY <2>1, RolesAssumption DEF Household!MyChildren
  <2>6. u \in Accounts => (s \in Household!MyProfile(u) <=> Household!CanAccess(u, s))
    BY <2>2, RolesAssumption DEF Household!MyProfile
  <2>7. s \in Household!InvoiceScope(u) <=> Household!InvoiceAccess(u, s)
    BY RolesAssumption
    DEF Household!InvoiceScope, Household!InvoiceAccess, Household!MyProfile
  <2> QED
    BY <2>3, <2>4, <2>5, <2>6, <2>7
<1> QED
  BY <1>1, FamilyAlways, PTL

-----------------------------------------------------------------------------
(* The second factor                                                       *)

\* A code accepted and still in the authenticator's window is held by the replay
\* guard until the window has gone by.
CodesGuarded ==
    /\ now \in Nat
    /\ repeated = {}
    /\ \A code \in accepted :
          /\ code[2] \in Int
          /\ code[2] >= now - 1
          /\ \E g \in guarded : g[1] = code /\ g[2] \in Int /\ g[2] > code[2] + 1

\* The failure bucket as a record, with its bound.
BucketInv == bucket \in [n : 0..MaxFailures, until : Int]

FactorInv == CodesGuarded /\ BucketInv

\* verifyCode accepts: the code was not accepted before, for the guard would have
\* known it, and the guard it gets outlives the window.
LEMMA AcceptStep ==
    ASSUME CodesGuarded, NEW secret, NEW code \in Factor!TotpCodes,
           Factor!Accepts(secret, code), now' = now
    PROVE  CodesGuarded' /\ BucketInv'
<1> USE DEF Factor!Accepts
<1>1. BucketInv'
  BY GuardAssumption DEF BucketInv, Factor!NoFailures
<1>2. /\ now \in Nat /\ code[2] \in Int
      /\ code[2] >= now - 1 /\ code[2] <= now + 1
  BY GuardAssumption DEF CodesGuarded, Factor!InWindow, Factor!TotpCodes
<1>3. code \notin accepted
  <2> SUFFICES ASSUME code \in accepted PROVE FALSE
    OBVIOUS
  <2>1. PICK g \in guarded : g[1] = code /\ g[2] \in Int /\ g[2] > code[2] + 1
    BY DEF CodesGuarded
  <2>2. now < g[2]
    BY <1>2, <2>1
  <2> QED
    BY <2>1, <2>2 DEF Factor!Replayed
<1>4. repeated' = {}
  BY <1>3 DEF CodesGuarded
<1>5. ASSUME NEW c \in accepted'
      PROVE  /\ c[2] \in Int /\ c[2] >= now - 1
             /\ \E g \in guarded' : g[1] = c /\ g[2] \in Int /\ g[2] > c[2] + 1
  <2>1. CASE c = code
    <3> DEFINE g == Factor!Guard(code)
    <3>1. g \in guarded' /\ g[1] = code /\ g[2] = now + GuardTtl
      BY DEF Factor!Guard
    <3>2. g[2] \in Int /\ g[2] > code[2] + 1
      BY <1>2, <3>1, GuardAssumption
    <3> HIDE DEF g
    <3> QED
      BY <1>2, <2>1, <3>1, <3>2
  <2>2. CASE c # code
    <3>1. c \in accepted
      BY <2>2
    <3>2. PICK g \in guarded : g[1] = c /\ g[2] \in Int /\ g[2] > c[2] + 1
      BY <3>1 DEF CodesGuarded
    <3>3. c[2] \in Int /\ c[2] >= now - 1
      BY <3>1 DEF CodesGuarded
    <3>4. now < g[2]
      BY <1>2, <3>2, <3>3
    <3> QED
      BY <2>2, <3>2, <3>3, <3>4
  <2> QED
    BY <2>1, <2>2
<1> QED
  BY <1>1, <1>2, <1>4, <1>5 DEF CodesGuarded

\* A failure is counted only below the limit.
LEMMA FailStep ==
    ASSUME CodesGuarded, BucketInv, Factor!StillNotLocked, Factor!CountFailure
    PROVE  BucketInv'
<1>1. Factor!Failures \in 0..MaxFailures /\ Factor!Failures < MaxFailures
  BY GuardAssumption
  DEF BucketInv, CodesGuarded, Factor!Failures, Factor!StillNotLocked, Factor!NotLocked
<1>2. Factor!Failures + 1 \in 0..MaxFailures
  BY <1>1, GuardAssumption
<1>3. (IF Factor!Failures = 0 THEN now + BucketTtl ELSE bucket.until) \in Int
  BY GuardAssumption DEF BucketInv, CodesGuarded
<1> QED
  BY <1>2, <1>3 DEF BucketInv, Factor!CountFailure

\* Nothing of the guard or the bucket changes.
LEMMA StoreKept ==
    ASSUME CodesGuarded, BucketInv, UNCHANGED <<now, bucket, guarded, accepted, repeated>>
    PROVE  CodesGuarded' /\ BucketInv'
BY DEF CodesGuarded, BucketInv

\* verifyCode, with each of its outcomes.
LEMMA VerifyStep ==
    ASSUME CodesGuarded, BucketInv, NEW secret, NEW code \in Factor!TotpCodes, now' = now,
           \/ Factor!Accepts(secret, code)
           \/ Factor!Rejects(secret, code)
           \/ UNCHANGED <<bucket, guarded, accepted, repeated>>
    PROVE  CodesGuarded' /\ BucketInv'
<1>1. CASE Factor!Accepts(secret, code)
  BY <1>1, AcceptStep
<1>2. CASE Factor!Rejects(secret, code)
  <2>1. BucketInv'
    BY <1>2, FailStep DEF Factor!Rejects
  <2> QED
    BY <1>2, <2>1 DEF CodesGuarded, Factor!Rejects
<1> QED
  BY <1>1, <1>2, StoreKept

\* The guard and the bucket over every step.
LEMMA StoreStep ==
    FactorInv /\ [Factor!Next]_Factor!vars => CodesGuarded' /\ BucketInv'
<1> SUFFICES ASSUME CodesGuarded, BucketInv, [Factor!Next]_Factor!vars
             PROVE  CodesGuarded' /\ BucketInv'
  BY DEF FactorInv
<1> USE DEF Factor!store
<1>1. CASE UNCHANGED Factor!vars
  BY <1>1, StoreKept DEF Factor!vars
<1>2. ASSUME NEW r \in Devices,
             \/ Factor!ReadCredential(r) \/ Factor!LookUp(r) \/ Factor!Spend(r)
             \/ Factor!ReadForEnable(r) \/ Factor!CreateCredential(r)
             \/ Factor!ReadForValidation(r)
      PROVE  CodesGuarded' /\ BucketInv'
  BY <1>2, StoreKept
  DEF Factor!ReadCredential, Factor!LookUp, Factor!Spend, Factor!ReadForEnable,
      Factor!CreateCredential, Factor!ReadForValidation
<1>3. ASSUME NEW r \in Devices, NEW code \in Factor!TotpCodes,
             Factor!VerifyTotp(r, code) \/ Factor!RefuseTotp(r, code) \/ Factor!Validate(r, code)
      PROVE  CodesGuarded' /\ BucketInv'
  BY <1>3, VerifyStep DEF Factor!VerifyTotp, Factor!RefuseTotp, Factor!Validate
<1>4. ASSUME NEW r \in Devices, NEW code \in Factor!TotpCodes, Factor!TakePending(r, code)
      PROVE  CodesGuarded' /\ BucketInv'
  BY <1>4, VerifyStep DEF Factor!TakePending
<1>5. ASSUME NEW r \in Devices, NEW c \in RecoveryCodes, Factor!TryRecovery(r, c)
      PROVE  CodesGuarded' /\ BucketInv'
  BY <1>5, FailStep DEF Factor!TryRecovery, CodesGuarded
<1>6. ASSUME NEW r \in Devices, NEW k \in Secrets, Factor!Stash(r, k)
      PROVE  CodesGuarded' /\ BucketInv'
  BY <1>6, StoreKept DEF Factor!Stash
<1>7. ASSUME NEW r \in Devices, NEW disable \in BOOLEAN, Factor!Confirmed(r, disable)
      PROVE  CodesGuarded' /\ BucketInv'
  BY <1>7, StoreKept DEF Factor!Confirmed
<1>8. CASE Factor!Tick
  <2>1. now' = now + 1 /\ now \in Nat
    BY <1>8 DEF Factor!Tick, CodesGuarded
  <2>2. BucketInv'
    BY <1>8, GuardAssumption DEF Factor!Tick, BucketInv, Factor!NoFailures
  <2>3. ASSUME NEW c \in accepted'
        PROVE  /\ c[2] \in Int /\ c[2] >= now' - 1
               /\ \E g \in guarded' : g[1] = c /\ g[2] \in Int /\ g[2] > c[2] + 1
    <3>1. c \in accepted /\ c[2] >= now /\ c[2] \in Int
      BY <1>8, <2>3 DEF Factor!Tick, CodesGuarded
    <3>2. PICK g \in guarded : g[1] = c /\ g[2] \in Int /\ g[2] > c[2] + 1
      BY <3>1 DEF CodesGuarded
    <3>3. now' < g[2]
      BY <2>1, <3>1, <3>2
    <3>4. g \in guarded'
      BY <1>8, <3>3 DEF Factor!Tick
    <3> QED
      BY <2>1, <3>1, <3>2, <3>4
  <2> QED
    BY <1>8, <2>1, <2>2, <2>3 DEF CodesGuarded, Factor!Tick
<1>9. CASE Factor!PendingExpires
  BY <1>9, StoreKept DEF Factor!PendingExpires
<1>10. CASE Factor!Restart
  BY <1>10, GuardAssumption DEF Factor!Restart, CodesGuarded, BucketInv, Factor!NoFailures
<1> QED
  BY <1>1, <1>2, <1>3, <1>4, <1>5, <1>6, <1>7, <1>8, <1>9, <1>10 DEF Factor!Next

\* The invariant in every state, with all parts at work.
LEMMA FactorAlways == AccessSpec => []FactorInv
<1>1. AccessInit => FactorInv
  BY GuardAssumption
  DEF AccessInit, Factor!Init, Factor!NoFailures, FactorInv, CodesGuarded, BucketInv
<1>2. FactorInv /\ [AccessNext]_accessVars => FactorInv'
  BY PartsStep, StoreStep DEF FactorInv
<1> QED
  BY <1>1, <1>2, PTL DEF AccessSpec

\* verifyCode (totp.service.ts): while the process runs no TOTP code is accepted
\* twice, whichever of the operations that take one are under way.
THEOREM NoCodeTwice == AccessSpec => []CodeAcceptedOnce
<1>1. FactorInv => CodeAcceptedOnce
  BY DEF FactorInv, CodesGuarded, CodeAcceptedOnce, Factor!CodeAcceptedOnce
<1> QED
  BY <1>1, FactorAlways, PTL

\* registerFailure (totp.service.ts): the bucket stops at MAX_MFA_FAILURES.
THEOREM FailuresStayBounded == AccessSpec => []FailuresBounded
<1>1. FactorInv => FailuresBounded
  BY GuardAssumption DEF FactorInv, BucketInv, FailuresBounded, Factor!FailuresBounded
<1> QED
  BY <1>1, FactorAlways, PTL

-----------------------------------------------------------------------------
(* Accounts and action tokens                                              *)

\* There is a row for the user.
Exists(u) == u \in Users /\ address[u] # None

\* A request, at rest or with what it has read.
FlowState ==
    [pc : {"IDLE"}, late : BOOLEAN]
        \cup [pc : {"REGISTER"}, late : BOOLEAN, address : Addresses]
        \cup [pc : {"MAIL"}, late : BOOLEAN, purpose : Registry!Budgeted, user : Users,
              address : Addresses]
        \cup [pc : {"RESET", "CHANGE"}, late : BOOLEAN, token : Tokens]

\* The address a request has read of an account that is not verified is still the
\* account's; and the token it has checked is there.
FlowFits(q) ==
    /\ q.pc = "MAIL" =>
          /\ Exists(q.user)
          /\ q.user \notin verified => q.address = address[q.user]
    /\ q.pc \in {"RESET", "CHANGE"} => token[q.token] # None
    /\ q.pc = "CHANGE" => token[q.token].purpose = "CHANGE_EMAIL"

\* A token to verify an address went to the address of its account, unless that
\* is verified; one to change an address went to the new one.
TokenFits(k) ==
    /\ Exists(k.user)
    /\ (k.purpose = "VERIFY_EMAIL" /\ k.user \notin verified) => k.to = address[k.user]
    /\ k.purpose = "CHANGE_EMAIL" => k.user \in verified /\ k.target = k.to

FlowInv ==
    /\ flow \in [Flows -> FlowState]
    /\ \A r \in Flows : FlowFits(flow[r])

TokenInv ==
    /\ token \in [Tokens -> Registry!ActionToken \cup {None}]
    /\ \A t \in Tokens : token[t] # None => TokenFits(token[t])

AddressInv ==
    /\ address \in [Users -> Addresses \cup {None}]
    /\ verified \subseteq Users
    /\ \A u \in verified : address[u] # None /\ <<u, address[u]>> \in proven

\* The longest a token lives.
Longest == IF ActionTtl > 1 THEN ActionTtl ELSE 1

\* The request has checked the token and has yet to use it.
Carries(q, t) == q.pc \in {"RESET", "CHANGE"} /\ q.token = t
Carried(t) == \E r \in Flows : Carries(flow[r], t)

\* A token that can take effect no more, whatever becomes of its row.
Dead(t) == token[t] # None /\ token[t].left = 0 /\ ~Carried(t)

\* A request that is not late checked a token which is still good.
AgeInv ==
    /\ \A t \in Tokens : token[t] # None => token[t].left <= Longest
    /\ \A r \in Flows, t \in Tokens :
          (Carries(flow[r], t) /\ ~flow[r].late) => token[t].left > 0

\* A row of used_tokens stays for as long as its token, or a request that has
\* checked it, can come.
RowFits(row) ==
    \E t \in Tokens, n \in Int :
        /\ row = <<t, n>>
        /\ token[t] # None
        /\ token[t].left > 0 => n >= token[t].left + RowTtl - Longest
        /\ Carried(t) => n >= RowTtl - Longest

\* A token that took effect has its row, or is dead.
UsedInv ==
    /\ effects \in [Tokens -> 0..1]
    /\ \A row \in used : RowFits(row)
    /\ \A t \in Tokens : effects[t] = 1 => ~Registry!Unused(t) \/ Dead(t)

RegistryInv == FlowInv /\ TokenInv /\ AddressInv /\ AgeInv /\ UsedInv

\* What every step grants: accounts stay, verified ones stay verified, and the
\* address of one that is not verified does not change.
Steady ==
    /\ \A u \in Users : address[u] # None => address'[u] # None
    /\ verified \subseteq verified'
    /\ \A u \in Users : (address[u] # None /\ u \notin verified') => address'[u] = address[u]

\* Tokens keep their claims.
TokensStay == \A t \in Tokens : token[t] # None => token'[t] = token[t]

\* Requests go on as they are, or end.
FlowsRest ==
    /\ flow' = [r \in Flows |-> flow'[r]]
    /\ \A r \in Flows : flow'[r] \in {flow[r], Registry!Idle}

\* A request ends.
LEMMA FlowEnds ==
    ASSUME FlowInv, NEW r \in Flows, Registry!Become(r, Registry!Idle)
    PROVE  FlowsRest
BY DEF FlowInv, FlowsRest, Registry!Become

\* What a request knows of accounts and tokens stays true while it waits.
LEMMA FlowsWait ==
    ASSUME FlowInv, Steady, TokensStay, FlowsRest
    PROVE  FlowInv'
<1>0. Registry!Idle \in FlowState
  BY DEF FlowState, Registry!Idle
<1> SUFFICES ASSUME NEW r \in Flows PROVE FlowFits(flow[r])'
  BY <1>0 DEF FlowInv, FlowsRest
<1>1. CASE flow'[r] = Registry!Idle
  BY <1>1 DEF FlowFits, Registry!Idle
<1>2. CASE flow'[r] = flow[r]
  <2>1. FlowFits(flow[r]) /\ (flow[r].pc \in {"RESET", "CHANGE"} => flow[r].token \in Tokens)
    BY DEF FlowInv, FlowState
  <2> QED
    BY <1>2, <2>1 DEF FlowFits, Exists, Steady, TokensStay
<1> QED
  BY <1>1, <1>2 DEF FlowsRest

\* What a token says of an account stays true as long as nothing happens to it.
LEMMA TokensWait ==
    ASSUME TokenInv, Steady, token' = token
    PROVE  TokenInv' /\ TokensStay
BY DEF TokenInv, TokenFits, Exists, Steady, TokensStay

\* A mail adds at most a token, for an account and to an address that fit.
LEMMA Mailed ==
    ASSUME TokenInv, Steady, AgeInv, NEW t \in Tokens,
           NEW purpose \in Registry!Budgeted \cup {"CHANGE_EMAIL"},
           NEW u \in Users, NEW to \in Addresses, NEW target \in Addresses \cup {None},
           Registry!Mail(t, purpose, u, to, target),
           address'[u] # None,
           (purpose = "VERIFY_EMAIL" /\ u \notin verified') => to = address'[u],
           purpose = "CHANGE_EMAIL" => u \in verified' /\ target = to
    PROVE  /\ TokenInv' /\ TokensStay
           /\ \A k \in Tokens : token'[k] # None => token'[k].left <= Longest
<1>1. CASE token' = token
  BY <1>1, TokensWait DEF AgeInv
<1> DEFINE new == [purpose |-> purpose, user |-> u, to |-> to, target |-> target,
                   left |-> Registry!Ttl(purpose)]
<1>2. CASE token[t] = None /\ token' = [token EXCEPT ![t] = new]
  <2>1. Registry!Ttl(purpose) \in Nat /\ Registry!Ttl(purpose) <= Longest
    BY RetentionAssumption DEF Registry!Ttl, Longest
  <2>2. new \in Registry!ActionToken
    BY <2>1 DEF Registry!ActionToken
  <2>3. /\ token' \in [Tokens -> Registry!ActionToken \cup {None}]
        /\ token'[t] = new
        /\ \A k \in Tokens : k # t => token'[k] = token[k]
    BY <1>2, <2>2 DEF TokenInv
  <2>4. /\ new.user = u /\ new.purpose = purpose /\ new.to = to /\ new.target = target
        /\ new.left = Registry!Ttl(purpose)
    OBVIOUS
  <2> HIDE DEF new
  <2>5. \A k \in Tokens : token'[k] # None => TokenFits(token[k])'
    BY <2>3, <2>4 DEF TokenInv, TokenFits, Exists, Steady
  <2> QED
    BY <1>2, <2>1, <2>3, <2>4, <2>5 DEF TokenInv, TokensStay, AgeInv
<1> QED
  BY <1>1, <1>2 DEF Registry!Mail

\* Without a new use, rows and ages stay right while requests wait or end.
LEMMA UsesWait ==
    ASSUME RegistryInv, TokensStay, FlowsRest, UNCHANGED <<used, effects>>,
           \A k \in Tokens : token'[k] # None => token'[k].left <= Longest
    PROVE  AgeInv' /\ UsedInv'
<1> USE DEF RegistryInv
<1>1. \A r \in Flows, t \in Tokens : Carries(flow'[r], t) => flow'[r] = flow[r]
  BY DEF FlowsRest, Carries, Registry!Idle
<1>2. \A r \in Flows, t \in Tokens : Carries(flow[r], t) => token[t] # None
  BY DEF FlowInv, FlowFits, Carries
<1>3. AgeInv'
  BY <1>1, <1>2 DEF AgeInv, Carries, TokensStay
<1>4. \A t \in Tokens : Carried(t)' => Carried(t)
  BY <1>1 DEF Carried, Carries
<1>5. ASSUME NEW row \in used PROVE RowFits(row)'
  <2>1. PICK t \in Tokens, n \in Int :
          /\ row = <<t, n>>
          /\ token[t] # None
          /\ token[t].left > 0 => n >= token[t].left + RowTtl - Longest
          /\ Carried(t) => n >= RowTtl - Longest
    BY DEF UsedInv, RowFits
  <2>2. token'[t] = token[t]
    BY <2>1 DEF TokensStay
  <2> QED
    BY <1>4, <2>1, <2>2 DEF RowFits
<1>6. \A t \in Tokens : Dead(t) => Dead(t)'
  BY <1>4 DEF Dead, TokensStay
<1>7. \A t \in Tokens : Registry!Unused(t)' <=> Registry!Unused(t)
  BY DEF Registry!Unused
<1>8. UsedInv'
  BY <1>5, <1>6, <1>7 DEF UsedInv
<1> QED
  BY <1>3, <1>8

\* No row is dropped, or aged past its date for good, while its token is good or
\* a request carries it.
LEMMA RowsLast ==
    ASSUME UsedInv, TokenInv, NEW row \in used, Registry!Purgeable(row)
    PROVE  row[1] \in Tokens /\ Dead(row[1])
<1>1. PICK t \in Tokens, n \in Int :
        /\ row = <<t, n>>
        /\ token[t] # None
        /\ token[t].left > 0 => n >= token[t].left + RowTtl - Longest
        /\ Carried(t) => n >= RowTtl - Longest
  BY DEF UsedInv, RowFits
<1>2. n < -Retention
  BY <1>1 DEF Registry!Purgeable
<1>3. Longest \in Nat /\ Longest <= RowTtl + Retention
  BY RetentionAssumption DEF Longest
<1>4. token[t].left \in Nat
  BY <1>1 DEF TokenInv, Registry!ActionToken
<1>5. ~Carried(t) /\ ~(token[t].left > 0)
  BY <1>1, <1>2, <1>3, <1>4, RetentionAssumption
<1> QED
  BY <1>1, <1>4, <1>5 DEF Dead

\* The transactions that open with the insert into used_tokens: the token has not
\* taken effect before.
LEMMA Consumed ==
    ASSUME RegistryInv, NEW t \in Tokens, token[t] # None, token[t].left > 0 \/ Carried(t),
           Registry!Consume(t), token' = token, FlowsRest
    PROVE  AgeInv' /\ UsedInv'
<1> USE DEF RegistryInv
<1>1. effects[t] = 0 /\ effects' = [effects EXCEPT ![t] = 1]
  <2>1. ~Dead(t) /\ Registry!Unused(t)
    BY DEF Dead, Registry!Consume
  <2>2. effects[t] = 0
    BY <2>1 DEF UsedInv
  <2> QED
    BY <2>2 DEF UsedInv, Registry!Consume
<1>2. \A r \in Flows, k \in Tokens : Carries(flow'[r], k) => flow'[r] = flow[r]
  BY DEF FlowsRest, Carries, Registry!Idle
<1>3. AgeInv'
  BY <1>2 DEF AgeInv, Carries
<1>4. \A k \in Tokens : Carried(k)' => Carried(k)
  BY <1>2 DEF Carried, Carries
<1>5. Longest \in Nat
  BY RetentionAssumption DEF Longest
<1>6. token[t].left \in Nat /\ token[t].left <= Longest
  BY DEF TokenInv, AgeInv, Registry!ActionToken
<1>7. ASSUME NEW row \in used' PROVE RowFits(row)'
  <2>1. CASE row = <<t, RowTtl>>
    BY <1>5, <1>6, <2>1, RetentionAssumption DEF RowFits
  <2>2. CASE row \in used
    <3>1. PICK k \in Tokens, n \in Int :
            /\ row = <<k, n>>
            /\ token[k] # None
            /\ token[k].left > 0 => n >= token[k].left + RowTtl - Longest
            /\ Carried(k) => n >= RowTtl - Longest
      BY <2>2 DEF UsedInv, RowFits
    <3> QED
      BY <1>4, <3>1 DEF RowFits
  <2> QED
    BY <2>1, <2>2 DEF Registry!Consume
<1>8. \A k \in Tokens : Dead(k) => Dead(k)'
  BY <1>4 DEF Dead
<1>9. ~Registry!Unused(t)' /\ \A k \in Tokens : Registry!Unused(k)' => Registry!Unused(k)
  <2>1. <<t, RowTtl>> \in used' /\ used \subseteq used'
    BY DEF Registry!Consume
  <2>2. <<t, RowTtl>>[1] = t
    OBVIOUS
  <2> QED
    BY <2>1, <2>2 DEF Registry!Unused
<1>10. UsedInv'
  BY <1>1, <1>7, <1>8, <1>9 DEF UsedInv
<1> QED
  BY <1>3, <1>10

\* A request checks a token that is good: if the token was used, its row is far
\* from its date.
LEMMA Parsed ==
    ASSUME RegistryInv, NEW r \in Flows, NEW t \in Tokens, NEW pc \in {"RESET", "CHANGE"},
           token[t] # None, token[t].left > 0,
           pc = "CHANGE" => token[t].purpose = "CHANGE_EMAIL",
           Registry!Become(r, [pc |-> pc, late |-> FALSE, token |-> t]),
           UNCHANGED <<address, verified, token, used, effects>>
    PROVE  FlowInv' /\ AgeInv' /\ UsedInv'
<1> USE DEF RegistryInv
<1> DEFINE new == [pc |-> pc, late |-> FALSE, token |-> t]
<1>0. new \in FlowState
  BY DEF FlowState
<1>1. /\ flow' \in [Flows -> FlowState]
      /\ flow'[r] = new
      /\ \A q \in Flows : q # r => flow'[q] = flow[q]
  BY <1>0 DEF FlowInv, Registry!Become
<1>2. new.pc = pc /\ new.late = FALSE /\ new.token = t
  OBVIOUS
<1> HIDE DEF new
<1>3. FlowInv'
  BY <1>1, <1>2 DEF FlowInv, FlowFits, Exists
<1>4. AgeInv'
  BY <1>1, <1>2 DEF AgeInv, Carries
<1>5. \A k \in Tokens : Carried(k)' => Carried(k) \/ k = t
  BY <1>1, <1>2 DEF Carried, Carries
<1>6. token[t].left \in Nat /\ Longest \in Nat
  BY RetentionAssumption DEF TokenInv, Registry!ActionToken, Longest
<1>7. ASSUME NEW row \in used PROVE RowFits(row)'
  <2>1. PICK k \in Tokens, n \in Int :
          /\ row = <<k, n>>
          /\ token[k] # None
          /\ token[k].left > 0 => n >= token[k].left + RowTtl - Longest
          /\ Carried(k) => n >= RowTtl - Longest
    BY DEF UsedInv, RowFits
  <2>2. k = t => n >= RowTtl - Longest
    BY <1>6, <2>1, RetentionAssumption
  <2> QED
    BY <1>5, <2>1, <2>2 DEF RowFits
<1>8. \A k \in Tokens : Dead(k) => Dead(k)'
  BY <1>5, <1>6 DEF Dead
<1>9. \A k \in Tokens : Registry!Unused(k)' => Registry!Unused(k)
  BY DEF Registry!Unused
<1>10. UsedInv'
  BY <1>7, <1>8, <1>9 DEF UsedInv
<1> QED
  BY <1>3, <1>4, <1>10

\* Half a day goes by: what was not late can no longer be early, and a row ages no
\* faster than its token.
LEMMA Ticked ==
    ASSUME RegistryInv, Registry!Tick
    PROVE  RegistryInv'
<1> USE DEF RegistryInv
<1>1. /\ UNCHANGED <<address, verified, proven, effects>>
      /\ \A r \in Flows : ~flow[r].late
  BY DEF Registry!Tick, Registry!rows
<1>2. \A t \in Tokens :
        IF token[t] = None \/ token[t].left = 0 THEN token'[t] = token[t]
        ELSE token'[t] = [token[t] EXCEPT !.left = @ - 1]
  BY DEF Registry!Tick
<1>3. \A t \in Tokens : token[t] # None =>
        /\ token[t] \in Registry!ActionToken
        /\ token'[t] \in Registry!ActionToken
        /\ token'[t].purpose = token[t].purpose /\ token'[t].user = token[t].user
        /\ token'[t].to = token[t].to /\ token'[t].target = token[t].target
        /\ token'[t].left = IF token[t].left = 0 THEN 0 ELSE token[t].left - 1
  <2> SUFFICES ASSUME NEW t \in Tokens, token[t] # None
               PROVE  /\ token[t] \in Registry!ActionToken
                      /\ token'[t] \in Registry!ActionToken
                      /\ token'[t].purpose = token[t].purpose /\ token'[t].user = token[t].user
                      /\ token'[t].to = token[t].to /\ token'[t].target = token[t].target
                      /\ token'[t].left = IF token[t].left = 0 THEN 0 ELSE token[t].left - 1
    OBVIOUS
  <2>1. token[t] \in Registry!ActionToken
    BY DEF TokenInv
  <2>2. CASE token[t].left = 0
    BY <1>2, <2>1, <2>2
  <2>3. CASE token[t].left # 0
    <3>1. token'[t] = [token[t] EXCEPT !.left = @ - 1]
      BY <1>2, <2>3
    <3>2. token[t].left - 1 \in Nat
      BY <2>1, <2>3 DEF Registry!ActionToken
    <3> QED
      BY <2>1, <2>3, <3>1, <3>2 DEF Registry!ActionToken
  <2> QED
    BY <2>2, <2>3, <2>1
<1>4. \A t \in Tokens : token'[t] # None <=> token[t] # None
  BY <1>2, <1>3, NoneAssumption
<1>5. TokenInv'
  <2>1. token' \in [Tokens -> Registry!ActionToken \cup {None}]
    <3>1. token' = [t \in Tokens |-> token'[t]]
      BY DEF Registry!Tick
    <3>2. \A t \in Tokens : token'[t] \in Registry!ActionToken \cup {None}
      BY <1>3, <1>4
    <3> QED
      BY <3>1, <3>2
  <2>2. ASSUME NEW t \in Tokens, token'[t] # None PROVE TokenFits(token[t])'
    <3>1. token[t] # None /\ TokenFits(token[t])
      BY <1>4, <2>2 DEF TokenInv
    <3> QED
      BY <1>1, <1>3, <3>1 DEF TokenFits, Exists
  <2> QED
    BY <2>1, <2>2 DEF TokenInv
<1>6. flow' = [r \in Flows |-> [flow[r] EXCEPT !.late = flow[r].pc # "IDLE"]]
  BY DEF Registry!Tick
<1>7. /\ FlowInv'
      /\ \A r \in Flows, t \in Tokens :
            Carries(flow'[r], t) => Carries(flow[r], t) /\ flow'[r].late
  <2>1. ASSUME NEW r \in Flows
        PROVE  /\ flow'[r] \in FlowState
               /\ flow'[r].pc = flow[r].pc
               /\ flow[r].pc # "IDLE" => flow'[r].late
               /\ flow[r].pc = "MAIL" => flow'[r].user = flow[r].user /\ flow'[r].address = flow[r].address
               /\ flow[r].pc \in {"RESET", "CHANGE"} => flow'[r].token = flow[r].token
    <3>1. flow'[r] = [flow[r] EXCEPT !.late = flow[r].pc # "IDLE"] /\ flow[r] \in FlowState
      BY <1>6 DEF FlowInv
    <3> QED
      BY <3>1 DEF FlowState
  <2>2. flow' \in [Flows -> FlowState]
    BY <1>6, <2>1
  <2>3. \A r \in Flows : FlowFits(flow[r])'
    BY <1>1, <1>3, <1>4, <2>1 DEF FlowInv, FlowFits, Exists, FlowState
  <2>4. \A r \in Flows, t \in Tokens :
          Carries(flow'[r], t) => Carries(flow[r], t) /\ flow'[r].late
    BY <2>1 DEF Carries
  <2> QED
    BY <2>2, <2>3, <2>4 DEF FlowInv
<1>8. AddressInv'
  BY <1>1 DEF AddressInv
<1>9. AgeInv'
  <2>1. \A t \in Tokens : token'[t] # None => token'[t].left <= Longest
    BY <1>3, <1>4, RetentionAssumption DEF AgeInv, Registry!ActionToken, Longest
  <2> QED
    BY <1>7, <2>1 DEF AgeInv
<1>10. \A t \in Tokens : Carried(t)' => Carried(t)
  BY <1>7 DEF Carried
<1>11. \A t \in Tokens : Carried(t) => token[t] # None /\ token[t].left > 0
  BY <1>1 DEF Carried, Carries, AgeInv, FlowInv, FlowFits
<1>12. Longest \in Nat
  BY RetentionAssumption DEF Longest
<1>13. ASSUME NEW row \in used' PROVE RowFits(row)'
  <2>1. PICK old \in used :
          row = <<old[1], IF Registry!Purgeable(old) THEN old[2] ELSE old[2] - 1>>
    BY DEF Registry!Tick
  <2>2. PICK t \in Tokens, n \in Int :
          /\ old = <<t, n>>
          /\ token[t] # None
          /\ token[t].left > 0 => n >= token[t].left + RowTtl - Longest
          /\ Carried(t) => n >= RowTtl - Longest
    BY DEF UsedInv, RowFits
  <2>3. PICK m \in Int : row = <<t, m>> /\ (m = n - 1 \/ (m = n /\ Registry!Purgeable(old)))
    BY <2>1, <2>2
  <2>4. token[t].left \in Nat /\ token'[t] # None
        /\ token'[t].left = IF token[t].left = 0 THEN 0 ELSE token[t].left - 1
    BY <1>3, <1>4, <2>2 DEF Registry!ActionToken
  <2>5. CASE token[t].left = 0
    BY <1>10, <1>11, <2>2, <2>3, <2>4, <2>5 DEF RowFits
  <2>6. CASE token[t].left > 0
    <3>1. ~Registry!Purgeable(old)
      BY <2>2, <2>6, RowsLast DEF Dead
    <3>2. m >= (token[t].left - 1) + RowTtl - Longest /\ m >= RowTtl - Longest
      BY <1>12, <2>2, <2>3, <2>4, <2>6, <3>1, RetentionAssumption
    <3> QED
      BY <2>3, <2>4, <2>6, <3>2 DEF RowFits
  <2> QED
    BY <2>4, <2>5, <2>6
<1>14. \A t \in Tokens : Dead(t) => Dead(t)'
  BY <1>3, <1>4, <1>10 DEF Dead
<1>15. \A t \in Tokens : Registry!Unused(t)' => Registry!Unused(t)
  <2> SUFFICES ASSUME NEW t \in Tokens, NEW old \in used, old[1] = t PROVE ~Registry!Unused(t)'
    BY DEF Registry!Unused
  <2> DEFINE row == <<old[1], IF Registry!Purgeable(old) THEN old[2] ELSE old[2] - 1>>
  <2>1. row \in used' /\ row[1] = t
    BY DEF Registry!Tick
  <2> HIDE DEF row
  <2> QED
    BY <2>1 DEF Registry!Unused
<1>16. UsedInv'
  BY <1>1, <1>13, <1>14, <1>15 DEF UsedInv
<1> QED
  BY <1>5, <1>7, <1>8, <1>9, <1>16

\* A step that leaves accounts alone is steady.
LEMMA SteadyKept ==
    ASSUME UNCHANGED <<address, verified, proven>>, AddressInv
    PROVE  Steady /\ AddressInv'
BY DEF Steady, AddressInv

\* A new request with what it has read, while nothing else changes.
LEMMA FlowStarts ==
    ASSUME RegistryInv, NEW r \in Flows, NEW state \in FlowState,
           state.pc \notin {"RESET", "CHANGE"}, FlowFits(state),
           Registry!Become(r, state),
           UNCHANGED <<address, verified, proven, token, used, effects>>
    PROVE  RegistryInv'
<1> USE DEF RegistryInv
<1>1. /\ flow' \in [Flows -> FlowState]
      /\ flow'[r] = state
      /\ \A q \in Flows : q # r => flow'[q] = flow[q]
  BY DEF FlowInv, Registry!Become
<1>2. FlowInv'
  BY <1>1 DEF FlowInv, FlowFits, Exists
<1>3. TokenInv' /\ AddressInv'
  BY SteadyKept, TokensWait
<1>4. AgeInv'
  BY <1>1 DEF AgeInv, Carries
<1>5. \A t \in Tokens : Carried(t)' => Carried(t)
  BY <1>1 DEF Carried, Carries
<1>6. ASSUME NEW row \in used PROVE RowFits(row)'
  <2>1. PICK t \in Tokens, n \in Int :
          /\ row = <<t, n>>
          /\ token[t] # None
          /\ token[t].left > 0 => n >= token[t].left + RowTtl - Longest
          /\ Carried(t) => n >= RowTtl - Longest
    BY DEF UsedInv, RowFits
  <2> QED
    BY <1>5, <2>1 DEF RowFits
<1>7. \A t \in Tokens : (Dead(t) => Dead(t)') /\ (Registry!Unused(t)' <=> Registry!Unused(t))
  BY <1>5 DEF Dead, Registry!Unused
<1>8. UsedInv'
  BY <1>6, <1>7 DEF UsedInv
<1> QED
  BY <1>2, <1>3, <1>4, <1>8

\* Every operation on accounts keeps the invariant.
LEMMA RegistryInvStep == RegistryInv /\ [Registry!Next]_Registry!vars => RegistryInv'
<1> SUFFICES ASSUME RegistryInv, [Registry!Next]_Registry!vars PROVE RegistryInv'
  OBVIOUS
<1>0. ASSUME UNCHANGED <<address, verified, proven, token, used, effects>>, FlowsRest
      PROVE  RegistryInv'
  <2>1. Steady /\ AddressInv'
    BY <1>0, SteadyKept DEF RegistryInv
  <2>2. TokenInv' /\ TokensStay
    BY <1>0, <2>1, TokensWait DEF RegistryInv
  <2>3. FlowInv'
    BY <1>0, <2>1, <2>2, FlowsWait DEF RegistryInv
  <2>4. AgeInv' /\ UsedInv'
    BY <1>0, <2>2, UsesWait DEF RegistryInv, AgeInv
  <2> QED
    BY <2>1, <2>2, <2>3, <2>4 DEF RegistryInv
<1>1. CASE UNCHANGED Registry!vars
  BY <1>0, <1>1 DEF Registry!vars, FlowsRest, RegistryInv, FlowInv
<1>2. ASSUME NEW r \in Flows, NEW a \in Addresses, Registry!CheckRegister(r, a)
      PROVE  RegistryInv'
  <2> DEFINE state == [pc |-> "REGISTER", late |-> FALSE, address |-> a]
  <2>1. state \in FlowState /\ state.pc = "REGISTER"
    BY DEF FlowState
  <2>2. FlowFits(state)
    BY <2>1 DEF FlowFits
  <2>3. Registry!Become(r, state) /\ UNCHANGED <<address, verified, proven, token, used, effects>>
    BY <1>2 DEF Registry!CheckRegister, Registry!rows
  <2> HIDE DEF state
  <2> QED
    BY <2>1, <2>2, <2>3, FlowStarts
<1>3. ASSUME NEW r \in Flows, NEW u \in Users, NEW t \in Tokens, Registry!Register(r, u, t)
      PROVE  RegistryInv'
  <2>1. /\ Registry!Become(r, Registry!Idle) /\ address[u] = None
        /\ UNCHANGED <<verified, proven, used, effects>>
    BY <1>3 DEF Registry!Register
  <2>2. FlowsRest
    BY <2>1, FlowEnds DEF RegistryInv
  <2>3. CASE UNCHANGED <<address, token>>
    BY <1>0, <2>1, <2>2, <2>3
  <2>4. CASE /\ address' = [address EXCEPT ![u] = flow[r].address]
             /\ Registry!Mail(t, "VERIFY_EMAIL", u, flow[r].address, None)
    <3>1. flow[r].address \in Addresses
      BY <1>3 DEF RegistryInv, FlowInv, FlowState, Registry!Register, Registry!At
    <3>2. u \notin verified
      BY <2>1 DEF RegistryInv, AddressInv
    <3>3. address'[u] = flow[r].address /\ address'[u] # None
          /\ \A v \in Users : v # u => address'[v] = address[v]
      BY <2>4, <3>1, NoneAssumption DEF RegistryInv, AddressInv
    <3>4. Steady
      BY <2>1, <3>3 DEF Steady
    <3>5. AddressInv'
      BY <2>1, <2>4, <3>1, <3>2, <3>3 DEF RegistryInv, AddressInv
    <3>6. PICK a : a = flow[r].address
      OBVIOUS
    <3>7. /\ TokenInv' /\ TokensStay
          /\ \A k \in Tokens : token'[k] # None => token'[k].left <= Longest
      BY <2>4, <3>1, <3>3, <3>4, <3>6, Mailed DEF RegistryInv, Registry!Budgeted
    <3>8. FlowInv'
      BY <2>2, <3>4, <3>7, FlowsWait DEF RegistryInv
    <3>9. AgeInv' /\ UsedInv'
      BY <2>1, <2>2, <3>7, UsesWait
    <3> QED
      BY <3>5, <3>7, <3>8, <3>9 DEF RegistryInv
  <2> QED
    BY <1>3, <2>3, <2>4 DEF Registry!Register
<1>4. ASSUME NEW u \in Users, NEW a \in Addresses, Registry!CreateUser(u, a)
      PROVE  RegistryInv'
  <2>1. /\ address[u] = None
        /\ address' = [address EXCEPT ![u] = a]
        /\ verified' = verified \cup {u}
        /\ proven' = proven \cup {<<u, a>>}
        /\ UNCHANGED <<token, used, flow, effects>>
    BY <1>4 DEF Registry!CreateUser
  <2>2. address'[u] = a /\ a # None /\ \A v \in Users : v # u => address'[v] = address[v]
    BY <2>1, NoneAssumption DEF RegistryInv, AddressInv
  <2>3. Steady
    BY <2>1, <2>2 DEF Steady
  <2>4. AddressInv'
    BY <2>1, <2>2 DEF RegistryInv, AddressInv
  <2>5. FlowsRest
    BY <2>1 DEF FlowsRest, RegistryInv, FlowInv
  <2>6. TokenInv' /\ TokensStay
    BY <2>1, <2>3, TokensWait DEF RegistryInv
  <2>7. FlowInv'
    BY <2>3, <2>5, <2>6, FlowsWait DEF RegistryInv
  <2>8. AgeInv' /\ UsedInv'
    BY <2>1, <2>5, <2>6, UsesWait DEF RegistryInv, AgeInv
  <2> QED
    BY <2>4, <2>6, <2>7, <2>8 DEF RegistryInv
<1>5. ASSUME NEW t \in Tokens, Registry!VerifyEmail(t)
      PROVE  RegistryInv'
  <2>1. PICK u : u = token[t].user
    OBVIOUS
  <2>2. /\ token[t] # None /\ token[t].purpose = "VERIFY_EMAIL" /\ token[t].left > 0
        /\ Registry!Consume(t)
        /\ verified' = verified \cup {u}
        /\ proven' = proven \cup {<<u, token[t].to>>}
        /\ UNCHANGED <<address, token, flow>>
    BY <1>5, <2>1 DEF Registry!VerifyEmail, Registry!Parses
  <2>3. Exists(u) /\ (u \notin verified => token[t].to = address[u])
    BY <2>1, <2>2 DEF RegistryInv, TokenInv, TokenFits
  <2>4. Steady
    BY <2>2 DEF Steady
  <2>5. AddressInv'
    BY <2>2, <2>3 DEF RegistryInv, AddressInv, Exists
  <2>6. FlowsRest
    BY <2>2 DEF FlowsRest, RegistryInv, FlowInv
  <2>7. TokenInv' /\ TokensStay
    BY <2>2, <2>4, TokensWait DEF RegistryInv
  <2>8. FlowInv'
    BY <2>4, <2>6, <2>7, FlowsWait DEF RegistryInv
  <2>9. AgeInv' /\ UsedInv'
    BY <2>2, <2>6, Consumed
  <2> QED
    BY <2>5, <2>7, <2>8, <2>9 DEF RegistryInv
<1>6. ASSUME NEW r \in Flows, NEW u \in Users, NEW purpose \in Registry!Budgeted,
             Registry!ReadForMail(r, u, purpose)
      PROVE  RegistryInv'
  <2>1. PICK a : a = address[u]
    OBVIOUS
  <2>2. a \in Addresses /\ address[u] # None
    BY <1>6, <2>1 DEF RegistryInv, AddressInv, Registry!ReadForMail
  <2> DEFINE state == [pc |-> "MAIL", late |-> FALSE, purpose |-> purpose, user |-> u, address |-> a]
  <2>3. state \in FlowState /\ state.pc = "MAIL"
    BY <2>2 DEF FlowState
  <2>4. FlowFits(state)
    BY <2>1, <2>2 DEF FlowFits, Exists
  <2>5. Registry!Become(r, state) /\ UNCHANGED <<address, verified, proven, token, used, effects>>
    BY <1>6, <2>1 DEF Registry!ReadForMail, Registry!rows
  <2> HIDE DEF state
  <2> QED
    BY <2>3, <2>4, <2>5, FlowStarts
<1>7. ASSUME NEW r \in Flows, NEW t \in Tokens, Registry!MailToken(r, t)
      PROVE  RegistryInv'
  <2>1. /\ Registry!Become(r, Registry!Idle)
        /\ UNCHANGED <<address, verified, proven, used, effects>>
    BY <1>7 DEF Registry!MailToken, Registry!rows
  <2>2. FlowsRest
    BY <2>1, FlowEnds DEF RegistryInv
  <2>3. Steady /\ AddressInv'
    BY <2>1, SteadyKept DEF RegistryInv
  <2>4. CASE token' = token
    BY <1>0, <2>1, <2>2, <2>4
  <2>5. CASE Registry!Mail(t, flow[r].purpose, flow[r].user, flow[r].address, None)
    <3>1. /\ flow[r].purpose \in Registry!Budgeted /\ flow[r].address \in Addresses
          /\ flow[r].user \in Users
      BY <1>7 DEF RegistryInv, FlowInv, FlowState, Registry!MailToken, Registry!At
    <3>2. /\ address[flow[r].user] # None
          /\ flow[r].user \notin verified => flow[r].address = address[flow[r].user]
      BY <1>7 DEF RegistryInv, FlowInv, FlowFits, Exists, Registry!MailToken, Registry!At
    <3>3. PICK p, u, a : p = flow[r].purpose /\ u = flow[r].user /\ a = flow[r].address
      OBVIOUS
    <3>4. p # "CHANGE_EMAIL"
      BY <3>1, <3>3 DEF Registry!Budgeted
    <3>5. /\ TokenInv' /\ TokensStay
          /\ \A k \in Tokens : token'[k] # None => token'[k].left <= Longest
      BY <2>1, <2>3, <2>5, <3>1, <3>2, <3>3, <3>4, Mailed DEF RegistryInv
    <3>6. FlowInv'
      BY <2>2, <2>3, <3>5, FlowsWait DEF RegistryInv
    <3>7. AgeInv' /\ UsedInv'
      BY <2>1, <2>2, <3>5, UsesWait
    <3> QED
      BY <2>3, <3>5, <3>6, <3>7 DEF RegistryInv
  <2> QED
    BY <1>7, <2>4, <2>5 DEF Registry!MailToken
<1>8. ASSUME NEW r \in Flows, NEW t \in Tokens,
             Registry!ParseReset(r, t) \/ Registry!ParseChange(r, t)
      PROVE  RegistryInv'
  <2>1. UNCHANGED <<address, verified, proven, token, used, effects>>
    BY <1>8 DEF Registry!ParseReset, Registry!ParseChange, Registry!rows
  <2>2. TokenInv' /\ AddressInv'
    BY <2>1, SteadyKept, TokensWait DEF RegistryInv
  <2>3. FlowInv' /\ AgeInv' /\ UsedInv'
    BY <1>8, <2>1, Parsed DEF Registry!ParseReset, Registry!ParseChange, Registry!Parses
  <2> QED
    BY <2>2, <2>3 DEF RegistryInv
<1>9. ASSUME NEW r \in Flows, Registry!ResetPassword(r)
      PROVE  RegistryInv'
  <2>1. /\ Registry!Become(r, Registry!Idle)
        /\ UNCHANGED <<address, verified, proven, token>>
    BY <1>9 DEF Registry!ResetPassword, Registry!rows
  <2>2. FlowsRest
    BY <2>1, FlowEnds DEF RegistryInv
  <2>3. CASE UNCHANGED <<used, effects>>
    BY <1>0, <2>1, <2>2, <2>3
  <2>4. CASE Registry!Consume(flow[r].token)
    <3>1. /\ flow[r].token \in Tokens /\ token[flow[r].token] # None
          /\ Carried(flow[r].token)
      BY <1>9 DEF RegistryInv, FlowInv, FlowState, FlowFits, Registry!ResetPassword, Registry!At,
                  Carried, Carries
    <3>2. AgeInv' /\ UsedInv'
      <4>1. PICK t : t = flow[r].token
        OBVIOUS
      <4> QED
        BY <2>1, <2>2, <2>4, <3>1, <4>1, Consumed
    <3>3. Steady /\ AddressInv'
      BY <2>1, SteadyKept DEF RegistryInv
    <3>4. TokenInv' /\ TokensStay
      BY <2>1, <3>3, TokensWait DEF RegistryInv
    <3>5. FlowInv'
      BY <2>2, <3>3, <3>4, FlowsWait DEF RegistryInv
    <3> QED
      BY <3>2, <3>3, <3>4, <3>5 DEF RegistryInv
  <2> QED
    BY <1>9, <2>3, <2>4 DEF Registry!ResetPassword
<1>10. ASSUME NEW r \in Flows, Registry!ConfirmChangeEmail(r)
       PROVE  RegistryInv'
  <2>1. PICK t : t = flow[r].token
    OBVIOUS
  <2>2. PICK u : u = token[t].user
    OBVIOUS
  <2>3. /\ Registry!Become(r, Registry!Idle)
        /\ token' = token
    BY <1>10 DEF Registry!ConfirmChangeEmail
  <2>4. FlowsRest
    BY <2>3, FlowEnds DEF RegistryInv
  <2>5. CASE UNCHANGED <<used, effects, address, verified, proven>>
    BY <1>0, <2>3, <2>4, <2>5
  <2>6. CASE /\ Registry!Consume(t)
             /\ address' = [address EXCEPT ![u] = token[t].target]
             /\ verified' = verified \cup {u}
             /\ proven' = proven \cup {<<u, token[t].to>>}
    <3>1. t \in Tokens /\ token[t] # None /\ token[t].purpose = "CHANGE_EMAIL" /\ Carried(t)
      BY <1>10, <2>1
      DEF RegistryInv, FlowInv, FlowState, FlowFits, Registry!ConfirmChangeEmail, Registry!At,
          Carried, Carries
    <3>2. u \in verified /\ u \in Users /\ token[t].target = token[t].to
      BY <2>2, <3>1 DEF RegistryInv, TokenInv, TokenFits, Exists
    <3>3. token[t].to \in Addresses /\ token[t].to # None
      BY <3>1, NoneAssumption DEF RegistryInv, TokenInv, Registry!ActionToken
    <3>4. address'[u] = token[t].to /\ \A v \in Users : v # u => address'[v] = address[v]
      BY <2>6, <3>2 DEF RegistryInv, AddressInv
    <3>5. Steady
      BY <2>6, <3>2, <3>3, <3>4 DEF Steady
    <3>6. AddressInv'
      BY <2>6, <3>2, <3>3, <3>4 DEF RegistryInv, AddressInv
    <3>7. TokenInv' /\ TokensStay
      BY <2>3, <3>5, TokensWait DEF RegistryInv
    <3>8. FlowInv'
      BY <2>4, <3>5, <3>7, FlowsWait DEF RegistryInv
    <3>9. AgeInv' /\ UsedInv'
      BY <2>3, <2>4, <2>6, <3>1, Consumed
    <3> QED
      BY <3>6, <3>7, <3>8, <3>9 DEF RegistryInv
  <2> QED
    BY <1>10, <2>1, <2>2, <2>5, <2>6 DEF Registry!ConfirmChangeEmail
<1>11. ASSUME NEW u \in Users, NEW a \in Addresses, NEW t \in Tokens,
              Registry!RequestChangeEmail(u, a, t)
       PROVE  RegistryInv'
  <2>1. /\ u \in verified
        /\ Registry!Mail(t, "CHANGE_EMAIL", u, a, a)
        /\ UNCHANGED <<address, verified, proven, used, flow, effects>>
    BY <1>11 DEF Registry!RequestChangeEmail, Registry!ConfirmAt, Registry!rows
  <2>2. Steady /\ AddressInv'
    BY <2>1, SteadyKept DEF RegistryInv
  <2>3. address'[u] # None
    BY <2>1 DEF RegistryInv, AddressInv
  <2>4. /\ TokenInv' /\ TokensStay
        /\ \A k \in Tokens : token'[k] # None => token'[k].left <= Longest
    BY <2>1, <2>2, <2>3, Mailed DEF RegistryInv
  <2>5. FlowsRest
    BY <2>1 DEF FlowsRest, RegistryInv, FlowInv
  <2>6. FlowInv'
    BY <2>2, <2>4, <2>5, FlowsWait DEF RegistryInv
  <2>7. AgeInv' /\ UsedInv'
    BY <2>1, <2>4, <2>5, UsesWait
  <2> QED
    BY <2>2, <2>4, <2>6, <2>7 DEF RegistryInv
<1>12. ASSUME NEW u \in Users, NEW s \in {"ACTIVE", "SUSPENDED", "DELETED"},
              Registry!SetStatus(u, s)
       PROVE  RegistryInv'
  BY <1>0, <1>12 DEF Registry!SetStatus, FlowsRest, RegistryInv, FlowInv
<1>13. CASE Registry!Purge
  <2>1. /\ UNCHANGED <<address, verified, proven, token, flow, effects>>
        /\ used' = {row \in used : ~Registry!Purgeable(row)}
    BY <1>13 DEF Registry!Purge, Registry!rows
  <2>2. Steady /\ AddressInv'
    BY <2>1, SteadyKept DEF RegistryInv
  <2>3. FlowsRest
    BY <2>1 DEF FlowsRest, RegistryInv, FlowInv
  <2>4. TokenInv' /\ TokensStay
    BY <2>1, <2>2, TokensWait DEF RegistryInv
  <2>5. FlowInv'
    BY <2>2, <2>3, <2>4, FlowsWait DEF RegistryInv
  <2>6. AgeInv'
    BY <2>1 DEF RegistryInv, AgeInv
  <2>7. \A k \in Tokens : Carried(k)' <=> Carried(k)
    BY <2>1 DEF Carried
  <2>8. \A row \in used' : RowFits(row)'
    BY <2>1, <2>7 DEF RegistryInv, UsedInv, RowFits
  <2>9. \A k \in Tokens : Dead(k)' <=> Dead(k)
    BY <2>1, <2>7 DEF Dead
  <2>10. ASSUME NEW k \in Tokens, ~Registry!Unused(k), Registry!Unused(k)' PROVE Dead(k)
    <3>1. PICK row \in used : row[1] = k
      BY <2>10 DEF Registry!Unused
    <3>2. Registry!Purgeable(row)
      BY <2>1, <2>10, <3>1 DEF Registry!Unused
    <3> QED
      BY <3>1, <3>2, RowsLast DEF RegistryInv
  <2>11. UsedInv'
    BY <2>1, <2>8, <2>9, <2>10 DEF RegistryInv, UsedInv
  <2> QED
    BY <2>2, <2>4, <2>5, <2>6, <2>11 DEF RegistryInv
<1>14. CASE Registry!Tick
  BY <1>14, Ticked
<1>15. CASE Registry!Restart
  BY <1>0, <1>15 DEF Registry!Restart, Registry!rows, FlowsRest
<1> QED
  BY <1>1, <1>2, <1>3, <1>4, <1>5, <1>6, <1>7, <1>8, <1>9, <1>10, <1>11, <1>12, <1>13, <1>14,
     <1>15
  DEF Registry!Next

\* The invariant in every state, with all parts at work.
LEMMA RegistryAlways == AccessSpec => []RegistryInv
<1>1. AccessInit => RegistryInv
  <2> SUFFICES ASSUME Registry!Init PROVE RegistryInv
    BY DEF AccessInit
  <2>1. \A r \in Flows : flow[r] = Registry!Idle /\ flow[r].pc = "IDLE"
    BY DEF Registry!Init, Registry!Idle
  <2>2. FlowInv
    BY <2>1 DEF Registry!Init, Registry!Idle, FlowInv, FlowFits, FlowState
  <2>3. TokenInv /\ AddressInv
    BY DEF Registry!Init, TokenInv, AddressInv
  <2>4. AgeInv /\ UsedInv
    BY <2>1 DEF Registry!Init, AgeInv, UsedInv, Carries
  <2> QED
    BY <2>2, <2>3, <2>4 DEF RegistryInv
<1>2. RegistryInv /\ [AccessNext]_accessVars => RegistryInv'
  BY PartsStep, RegistryInvStep
<1> QED
  BY <1>1, <1>2, PTL DEF AccessSpec

\* verifyEmail, resetPassword and confirmChangeEmail (auth.service.ts), with the
\* purge of used_tokens (used-token.purge.ts): an action token takes effect once.
THEOREM TokensTakeEffectOnce == AccessSpec => []TokensUsedOnce
<1>1. RegistryInv => TokensUsedOnce
  BY DEF RegistryInv, UsedInv, TokensUsedOnce, Registry!TokensUsedOnce
<1> QED
  BY <1>1, RegistryAlways, PTL

\* However registrations and changes of address interleave, a verified account's
\* address is one where its holder received a token, or an administrator's entry.
THEOREM VerifiedAddressesAreProven == AccessSpec => []VerifiedAddressProven
<1>1. RegistryInv => VerifiedAddressProven
  BY DEF RegistryInv, AddressInv, VerifiedAddressProven, Registry!VerifiedAddressProven
<1> QED
  BY <1>1, RegistryAlways, PTL

=============================================================================
