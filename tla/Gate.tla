-------------------------------- MODULE Gate --------------------------------
(***************************************************************************)
(* The way of a request to its handler: IpThrottlerGuard, the stricter     *)
(* AuthIpThrottleGuard on the auth surface, JwtAuthGuard and RolesGuard,   *)
(* or the token of the metrics route, for every route, while the caller's  *)
(* account is being changed.                                               *)
(*                                                                         *)
(* Grain.  A guard that awaits the database is a step: the role is read by *)
(* JwtAuthGuard, the TOTP credential later by RolesGuard.                  *)
(*                                                                         *)
(* Data.  One client address and one account.  What Sessions says of a     *)
(* token (expired, denylisted, of an ended session) is one choice here.    *)
(* What a service answers on its own is left to the service's module.      *)
(***************************************************************************)
EXTENDS Null, Contract, Integers

CONSTANTS
    Requests,
    Limit,      \* RATE_LIMIT_MAX_REQUESTS
    AuthLimit   \* AUTH_IP_LIMIT_MAX

\* None stands for a caller nobody has identified, SCRAPER for one who has shown the
\* metrics token.
ASSUME CallersAssumption == None \notin Everyone \cup {"SCRAPER"}

VARIABLES
    account,   \* role, active, mfa: a TOTP credential exists
    hits,      \* requests counted in the window of the global throttle
    authHits,  \* ... and in the window of the auth surface
    request    \* request -> its progress

vars == <<account, hits, authHits, request>>

Idle == [pc |-> "IDLE", route |-> None, role |-> None, mfa |-> FALSE, status |-> 0]

Init ==
    /\ account \in [role : Everyone, active : {TRUE}, mfa : BOOLEAN]
    /\ hits = 0
    /\ authHits = 0
    /\ request = [r \in Requests |-> Idle]

At(r, pc) == request[r].pc = pc
Goto(r, pc) == request' = [request EXCEPT ![r].pc = pc]
Answer(r, status) == request' = [request EXCEPT ![r].pc = "DONE", ![r].status = status]

\* Guards of a route after the throttles.
AfterThrottles(rt) ==
    CASE Guarded(rt).auth = "jwt" -> "JWT"
      [] Guarded(rt).auth = "metrics" -> "METRICS"
      [] OTHER -> "HANDLER"

\* IpThrottlerGuard counts every request, the refused ones too; the model stops at
\* the first one beyond the limit, where all that follow are refused alike.
Arrive(r, rt) ==
    /\ At(r, "IDLE")
    /\ hits <= Limit
    /\ hits' = hits + 1
    /\ request' = [request EXCEPT ![r] =
          [pc |-> IF hits' > Limit THEN "DONE"
                  ELSE IF rt[1] = "auth" THEN "AUTH_IP" ELSE AfterThrottles(rt),
           route |-> rt, role |-> None, mfa |-> FALSE,
           status |-> IF hits' > Limit THEN 429 ELSE 0]]
    /\ UNCHANGED <<account, authHits>>

\* AuthIpThrottleGuard, on the class of AuthController.
CountAuthRequest(r) ==
    /\ At(r, "AUTH_IP")
    /\ authHits <= AuthLimit
    /\ authHits' = authHits + 1
    /\ IF authHits' > AuthLimit THEN Answer(r, 429)
       ELSE Goto(r, AfterThrottles(request[r].route))
    /\ UNCHANGED <<account, hits>>

\* JwtAuthGuard: without a good token, or for an account that is not active, a
\* uniform 401; the role is the one of the users row.
Authenticate(r, good) ==
    /\ At(r, "JWT")
    /\ IF good /\ account.active
       THEN request' = [request EXCEPT ![r].pc = "ROLES", ![r].role = account.role]
       ELSE Answer(r, 401)
    /\ UNCHANGED <<account, hits, authHits>>

\* getMetrics: 404 when the process has no METRICS_TOKEN (whether it has is left
\* open), 401 unless the bearer token is that one.
CheckMetricsToken(r, configured, good) ==
    /\ At(r, "METRICS")
    /\ IF configured /\ good
       THEN request' = [request EXCEPT ![r].pc = "HANDLER", ![r].role = "SCRAPER"]
       ELSE Answer(r, IF configured THEN 401 ELSE 404)
    /\ UNCHANGED <<account, hits, authHits>>

\* Mutant: the guard does not look at the metadata of the class.
HandlerRoles(rt) == Guarded(rt).roles

\* getAllAndOverride: the handler's @Roles, or else the class's.
RequiredRoles(rt) == IF Guarded(rt).roles # {} THEN Guarded(rt).roles ELSE ClassRoles(rt[1])

\* RolesGuard: 403 for another role, and for an administrator without TOTP.
CheckRoles(r) ==
    LET required == RequiredRoles(request[r].route)
        role == request[r].role
    IN  /\ At(r, "ROLES")
        /\ IF required # {} /\ (role \notin required \/ (role = "ADMIN" /\ ~account.mfa))
           THEN Answer(r, 403)
           ELSE request' = [request EXCEPT ![r].pc = "HANDLER", ![r].mfa = account.mfa]
        /\ UNCHANGED <<account, hits, authHits>>

\* The handler succeeds, and ResponseInterceptor wraps what it returns.
Succeed(r) ==
    /\ At(r, "HANDLER")
    /\ Answer(r, Guarded(request[r].route).ok)
    /\ UNCHANGED <<account, hits, authHits>>

\* The client has its answer.
Leave(r) ==
    /\ At(r, "DONE")
    /\ request' = [request EXCEPT ![r] = Idle]
    /\ UNCHANGED <<account, hits, authHits>>

\* The windows are fixed: they close a while after their first request.
WindowCloses ==
    /\ hits > 0
    /\ hits' = 0
    /\ UNCHANGED <<account, authHits, request>>

AuthWindowCloses ==
    /\ authHits > 0
    /\ authHits' = 0
    /\ UNCHANGED <<account, hits, request>>

\* AdminUsersService.update and deactivate change the role and is_active,
\* totpVerify and totpDisable the credential.
ChangeAccount(a) ==
    /\ a # account
    /\ a.mfa = account.mfa \/ (a.role = account.role /\ a.active = account.active)
    /\ account' = a
    /\ UNCHANGED <<hits, authHits, request>>

Next ==
    \/ \E r \in Requests, rt \in Routes : Arrive(r, rt)
    \/ \E r \in Requests : CountAuthRequest(r) \/ CheckRoles(r) \/ Succeed(r) \/ Leave(r)
    \/ \E r \in Requests, good \in BOOLEAN : Authenticate(r, good)
    \/ \E r \in Requests, configured, good \in BOOLEAN : CheckMetricsToken(r, configured, good)
    \/ WindowCloses
    \/ AuthWindowCloses
    \/ \E a \in [role : Everyone, active : BOOLEAN, mfa : BOOLEAN] : ChangeAccount(a)

Spec == Init /\ [][Next]_vars

-----------------------------------------------------------------------------
(* Properties                                                              *)

\* The guards keep what the API contract says of callers: a handler runs for
\* callers of the documented roles alone, an administrator among them with TOTP
\* enrolled, a public one for everybody, and that of the metrics for whoever has
\* its token; whoever is refused by a guard reads in the catalog of the route that
\* this can happen, and a caller of a documented role is refused only as an
\* administrator without TOTP.
GuardsKeepContract ==
    \A r \in Requests :
        LET q == request[r]
            d == Documented(q.route)
        IN  /\ q.pc = "HANDLER" =>
                 /\ d.auth = "public" <=> q.role = None
                 /\ d.auth = "metrics" <=> q.role = "SCRAPER"
                 /\ d.roles # {} => q.role \in d.roles
                 /\ (d.roles # {} /\ q.role = "ADMIN") => q.mfa
            /\ (q.pc = "DONE" /\ q.status \in {401, 403, 404}) => q.status \in d.errors
            /\ (q.pc = "DONE" /\ q.status = 403) => q.role \notin d.roles \ {"ADMIN"}

\* What the contract says of answers (enrich-openapi.ts: a success has the status of
\* the entry, 200 by default, and "per-endpoint error catalogs list the statuses
\* each route can produce"): an answer has the documented status of a success or
\* one of the catalog.  The code does not keep it: throttles answer 429 on routes
\* whose catalog has none, and POST handlers without @HttpCode answer 201 where
\* the entry is left at 200.
AnswersDocumented ==
    \A r \in Requests :
        LET d == Documented(request[r].route) IN
        request[r].pc = "DONE" => request[r].status \in {d.ok} \cup d.errors

=============================================================================
