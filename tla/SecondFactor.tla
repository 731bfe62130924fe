---------------------------- MODULE SecondFactor ----------------------------
(***************************************************************************)
(* The second factor of one account: AuthService.mfaLoginVerify, the TOTP  *)
(* operations and verifySensitiveCredentials, over TotpService and the     *)
(* in-memory store.                                                        *)
(*                                                                         *)
(* Grain.  A step ends at each await.  verifyCode awaits nothing, so its   *)
(* look at the lock, the replay guard, the check and the count of a        *)
(* failure are one step; the credential it works on was read before.       *)
(*                                                                         *)
(* Data.  Time runs in TOTP steps of 30 seconds.  The code of secret k for *)
(* step t is the pair <<k, t>>.  An entry of the store is kept with the    *)
(* time from which it is gone.                                             *)
(***************************************************************************)
EXTENDS Null, Integers, FiniteSets

CONSTANTS
    Requests,
    Secrets,      \* TOTP secrets, one per enrolment
    RecoveryCodes,
    MaxTime,      \* bound on the clock
    MaxFailures,  \* MAX_MFA_FAILURES
    BucketTtl,    \* FAILURE_BUCKET_TTL_MS, in steps
    GuardTtl      \* REPLAY_GUARD_MS, in steps

VARIABLES
    now,
    credential,  \* secret of the totp_credentials row, or None
    pending,     \* secret waiting for its first code, or None
    drawn,       \* secrets that have been generated
    recovery,    \* recovery code -> ABSENT, FREE or USED
    bucket,      \* the shared failure bucket: n failures, gone at until
    guarded,     \* <<code, until>> of the replay guard
    request,     \* request -> its progress
    accepted,    \* TOTP codes accepted since the process started, of late steps
    repeated,    \* ... and those accepted again
    granted      \* recovery code -> sign-ins it opened, up to 2

vars == <<now, credential, pending, drawn, recovery, bucket, guarded, request,
          accepted, repeated, granted>>
store == <<pending, bucket, guarded, accepted, repeated>>
tables == <<credential, recovery>>

Idle == [pc |-> "IDLE"]
NoFailures == [n |-> 0, until |-> 0]
TotpCodes == Secrets \X (0..MaxTime)

Init ==
    /\ now = 0
    /\ credential = None
    /\ pending = None
    /\ drawn = {}
    /\ recovery = [c \in RecoveryCodes |-> "ABSENT"]
    /\ bucket = NoFailures
    /\ guarded = {}
    /\ request = [r \in Requests |-> Idle]
    /\ accepted = {}
    /\ repeated = {}
    /\ granted = [c \in RecoveryCodes |-> 0]

At(r, pc) == request[r].pc = pc
Become(r, state) == request' = [request EXCEPT ![r] = state]

-----------------------------------------------------------------------------
(* TotpService                                                             *)

Failures == IF now < bucket.until THEN bucket.n ELSE 0

\* assertNotLocked.
NotLocked == Failures < MaxFailures

\* increment keeps the window that the first failure opened.
CountFailure ==
    bucket' = [n |-> Failures + 1,
               until |-> IF Failures = 0 THEN now + BucketTtl ELSE bucket.until]

\* The authenticator's window is one step on either side.
InWindow(secret, code) == code[1] = secret /\ code[2] \in now - 1 .. now + 1

Replayed(code) == \E g \in guarded : g[1] = code /\ now < g[2]

\* Mutant: the guard lets go of a code after one step.
GuardOneStep(code) == <<code, now + 1>>

Guard(code) == <<code, now + GuardTtl>>

\* Mutant: only the callers look at the lock.
AlwaysOpen == TRUE

\* The second look at the lock: the caller's own came before an await.
StillNotLocked == NotLocked

\* verifyCode accepts the code ...
Accepts(secret, code) ==
    /\ StillNotLocked
    /\ ~Replayed(code)
    /\ InWindow(secret, code)
    /\ bucket' = NoFailures
    /\ guarded' = {g \in guarded : now < g[2] /\ g[1] # code} \cup {Guard(code)}
    /\ accepted' = accepted \cup {code}
    /\ repeated' = IF code \in accepted THEN repeated \cup {code} ELSE repeated

\* ... or counts a failure, and answers 401 itself when that was the last one.
Rejects(secret, code) ==
    /\ StillNotLocked
    /\ Replayed(code) \/ ~InWindow(secret, code)
    /\ CountFailure
    /\ UNCHANGED <<guarded, accepted, repeated>>

-----------------------------------------------------------------------------
(* mfaLoginVerify                                                          *)

\* With an mfa_pending token, up to the read of the credential; without one, or
\* locked, 401.
ReadCredential(r) ==
    /\ At(r, "IDLE")
    /\ NotLocked
    /\ credential # None
    /\ Become(r, [pc |-> "VERIFY", secret |-> credential])
    /\ UNCHANGED <<now, tables, drawn, store, granted>>

\* A TOTP code that is accepted opens the session.
VerifyTotp(r, code) ==
    /\ At(r, "VERIFY")
    /\ Accepts(request[r].secret, code)
    /\ Become(r, Idle)
    /\ UNCHANGED <<now, tables, drawn, pending, granted>>

\* A TOTP code that is not, or none while the account is locked, is refused.
RefuseTotp(r, code) ==
    /\ At(r, "VERIFY")
    /\ \/ Rejects(request[r].secret, code)
       \/ ~StillNotLocked /\ UNCHANGED <<bucket, guarded, accepted, repeated>>
    /\ Become(r, Idle)
    /\ UNCHANGED <<now, tables, drawn, pending, granted>>

\* A recovery code is no TOTP code: it counts as a failure first, and is looked
\* up only if that was not the last one.
TryRecovery(r, c) ==
    /\ At(r, "VERIFY")
    /\ StillNotLocked
    /\ CountFailure
    /\ Become(r, IF Failures + 1 < MaxFailures THEN [pc |-> "LOOKUP", code |-> c] ELSE Idle)
    /\ UNCHANGED <<now, tables, drawn, pending, guarded, accepted, repeated, granted>>

\* The WHERE clause of findFirst.
UnusedCode(c) == recovery[c] = "FREE"

LookUp(r) ==
    LET c == request[r].code IN
    /\ At(r, "LOOKUP")
    /\ Become(r, IF UnusedCode(c) THEN [pc |-> "SPEND", code |-> c] ELSE Idle)
    /\ UNCHANGED <<now, tables, drawn, store, granted>>

\* The update by id, and the session; the row may have gone with the factor.
Spend(r) ==
    LET c == request[r].code IN
    /\ At(r, "SPEND")
    /\ IF recovery[c] = "ABSENT" THEN UNCHANGED <<recovery, granted>>
       ELSE /\ recovery' = [recovery EXCEPT ![c] = "USED"]
            /\ granted' = [granted EXCEPT ![c] = IF @ < 2 THEN @ + 1 ELSE 2]
    /\ Become(r, Idle)
    /\ UNCHANGED <<now, credential, drawn, store>>

-----------------------------------------------------------------------------
(* Enrolment and the operations that ask for a code                        *)

\* totpEnable finds no credential; the fresh secret is stashed later, over the one
\* that was waiting.
ReadForEnable(r) ==
    /\ At(r, "IDLE")
    /\ credential = None
    /\ Become(r, [pc |-> "ENROL"])
    /\ UNCHANGED <<now, tables, drawn, store, granted>>

Stash(r, k) ==
    /\ At(r, "ENROL")
    /\ k \notin drawn
    /\ pending' = k
    /\ drawn' = drawn \cup {k}
    /\ Become(r, Idle)
    /\ UNCHANGED <<now, tables, bucket, guarded, accepted, repeated, granted>>

\* totpVerify takes the secret away, whatever comes of it.
TakePending(r, code) ==
    /\ At(r, "IDLE")
    /\ pending # None
    /\ pending' = None
    /\ \/ Accepts(pending, code) /\ Become(r, [pc |-> "ENABLE", secret |-> pending])
       \/ Rejects(pending, code) /\ UNCHANGED request
       \/ ~StillNotLocked /\ UNCHANGED <<bucket, guarded, accepted, repeated, request>>
    /\ UNCHANGED <<now, tables, drawn, granted>>

\* The transaction stores the credential with its recovery codes, unless the
\* account has got one in the meantime.
CreateCredential(r) ==
    /\ At(r, "ENABLE")
    /\ IF credential = None
       THEN /\ credential' = request[r].secret
            /\ recovery' = [c \in RecoveryCodes |-> "FREE"]
       ELSE UNCHANGED tables
    /\ Become(r, Idle)
    /\ UNCHANGED <<now, drawn, store, granted>>

\* totpValidate, and verifySensitiveCredentials of the operations that ask for a
\* code: the credential is read, then the code is verified against it.
ReadForValidation(r) ==
    /\ At(r, "IDLE")
    /\ credential # None
    /\ Become(r, [pc |-> "VALIDATE", secret |-> credential])
    /\ UNCHANGED <<now, tables, drawn, store, granted>>

Validate(r, code) ==
    /\ At(r, "VALIDATE")
    /\ \/ Accepts(request[r].secret, code) /\ Become(r, [pc |-> "CONFIRMED"])
       \/ Rejects(request[r].secret, code) /\ Become(r, Idle)
       \/ /\ ~StillNotLocked
          /\ Become(r, Idle)
          /\ UNCHANGED <<bucket, guarded, accepted, repeated>>
    /\ UNCHANGED <<now, tables, drawn, pending, granted>>

\* totpDisable deletes the credential and the codes; any other operation that
\* asked for the code leaves them alone (and is a step of Sessions).
Confirmed(r, disable) ==
    /\ At(r, "CONFIRMED")
    /\ IF disable
       THEN /\ credential' = None
            /\ recovery' = [c \in RecoveryCodes |-> "ABSENT"]
            /\ granted' = [c \in RecoveryCodes |-> 0]
       ELSE UNCHANGED <<credential, recovery, granted>>
    /\ Become(r, Idle)
    /\ UNCHANGED <<now, drawn, store>>

-----------------------------------------------------------------------------
(* The process and the clock                                               *)

\* A TOTP step goes by; what has expired is swept.
Tick ==
    /\ now < MaxTime
    /\ now' = now + 1
    /\ guarded' = {g \in guarded : now' < g[2]}
    /\ bucket' = IF now' < bucket.until THEN bucket ELSE NoFailures
    /\ accepted' = {code \in accepted : code[2] >= now}
    /\ UNCHANGED <<tables, drawn, pending, request, repeated, granted>>

\* A stashed secret lives ten minutes, longer than the clock runs here.
PendingExpires ==
    /\ pending # None
    /\ pending' = None
    /\ UNCHANGED <<now, tables, drawn, bucket, guarded, accepted, repeated, request, granted>>

\* The store is process memory.
Restart ==
    /\ pending' = None
    /\ bucket' = NoFailures
    /\ guarded' = {}
    /\ accepted' = {}
    /\ repeated' = {}
    /\ request' = [r \in Requests |-> Idle]
    /\ UNCHANGED <<now, tables, drawn, granted>>

Next ==
    \/ \E r \in Requests : \/ ReadCredential(r) \/ LookUp(r) \/ Spend(r) \/ ReadForEnable(r)
                           \/ CreateCredential(r) \/ ReadForValidation(r)
    \/ \E r \in Requests, code \in TotpCodes : \/ VerifyTotp(r, code) \/ RefuseTotp(r, code)
                                               \/ Validate(r, code) \/ TakePending(r, code)
    \/ \E r \in Requests, c \in RecoveryCodes : TryRecovery(r, c)
    \/ \E r \in Requests, k \in Secrets : Stash(r, k)
    \/ \E r \in Requests, disable \in BOOLEAN : Confirmed(r, disable)
    \/ Tick
    \/ PendingExpires
    \/ Restart

Spec == Init /\ [][Next]_vars

-----------------------------------------------------------------------------
(* Properties                                                              *)

\* While the process runs, a TOTP code is accepted at most once, over sign-in,
\* enrolment and confirmation together: the replay guard outlives the window in
\* which the authenticator would take the code again.
CodeAcceptedOnce == repeated = {}

\* The failure bucket never holds more than MAX_MFA_FAILURES, whichever of the
\* paths that share it are under way when it fills.
FailuresBounded == bucket.n <= MaxFailures

\* What the contract says of recovery codes ("Single-use 8-character recovery
\* codes"): of one enrolment, a code opens one session.  The code does not
\* keep it: the search asks for an unused code, the update that marks it used does
\* not, so two sign-ins that both found it unused are both let in.
RecoveryCodesWorkOnce == \A c \in RecoveryCodes : granted[c] <= 1

=============================================================================
