------------------------------ MODULE Account -------------------------------
(***************************************************************************)
(* Accounts and their addresses: registration and the flows with           *)
(* single-use action tokens of AuthService (verify the address, reset the  *)
(* password, change the address), account creation by an administrator,    *)
(* and the purge of the used tokens.                                       *)
(*                                                                         *)
(* Grain.  A step ends at each await between a read and the write that     *)
(* depends on it.  The end of the sessions on a reset or a change is       *)
(* EndAllSessions of Sessions; passwords are left out.                     *)
(*                                                                         *)
(* Data.  Time runs in units of 12 hours: an hour, and the 15 minutes of a *)
(* reset token, are over when the clock moves, and no request is older     *)
(* than one unit.  A date is kept as the units that are left until then.   *)
(* A token exists here once its mail has arrived.                          *)
(***************************************************************************)
EXTENDS Null, Integers, FiniteSets

CONSTANTS
    Users,
    Addresses,
    Tokens,
    Requests,
    ActionTtl,   \* VERIFY_EMAIL_TTL_SECONDS, in units
    RowTtl,      \* USED_TOKEN_RETENTION_MS, in units
    Retention,   \* RETENTION_MS of the purge, in units
    MailBudget   \* mails of one kind to one account within an hour

VARIABLES
    address,   \* user -> email, or None where there is no row
    verified,  \* users whose emailVerifiedAt is set
    status,    \* user -> "ACTIVE", "SUSPENDED", "DELETED"
    token,     \* token -> its claims and the address it was sent to, or None
    used,      \* <<jti, expiresAt>> of used_tokens, down to where the purge takes it
    mails,     \* <<purpose, user>> -> mails counted in the store, up to MailBudget
    request,   \* request -> its progress
    effects,   \* token -> times it has taken effect, up to 2
    proven     \* <<user, address>>: the holder showed a token sent there, or
               \* an administrator entered the address

vars == <<address, verified, status, token, used, mails, request, effects, proven>>
rows == <<address, verified, status, proven>>

Idle == [pc |-> "IDLE", late |-> FALSE]
Budgeted == {"VERIFY_EMAIL", "RESET_PASSWORD"}
ActionToken == [purpose : Budgeted \cup {"CHANGE_EMAIL"}, user : Users, to : Addresses,
                target : Addresses \cup {None}, left : Nat]

Init ==
    /\ address = [u \in Users |-> None]
    /\ verified = {}
    /\ status = [u \in Users |-> "ACTIVE"]
    /\ token = [t \in Tokens |-> None]
    /\ used = {}
    /\ mails = [k \in Budgeted \X Users |-> 0]
    /\ request = [r \in Requests |-> Idle]
    /\ effects = [t \in Tokens |-> 0]
    /\ proven = {}

At(r, pc) == request[r].pc = pc
Become(r, state) == request' = [request EXCEPT ![r] = state]
Taken(a) == \E u \in Users : address[u] = a

-----------------------------------------------------------------------------
(* Action tokens                                                           *)

Ttl(purpose) == IF purpose = "RESET_PASSWORD" THEN 1 ELSE ActionTtl

\* signActionToken and notify: the mail arrives, or its failure is swallowed and
\* nobody has the token.
Mail(t, purpose, u, to, target) ==
    \/ UNCHANGED token
    \/ /\ token[t] = None
       /\ token' = [token EXCEPT ![t] = [purpose |-> purpose, user |-> u, to |-> to,
                                         target |-> target, left |-> Ttl(purpose)]]

\* parseActionToken.
Parses(t, purpose) == token[t] # None /\ token[t].purpose = purpose /\ token[t].left > 0

\* The primary key of used_tokens.
Unused(t) == \A row \in used : row[1] # t

\* The insert into used_tokens that opens each of the transactions.
Consume(t) ==
    /\ Unused(t)
    /\ used' = used \cup {<<t, RowTtl>>}
    /\ effects' = [effects EXCEPT ![t] = IF @ < 2 THEN @ + 1 ELSE 2]

\* Mutant: the retention is added where it should be taken off.
ExpiresSoon(row) == row[2] < Retention

\* What the purge deletes.
Purgeable(row) == row[2] < -Retention

Purge ==
    /\ \E row \in used : Purgeable(row)
    /\ used' = {row \in used : ~Purgeable(row)}
    /\ UNCHANGED <<rows, token, mails, request, effects>>

-----------------------------------------------------------------------------
(* Registration and verification                                           *)

\* register finds the address free; a known one gets a notice and no row.
CheckRegister(r, a) ==
    /\ At(r, "IDLE")
    /\ ~Taken(a)
    /\ Become(r, [pc |-> "REGISTER", late |-> FALSE, address |-> a])
    /\ UNCHANGED <<rows, token, used, mails, effects>>

\* After the hash: the insert, or the unique index on the address.
Register(r, u, t) ==
    LET a == request[r].address IN
    /\ At(r, "REGISTER")
    /\ address[u] = None
    /\ IF Taken(a) THEN UNCHANGED <<address, token>>
       ELSE /\ address' = [address EXCEPT ![u] = a]
            /\ Mail(t, "VERIFY_EMAIL", u, a, None)
    /\ Become(r, Idle)
    /\ UNCHANGED <<verified, status, used, mails, effects, proven>>

\* AdminUsersService.create: the administrator vouches for the address.
CreateUser(u, a) ==
    /\ address[u] = None
    /\ ~Taken(a)
    /\ address' = [address EXCEPT ![u] = a]
    /\ verified' = verified \cup {u}
    /\ proven' = proven \cup {<<u, a>>}
    /\ UNCHANGED <<status, token, used, mails, request, effects>>

VerifyEmail(t) ==
    LET u == token[t].user IN
    /\ Parses(t, "VERIFY_EMAIL")
    /\ Consume(t)
    /\ verified' = verified \cup {u}
    /\ proven' = proven \cup {<<u, token[t].to>>}
    /\ UNCHANGED <<address, status, token, mails, request>>

\* resendVerification and forgotPassword read the account ...
ReadForMail(r, u, purpose) ==
    /\ At(r, "IDLE")
    /\ address[u] # None
    /\ status[u] = "ACTIVE"
    /\ purpose = "VERIFY_EMAIL" => u \notin verified
    /\ Become(r, [pc |-> "MAIL", late |-> FALSE, purpose |-> purpose, user |-> u, address |-> address[u]])
    /\ UNCHANGED <<rows, token, used, mails, effects>>

\* ... and mail a token to the address they read, within the budget.
MailToken(r, t) ==
    LET q == request[r] IN
    /\ At(r, "MAIL")
    /\ IF mails[<<q.purpose, q.user>>] < MailBudget
       THEN /\ mails' = [mails EXCEPT ![<<q.purpose, q.user>>] = @ + 1]
            /\ Mail(t, q.purpose, q.user, q.address, None)
       ELSE UNCHANGED <<mails, token>>
    /\ Become(r, Idle)
    /\ UNCHANGED <<rows, used, effects>>

-----------------------------------------------------------------------------
(* Reset of the password and change of the address                         *)

\* resetPassword checks the token, then hashes the password ...
ParseReset(r, t) ==
    /\ At(r, "IDLE")
    /\ Parses(t, "RESET_PASSWORD")
    /\ Become(r, [pc |-> "RESET", late |-> FALSE, token |-> t])
    /\ UNCHANGED <<rows, token, used, mails, effects>>

\* ... and stores it under the token, if nobody has used it.
ResetPassword(r) ==
    /\ At(r, "RESET")
    /\ \/ Consume(request[r].token)
       \/ ~Unused(request[r].token) /\ UNCHANGED <<used, effects>>
    /\ Become(r, Idle)
    /\ UNCHANGED <<rows, token, mails>>

\* Mutant: the confirmation goes to the address the account has.
ConfirmAtOld(u, a) == address[u]

\* Where requestChangeEmail sends the token.
ConfirmAt(u, a) == a

\* A caller is signed in, and only verified accounts sign in.
RequestChangeEmail(u, a, t) ==
    /\ u \in verified
    /\ status[u] = "ACTIVE"
    /\ ~Taken(a)
    /\ token[t] = None
    /\ Mail(t, "CHANGE_EMAIL", u, ConfirmAt(u, a), a)
    /\ UNCHANGED <<rows, used, mails, request, effects>>

\* confirmChangeEmail finds the address free ...
ParseChange(r, t) ==
    /\ At(r, "IDLE")
    /\ Parses(t, "CHANGE_EMAIL")
    /\ ~Taken(token[t].target)
    /\ Become(r, [pc |-> "CHANGE", late |-> FALSE, token |-> t])
    /\ UNCHANGED <<rows, token, used, mails, effects>>

\* ... and takes it, unless the token or the address has gone meanwhile: then the
\* transaction leaves nothing.
ConfirmChangeEmail(r) ==
    LET t == request[r].token
        u == token[t].user
    IN
    /\ At(r, "CHANGE")
    /\ \/ /\ Consume(t)
          /\ ~Taken(token[t].target)
          /\ address' = [address EXCEPT ![u] = token[t].target]
          /\ verified' = verified \cup {u}
          /\ proven' = proven \cup {<<u, token[t].to>>}
       \/ /\ ~Unused(t) \/ Taken(token[t].target)
          /\ UNCHANGED <<used, effects, address, verified, proven>>
    /\ Become(r, Idle)
    /\ UNCHANGED <<status, token, mails>>

-----------------------------------------------------------------------------
(* Administration, the clock and the process                               *)

\* AdminUsersService.update, and deactivate of either service.
SetStatus(u, s) ==
    /\ address[u] # None
    /\ status[u] \notin {"DELETED", s}
    /\ status' = [status EXCEPT ![u] = s]
    /\ UNCHANGED <<address, verified, token, used, mails, request, effects, proven>>

\* Half a day goes by.
Tick ==
    /\ \A r \in Requests : ~request[r].late
    /\ request' = [r \in Requests |-> [request[r] EXCEPT !.late = request[r].pc # "IDLE"]]
    /\ token' = [t \in Tokens |-> IF token[t] = None \/ token[t].left = 0 THEN token[t]
                                  ELSE [token[t] EXCEPT !.left = @ - 1]]
    /\ used' = {<<row[1], IF Purgeable(row) THEN row[2] ELSE row[2] - 1>> : row \in used}
    /\ mails' = [k \in Budgeted \X Users |-> 0]
    /\ UNCHANGED <<rows, effects>>

\* The budget is process memory.
Restart ==
    /\ mails' = [k \in Budgeted \X Users |-> 0]
    /\ request' = [r \in Requests |-> Idle]
    /\ UNCHANGED <<rows, token, used, effects>>

Next ==
    \/ \E r \in Requests, a \in Addresses : CheckRegister(r, a)
    \/ \E r \in Requests, u \in Users, t \in Tokens : Register(r, u, t)
    \/ \E u \in Users, a \in Addresses : CreateUser(u, a)
    \/ \E t \in Tokens : VerifyEmail(t)
    \/ \E r \in Requests, u \in Users, p \in Budgeted : ReadForMail(r, u, p)
    \/ \E r \in Requests, t \in Tokens : MailToken(r, t) \/ ParseReset(r, t) \/ ParseChange(r, t)
    \/ \E r \in Requests : ResetPassword(r) \/ ConfirmChangeEmail(r)
    \/ \E u \in Users, a \in Addresses, t \in Tokens : RequestChangeEmail(u, a, t)
    \/ \E u \in Users, s \in {"ACTIVE", "SUSPENDED", "DELETED"} : SetStatus(u, s)
    \/ Purge
    \/ Tick
    \/ Restart

Spec == Init /\ [][Next]_vars

-----------------------------------------------------------------------------
(* Properties                                                              *)

\* An action token takes effect at most once, over concurrent presentations,
\* restarts and purges: its row in used_tokens is kept for as long as the token,
\* or a request that has already checked it, can still come.
TokensUsedOnce == \A t \in Tokens : effects[t] <= 1

\* A verified account's address is one at which its holder received a token of
\* this account, or that an administrator entered, however registrations and
\* changes of address of several accounts interleave.
VerifiedAddressProven ==
    \A u \in verified : <<u, address[u]>> \in proven

=============================================================================
