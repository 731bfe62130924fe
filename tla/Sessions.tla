------------------------------ MODULE Sessions ------------------------------
(***************************************************************************)
(* The sessions of one account: AuthService (login, refresh, logout and    *)
(* every operation that ends sessions), AdminUsersService and JwtAuthGuard *)
(* over the tables users, sessions and refresh_tokens and the in-memory    *)
(* denylist.  Accounts share nothing here, so one is enough.               *)
(*                                                                         *)
(* Grain.  Every statement or transaction that is awaited is a step, so    *)
(* what login and refresh read of the user or the session may be stale     *)
(* when it is used.  JwtAuthGuard reads the user first and the session     *)
(* after it; a session that is open at the second read was open at the     *)
(* first, so the state predicate Admits stands for both reads.             *)
(*                                                                         *)
(* Data.  An access token is issued together with one refresh token; the   *)
(* pair has one id and its row keeps the pwdver claim.  Passwords, TOTP    *)
(* codes and mails are left out: an operation that checks them happens or  *)
(* does not.  An expiresAt is kept as "has it passed".                     *)
(***************************************************************************)
EXTENDS Null, Integers, FiniteSets

CONSTANTS
    Sids,        \* session ids
    Pairs,       \* ids of token pairs
    AuthCalls,   \* requests that may be in flight together
    MaxVersion   \* bound on pwd_version

ASSUME SessionsAssumption ==
    /\ MaxVersion \in Nat
    /\ None \notin Sids
    /\ None \notin Pairs

\* "suspended" is is_active = false, "deleted" has deleted_at set as well.
UserState == {"active", "suspended", "deleted"}

Pair == [state : {"absent", "live", "revoked"}, session : Sids \cup {None},
         pwdver : 0..MaxVersion, parent : Pairs \cup {None}]

\* A request in flight.  Login: about to read the version, to create the
\* session.  Refresh: about to read the user, to consume the token, to read the
\* session, to insert the successor, to treat the call as a replay; pwdver and
\* usable are the users row as it was read.  revokeSession: about to revoke the
\* tokens.
Request == [pc : {"idle", "issue", "create", "user", "consume", "check", "rotate",
                  "replay", "tokens"},
            token : Pairs \cup {None}, session : Sids \cup {None},
            pwdver : 0..MaxVersion, usable : BOOLEAN]

VARIABLES
    userState,      \* state of the users row
    emailVerified,  \* whether its email_verified_at is set
    version,        \* pwd_version
    authSession,        \* session id -> "absent", "open", "revoked"
    lapsed,         \* sessions whose expires_at has passed
    pair,           \* token id -> row
    expired,        \* tokens whose expires_at has passed
    denied,         \* token pairs whose access token's jti is in the denylist
    authCall,       \* request -> its progress
    refreshed,      \* token -> refresh calls with it that ran to their end, up to 2
    ended           \* sessions that an operation has declared over

sessionVars == <<userState, emailVerified, version, authSession, lapsed, pair, expired, denied,
                 authCall, refreshed, ended>>

NoPair == [state |-> "absent", session |-> None, pwdver |-> 0, parent |-> None]

NoRequest == [pc |-> "idle", token |-> None, session |-> None, pwdver |-> 0, usable |-> TRUE]

SessionsInit ==
    /\ userState = "active"
    /\ emailVerified \in BOOLEAN
    /\ version = 0
    /\ authSession = [s \in Sids |-> "absent"]
    /\ lapsed = {}
    /\ pair = [t \in Pairs |-> NoPair]
    /\ expired = {}
    /\ denied = {}
    /\ authCall = [r \in AuthCalls |-> NoRequest]
    /\ refreshed = [t \in Pairs |-> 0]
    /\ ended = {}

-----------------------------------------------------------------------------
\* JwtAuthGuard.canActivate for the access token of pair t.
Admits(t) ==
    /\ pair[t].state # "absent"
    /\ t \notin denied
    /\ userState = "active"
    /\ pair[t].pwdver = version
    /\ authSession[pair[t].session] = "open"
    /\ pair[t].session \notin lapsed

Revoked(t) == [state |-> "revoked", session |-> pair[t].session,
               pwdver |-> pair[t].pwdver, parent |-> pair[t].parent]

\* updateMany({ revoked: false } -> true) over refresh_tokens of the sessions S.
TokensRevoked(S) ==
    [t \in Pairs |-> IF pair[t].state = "live" /\ pair[t].session \in S
                      THEN Revoked(t) ELSE pair[t]]

\* Mutant: only the tokens are revoked.
SessionsKept(S) == authSession

\* updateMany({ revoked: false } -> true) over the sessions S.
SessionsRevoked(S) ==
    [s \in Sids |-> IF s \in S /\ authSession[s] = "open" THEN "revoked" ELSE authSession[s]]

\* The sessions there are.
Existing == {s \in Sids : authSession[s] # "absent"}

\* Neither deleted nor inactive nor with an address that was never verified.
Usable == userState = "active" /\ emailVerified

AtStep(r, pc) == authCall[r].pc = pc

Done(r) == authCall' = [authCall EXCEPT ![r] = NoRequest]

GotoStep(r, pc) ==
    authCall' = [authCall EXCEPT ![r] =
                  [pc |-> pc, token |-> authCall[r].token, session |-> authCall[r].session,
                   pwdver |-> authCall[r].pwdver, usable |-> authCall[r].usable]]

\* A refresh call with token t has run to its end.
CountRefresh(t) ==
    refreshed' = [refreshed EXCEPT ![t] = IF refreshed[t] < 2 THEN refreshed[t] + 1 ELSE 2]

-----------------------------------------------------------------------------
(* login and mfaLoginVerify                                                *)

\* Every check on the user that was read has passed.
Login(r) ==
    /\ AtStep(r, "idle")
    /\ Usable
    /\ authCall' = [authCall EXCEPT ![r] = [pc |-> "issue", token |-> None, session |-> None,
                                          pwdver |-> 0, usable |-> TRUE]]
    /\ UNCHANGED <<userState, emailVerified, version, authSession, lapsed, pair, expired, denied,
                   refreshed, ended>>

\* issueSession reads the user again, for the version alone.
ReadVersion(r) ==
    /\ AtStep(r, "issue")
    /\ authCall' = [authCall EXCEPT ![r] = [pc |-> "create", token |-> None, session |-> None,
                                          pwdver |-> version, usable |-> TRUE]]
    /\ UNCHANGED <<userState, emailVerified, version, authSession, lapsed, pair, expired, denied,
                   refreshed, ended>>

\* issueSession's transaction: session and first refresh token.
CreateSession(r, s, t) ==
    /\ AtStep(r, "create")
    /\ authSession[s] = "absent"
    /\ pair[t].state = "absent"
    /\ authSession' = [authSession EXCEPT ![s] = "open"]
    /\ pair' = [pair EXCEPT ![t] = [state |-> "live", session |-> s,
                                      pwdver |-> authCall[r].pwdver, parent |-> None]]
    /\ Done(r)
    /\ UNCHANGED <<userState, emailVerified, version, lapsed, expired, denied, refreshed, ended>>

-----------------------------------------------------------------------------
(* refresh                                                                 *)

\* The row of the token is read; of the user of a token that was used, only the id
\* matters.
ReadToken(r, t) ==
    /\ AtStep(r, "idle")
    /\ pair[t].state # "absent"
    /\ authCall' = [authCall EXCEPT ![r] =
                     [pc |-> IF pair[t].state = "revoked" THEN "replay" ELSE "user",
                      token |-> t, session |-> pair[t].session, pwdver |-> 0, usable |-> TRUE]]
    /\ UNCHANGED <<userState, emailVerified, version, authSession, lapsed, pair, expired, denied,
                   refreshed, ended>>

\* The include reads the user; an expired token is then refused, unused.
ReadUser(r) ==
    /\ AtStep(r, "user")
    /\ IF authCall[r].token \in expired THEN Done(r)
       ELSE authCall' = [authCall EXCEPT ![r] =
                          [pc |-> "consume", token |-> authCall[r].token,
                           session |-> authCall[r].session, pwdver |-> version,
                           usable |-> Usable]]
    /\ UNCHANGED <<userState, emailVerified, version, authSession, lapsed, pair, expired, denied,
                   refreshed, ended>>

\* Mutant: the consuming UPDATE does not ask whether the token is live.
AlwaysConsumable(r) == TRUE

\* The WHERE clause of the consuming UPDATE.
Consumable(r) == pair[authCall[r].token].state = "live"

\* Mutant: the loser of the race is merely refused.
ConsumeOrRefuse(r) ==
    /\ AtStep(r, "consume")
    /\ IF Consumable(r)
       THEN /\ pair' = [pair EXCEPT ![authCall[r].token] = Revoked(authCall[r].token)]
            /\ GotoStep(r, "check")
            /\ UNCHANGED refreshed
       ELSE /\ Done(r)
            /\ CountRefresh(authCall[r].token)
            /\ UNCHANGED pair
    /\ UNCHANGED <<userState, emailVerified, version, authSession, lapsed, expired, denied, ended>>

\* One caller consumes the token; a caller that comes too late is a replay.
Consume(r) ==
    /\ AtStep(r, "consume")
    /\ IF Consumable(r)
       THEN /\ pair' = [pair EXCEPT ![authCall[r].token] = Revoked(authCall[r].token)]
            /\ GotoStep(r, "check")
       ELSE /\ GotoStep(r, "replay")
            /\ UNCHANGED pair
    /\ UNCHANGED <<userState, emailVerified, version, authSession, lapsed, expired, denied,
                   refreshed, ended>>

\* revokeEverythingForUser.
Replay(r) ==
    /\ AtStep(r, "replay")
    /\ authSession' = SessionsRevoked(Sids)
    /\ pair' = TokensRevoked(Sids)
    /\ CountRefresh(authCall[r].token)
    /\ Done(r)
    /\ ended' = ended \cup Existing
    /\ UNCHANGED <<userState, emailVerified, version, lapsed, expired, denied>>

\* The user as read before must be usable, the session as read now not revoked.
CheckSession(r) ==
    /\ AtStep(r, "check")
    /\ IF authCall[r].usable /\ authSession[authCall[r].session] # "revoked"
       THEN /\ GotoStep(r, "rotate")
            /\ UNCHANGED refreshed
       ELSE /\ Done(r)
            /\ CountRefresh(authCall[r].token)
    /\ UNCHANGED <<userState, emailVerified, version, authSession, lapsed, pair, expired, denied,
                   ended>>

\* The successor is inserted, with the version read before; in a session that
\* has expired it is born expired.
Rotate(r, t) ==
    /\ AtStep(r, "rotate")
    /\ pair[t].state = "absent"
    /\ pair' = [pair EXCEPT ![t] = [state |-> "live", session |-> authCall[r].session,
                                      pwdver |-> authCall[r].pwdver,
                                      parent |-> authCall[r].token]]
    /\ expired' = IF authCall[r].session \in lapsed THEN expired \cup {t} ELSE expired
    /\ CountRefresh(authCall[r].token)
    /\ Done(r)
    /\ UNCHANGED <<userState, emailVerified, version, authSession, lapsed, denied, ended>>

\* A statement fails or the client's request dies; what is committed stays.
RequestDies(r) ==
    /\ ~AtStep(r, "idle")
    /\ Done(r)
    /\ UNCHANGED <<userState, emailVerified, version, authSession, lapsed, pair, expired, denied,
                   refreshed, ended>>

-----------------------------------------------------------------------------
(* Operations that end sessions                                            *)

\* Mutant: the access token is denylisted and nothing else happens.
LogoutDenyOnly(t) ==
    /\ pair[t].state # "absent"
    /\ denied' = denied \cup {t}
    /\ ended' = ended \cup {pair[t].session}
    /\ UNCHANGED <<userState, emailVerified, version, authSession, lapsed, pair, expired, authCall,
                   refreshed>>

\* logout, with the access token of pair t.
Logout(t) ==
    /\ pair[t].state # "absent"
    /\ authSession' = SessionsRevoked({pair[t].session})
    /\ pair' = TokensRevoked({pair[t].session})
    /\ denied' = denied \cup {t}
    /\ ended' = ended \cup {pair[t].session}
    /\ UNCHANGED <<userState, emailVerified, version, lapsed, expired, authCall, refreshed>>

\* revokeSession: the session first, its tokens in a second statement.
RevokeSession(r, s) ==
    /\ AtStep(r, "idle")
    /\ authSession[s] = "open"
    /\ authSession' = SessionsRevoked({s})
    /\ authCall' = [authCall EXCEPT ![r] = [pc |-> "tokens", token |-> None, session |-> s,
                                          pwdver |-> 0, usable |-> TRUE]]
    /\ ended' = ended \cup {s}
    /\ UNCHANGED <<userState, emailVerified, version, lapsed, pair, expired, denied, refreshed>>

RevokeTokens(r) ==
    /\ AtStep(r, "tokens")
    /\ pair' = TokensRevoked({authCall[r].session})
    /\ Done(r)
    /\ UNCHANGED <<userState, emailVerified, version, authSession, lapsed, expired, denied,
                   refreshed, ended>>

Bumped == version + 1

\* One transaction ends every session and bumps the version: resetPassword,
\* confirmChangeEmail, totpDisable, changePassword, logoutAll and the
\* administrator's update of role or password.  changePassword and logoutAll
\* also denylist the caller's access token.
EndAllSessions(D) ==
    /\ version < MaxVersion
    /\ version' = Bumped
    /\ authSession' = SessionsRevoked(Sids)
    /\ pair' = TokensRevoked(Sids)
    /\ denied' = denied \cup D
    /\ ended' = ended \cup Existing
    /\ UNCHANGED <<userState, emailVerified, lapsed, expired, authCall, refreshed>>

\* deactivate, by the owner (who denylists the own access token) or by an
\* administrator; the version stays.
Deactivate(D) ==
    /\ userState # "deleted"
    /\ userState' = "deleted"
    /\ authSession' = SessionsRevoked(Sids)
    /\ pair' = TokensRevoked(Sids)
    /\ denied' = denied \cup D
    /\ ended' = ended \cup Existing
    /\ UNCHANGED <<emailVerified, version, lapsed, expired, authCall, refreshed>>

\* The administrator's update with isActive = false.
Suspend ==
    /\ userState # "deleted"
    /\ version < MaxVersion
    /\ userState' = "suspended"
    /\ version' = Bumped
    /\ authSession' = SessionsRevoked(Sids)
    /\ pair' = TokensRevoked(Sids)
    /\ ended' = ended \cup Existing
    /\ UNCHANGED <<emailVerified, lapsed, expired, denied, authCall, refreshed>>

\* StudentsService.softDelete, second statement: the account of the deleted profile
\* is inactive, its sessions, tokens and version stay.  A process that dies before it
\* leaves the account active for good.
DeleteStudent ==
    /\ userState = "active"
    /\ userState' = "suspended"
    /\ UNCHANGED <<emailVerified, version, authSession, lapsed, pair, expired, denied, authCall,
                   refreshed, ended>>

\* The administrator's update with isActive = true changes nothing else: after a
\* DeleteStudent the old sessions are good again.
Reinstate ==
    /\ userState = "suspended"
    /\ userState' = "active"
    /\ UNCHANGED <<emailVerified, version, authSession, lapsed, pair, expired, denied, authCall,
                   refreshed, ended>>

\* verifyEmail; confirmChangeEmail, which also ends all sessions, verifies too.
VerifyEmail ==
    /\ emailVerified' = TRUE
    /\ UNCHANGED <<userState, version, authSession, lapsed, pair, expired, denied, authCall,
                   refreshed, ended>>

-----------------------------------------------------------------------------
(* The process and the clock                                               *)

\* The denylist is process memory.
Restart ==
    /\ denied' = {}
    /\ authCall' = [r \in AuthCalls |-> NoRequest]
    /\ UNCHANGED <<userState, emailVerified, version, authSession, lapsed, pair, expired,
                   refreshed, ended>>

\* A session's first token has the session's own expires_at; a successor
\* expires after the session.
SessionExpires(s) ==
    /\ authSession[s] # "absent"
    /\ s \notin lapsed
    /\ lapsed' = lapsed \cup {s}
    /\ expired' = expired \cup {t \in Pairs : pair[t].session = s /\ pair[t].parent = None}
    /\ UNCHANGED <<userState, emailVerified, version, authSession, pair, denied, authCall,
                   refreshed, ended>>

TokenExpires(t) ==
    /\ pair[t].session \in lapsed
    /\ t \notin expired
    /\ expired' = expired \cup {t}
    /\ UNCHANGED <<userState, emailVerified, version, authSession, lapsed, pair, denied, authCall,
                   refreshed, ended>>

-----------------------------------------------------------------------------
\* The caller's own token, or nobody's.
Callers == {{}} \cup {{t} : t \in {u \in Pairs : pair[u].state # "absent"}}

SessionsNext ==
    \/ \E r \in AuthCalls : Login(r) \/ ReadVersion(r)
    \/ \E r \in AuthCalls, s \in Sids, t \in Pairs : CreateSession(r, s, t)
    \/ \E r \in AuthCalls, t \in Pairs : ReadToken(r, t) \/ Rotate(r, t)
    \/ \E r \in AuthCalls :
          ReadUser(r) \/ Consume(r) \/ Replay(r) \/ CheckSession(r) \/ RequestDies(r)
    \/ \E t \in Pairs : Logout(t)
    \/ \E r \in AuthCalls, s \in Sids : RevokeSession(r, s)
    \/ \E r \in AuthCalls : RevokeTokens(r)
    \/ \E D \in Callers : EndAllSessions(D) \/ Deactivate(D)
    \/ Suspend
    \/ DeleteStudent
    \/ Reinstate
    \/ VerifyEmail
    \/ Restart
    \/ \E s \in Sids : SessionExpires(s)
    \/ \E t \in Pairs : TokenExpires(t)

SessionsSpec == SessionsInit /\ [][SessionsNext]_sessionVars

-----------------------------------------------------------------------------
(* Properties                                                              *)

\* Every variable stays in its type.
SessionsTypeOK ==
    /\ userState \in UserState
    /\ emailVerified \in BOOLEAN
    /\ version \in 0..MaxVersion
    /\ authSession \in [Sids -> {"absent", "open", "revoked"}]
    /\ lapsed \subseteq Sids
    /\ pair \in [Pairs -> Pair]
    /\ expired \subseteq Pairs
    /\ denied \subseteq Pairs
    /\ authCall \in [AuthCalls -> Request]
    /\ refreshed \in [Pairs -> 0..2]
    /\ ended \subseteq Sids

\* Refresh calls that have consumed a token of session s and not yet inserted
\* its successor.
Rotating(s) == {r \in AuthCalls : /\ authCall[r].pc \in {"check", "rotate"}
                                  /\ authCall[r].session = s}

Live(s) == {t \in Pairs : pair[t].state = "live" /\ pair[t].session = s}

\* Rotation never forks: a session has one live refresh token, or one refresh
\* call on its way to insert the next one, or none, however many calls present
\* the same token at once.
RotationNeverForks ==
    \A s \in Sids :
        /\ \A t, u \in Live(s) : t = u
        /\ \A r, q \in Rotating(s) : r = q
        /\ Live(s) # {} => Rotating(s) = {}

\* "Reusing an already-consumed token is treated as theft": when two refresh
\* calls with one token have run to their end, in whatever interleaving, the
\* session they belong to has been ended.
ReuseEndsSession ==
    \A t \in Pairs : refreshed[t] = 2 => authSession[pair[t].session] = "revoked"

\* A session that logout, revocation, a replay, a change of credentials or of
\* the account has declared over stays over: none of its tokens is admitted,
\* not even a successor that a refresh already under way inserts afterwards,
\* nor what that successor is exchanged for.
EndedSessionStaysDead ==
    \A t \in Pairs : pair[t].session \in ended => ~Admits(t)

\* The denylist adds nothing that a restart could lose: whoever is denylisted
\* is refused by the tables alone.
DenylistIsRedundant == \A t \in denied : authSession[pair[t].session] = "revoked"

=============================================================================
