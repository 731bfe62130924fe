--------------------------- MODULE SessionsProofs ---------------------------
(***************************************************************************)
(* Theorems about Sessions, for every set of sessions, tokens and          *)
(* concurrent requests.                                                    *)
(***************************************************************************)
EXTENDS Sessions, TLAPS

\* Refresh calls between their first read and their end.
Refreshing(r) == authCall[r].pc \in {"user", "consume", "check", "rotate", "replay"}

\* Refresh calls that have consumed their token.
Holding(r) == authCall[r].pc \in {"check", "rotate"}

\* How rows and requests refer to each other.
Linked ==
    /\ \A t \in Pairs : pair[t].state # "absent" =>
          pair[t].session \in Sids /\ authSession[pair[t].session] # "absent"
    /\ \A t \in Pairs : pair[t].state = "absent" => pair[t].session = None
    /\ \A r \in AuthCalls : Refreshing(r) =>
          /\ authCall[r].token \in Pairs
          /\ pair[authCall[r].token].state # "absent"
          /\ pair[authCall[r].token].session = authCall[r].session
    /\ \A r \in AuthCalls : Holding(r) => pair[authCall[r].token].state = "revoked"

\* The holder of a session's one place: RotationNeverForks without sets.
OneHolder ==
    /\ \A t, u \in Pairs :
          (/\ pair[t].state = "live" /\ pair[u].state = "live"
           /\ pair[t].session = pair[u].session) => t = u
    /\ \A r, q \in AuthCalls :
          (Holding(r) /\ Holding(q) /\ authCall[r].session = authCall[q].session) => r = q
    /\ \A t \in Pairs, r \in AuthCalls :
          (pair[t].state = "live" /\ Holding(r)) => pair[t].session # authCall[r].session

\* A token with which a refresh has ended is used up, and the call that
\* consumed it is over unless the session is.
UsedUp ==
    /\ \A t \in Pairs : refreshed[t] > 0 => pair[t].state = "revoked"
    /\ \A t \in Pairs : refreshed[t] = 1 =>
          \/ authSession[pair[t].session] = "revoked"
          \/ \A r \in AuthCalls : Holding(r) => authCall[r].token # t
    /\ ReuseEndsSession

\* What has been declared over is revoked in the tables.
Over ==
    /\ \A s \in ended : authSession[s] = "revoked"
    /\ \A t \in denied : pair[t].state # "absent" /\ authSession[pair[t].session] = "revoked"

IInv == SessionsTypeOK /\ Linked /\ OneHolder /\ UsedUp /\ Over

\* The account starts without sessions, tokens and requests.
LEMMA InitInv == SessionsInit => IInv
  BY SessionsAssumption
  DEF SessionsInit, IInv, SessionsTypeOK, Linked, OneHolder, UsedUp, Over, ReuseEndsSession,
      Refreshing, Holding, NoPair, NoRequest, Pair, Request, UserState

\* logout revokes the session it declares over, and revives none.
LEMMA LogoutEnds ==
    ASSUME SessionsTypeOK, Linked, Over, NEW t \in Pairs, Logout(t)
    PROVE  Over'
<1>1. \A s \in Sids : authSession[s] = "revoked" => authSession'[s] = "revoked"
    BY DEF Logout, SessionsRevoked
<1>2. \A u \in Pairs : /\ pair'[u].session = pair[u].session
                       /\ pair[u].state # "absent" => pair'[u].state # "absent"
    BY DEF Logout, TokensRevoked, Revoked
<1>3. pair[t].session \in Sids /\ authSession'[pair[t].session] = "revoked"
    BY DEF Logout, SessionsRevoked, Linked, SessionsTypeOK
<1>4. \A u \in denied : u \in Pairs /\ pair[u].session \in Sids
    BY DEF Over, Linked, SessionsTypeOK
<1>5. ended \subseteq Sids /\ pair[t].state # "absent"
    BY DEF SessionsTypeOK, Logout
<1>6. ended' = ended \cup {pair[t].session} /\ denied' = denied \cup {t}
    BY DEF Logout
<1>7. \A s \in ended' : authSession'[s] = "revoked"
    BY <1>1, <1>3, <1>5, <1>6 DEF Over
<1>8. ASSUME NEW u \in denied'
      PROVE  pair'[u].state # "absent" /\ authSession'[pair'[u].session] = "revoked"
  <2>1. CASE u \in denied
    <3>1. /\ u \in Pairs /\ pair[u].session \in Sids /\ pair[u].state # "absent"
          /\ authSession[pair[u].session] = "revoked"
        BY <1>4, <2>1 DEF Over
    <3> QED
        BY <1>1, <1>2, <3>1
  <2>2. CASE u = t
      BY <1>2, <1>3, <1>5, <2>2
  <2> QED
      BY <1>6, <1>8, <2>1, <2>2
<1> QED
    BY <1>7, <1>8 DEF Over

\* Every operation keeps the invariant.
LEMMA NextInv == IInv /\ [SessionsNext]_sessionVars => IInv'
<1> USE SessionsAssumption
    DEF IInv, SessionsTypeOK, Linked, OneHolder, UsedUp, Over, ReuseEndsSession, Refreshing,
        Holding, Pair, Request, NoPair, UserState
<1> SUFFICES ASSUME IInv, [SessionsNext]_sessionVars
             PROVE  IInv'
    OBVIOUS
<1>1. ASSUME NEW r \in AuthCalls, Login(r)
      PROVE  IInv'
    BY <1>1 DEF Login, AtStep
<1>2. ASSUME NEW r \in AuthCalls, ReadVersion(r)
      PROVE  IInv'
    BY <1>2 DEF ReadVersion, AtStep
<1>3. ASSUME NEW r \in AuthCalls, NEW s \in Sids, NEW t \in Pairs, CreateSession(r, s, t)
      PROVE  IInv'
    BY <1>3 DEF CreateSession, AtStep, Done, NoRequest
<1>4. ASSUME NEW r \in AuthCalls, NEW t \in Pairs, ReadToken(r, t)
      PROVE  IInv'
    BY <1>4 DEF ReadToken, AtStep
<1>5. ASSUME NEW r \in AuthCalls, ReadUser(r)
      PROVE  IInv'
  <2>1. CASE Done(r)
      BY <1>5, <2>1 DEF ReadUser, AtStep, Done, NoRequest
  <2>2. CASE ~Done(r)
    <3> DEFINE c == [pc |-> "consume", token |-> authCall[r].token,
                     session |-> authCall[r].session, pwdver |-> version, usable |-> Usable]
    <3>1. Usable \in BOOLEAN
        BY Zenon DEF Usable
    <3>2. c \in Request
        BY <3>1
    <3>3. /\ c.pc = "consume" /\ c.token = authCall[r].token /\ c.session = authCall[r].session
          /\ authCall' = [authCall EXCEPT ![r] = c] /\ authCall[r].pc = "user"
        BY <1>5, <2>2 DEF ReadUser, AtStep
    <3> HIDE DEF c
    <3> QED
        BY <1>5, <3>2, <3>3 DEF ReadUser
  <2> QED
      BY <2>1, <2>2
<1>6. ASSUME NEW r \in AuthCalls, Consume(r)
      PROVE  IInv'
  <2> DEFINE t == authCall[r].token
  <2>1. /\ t \in Pairs /\ AtStep(r, "consume")
        /\ UNCHANGED <<userState, emailVerified, version, authSession, lapsed, expired, denied,
                       refreshed, ended>>
      BY <1>6 DEF Consume, AtStep
  <2>2. CASE Consumable(r)
    <3>1. pair' = [pair EXCEPT ![t] = Revoked(t)] /\ GotoStep(r, "check")
        BY <1>6, <2>2 DEF Consume
    <3>2. SessionsTypeOK'
        BY <2>1, <3>1 DEF GotoStep, Revoked
    <3>3. Linked'
        BY <2>1, <2>2, <3>1 DEF GotoStep, Revoked, Consumable, AtStep
    <3>4. OneHolder'
        BY <2>1, <2>2, <3>1 DEF GotoStep, Revoked, Consumable, AtStep
    <3>5. UsedUp'
        BY <2>1, <2>2, <3>1 DEF GotoStep, Revoked, Consumable, AtStep
    <3>6. Over'
        BY <2>1, <2>2, <3>1 DEF Revoked, Consumable
    <3> QED
        BY <3>2, <3>3, <3>4, <3>5, <3>6
  <2>3. CASE ~Consumable(r)
    <3>1. pair' = pair /\ GotoStep(r, "replay")
        BY <1>6, <2>3 DEF Consume
    <3> QED
        BY <2>1, <3>1 DEF GotoStep, AtStep
  <2> QED
      BY <2>2, <2>3
<1>7. ASSUME NEW r \in AuthCalls, Replay(r)
      PROVE  IInv'
    BY <1>7
    DEF Replay, AtStep, Done, NoRequest, CountRefresh, SessionsRevoked, TokensRevoked, Revoked,
        Existing
<1>8. ASSUME NEW r \in AuthCalls, CheckSession(r)
      PROVE  IInv'
  <2>1. /\ authCall[r].token \in Pairs /\ AtStep(r, "check")
        /\ UNCHANGED <<userState, emailVerified, version, authSession, lapsed, pair, expired,
                       denied, ended>>
      BY <1>8 DEF CheckSession, AtStep
  <2>2. CASE UNCHANGED refreshed /\ GotoStep(r, "rotate")
      BY <2>1, <2>2 DEF GotoStep, AtStep
  <2>3. CASE Done(r) /\ CountRefresh(authCall[r].token)
    <3>1. SessionsTypeOK' /\ Linked' /\ OneHolder' /\ Over'
        BY <2>1, <2>3 DEF Done, NoRequest, CountRefresh, AtStep
    <3>2. UsedUp'
        BY <2>1, <2>3 DEF Done, NoRequest, CountRefresh, AtStep
    <3> QED
        BY <3>1, <3>2
  <2> QED
      BY <1>8, <2>2, <2>3 DEF CheckSession
<1>9. ASSUME NEW r \in AuthCalls, NEW t \in Pairs, Rotate(r, t)
      PROVE  IInv'
    BY <1>9 DEF Rotate, AtStep, Done, NoRequest, CountRefresh
<1>10. ASSUME NEW r \in AuthCalls, RequestDies(r)
      PROVE  IInv'
    BY <1>10 DEF RequestDies, AtStep, Done, NoRequest
<1>11. ASSUME NEW t \in Pairs, Logout(t)
      PROVE  IInv'
  <2>1. SessionsTypeOK'
      BY <1>11 DEF Logout, SessionsRevoked, TokensRevoked, Revoked
  <2>2. Linked'
      BY <1>11 DEF Logout, SessionsRevoked, TokensRevoked, Revoked
  <2>3. OneHolder'
      BY <1>11 DEF Logout, SessionsRevoked, TokensRevoked, Revoked
  <2>4. UsedUp'
      BY <1>11 DEF Logout, SessionsRevoked, TokensRevoked, Revoked
  <2>5. Over'
      BY <1>11, LogoutEnds
  <2> QED
      BY <2>1, <2>2, <2>3, <2>4, <2>5
<1>12. ASSUME NEW r \in AuthCalls, NEW s \in Sids, RevokeSession(r, s)
      PROVE  IInv'
    BY <1>12 DEF RevokeSession, AtStep, SessionsRevoked
<1>13. ASSUME NEW r \in AuthCalls, RevokeTokens(r)
      PROVE  IInv'
    BY <1>13 DEF RevokeTokens, AtStep, Done, NoRequest, TokensRevoked, Revoked
<1>14. ASSUME NEW D \in Callers, EndAllSessions(D)
      PROVE  IInv'
    BY <1>14 DEF EndAllSessions, Callers, Bumped, SessionsRevoked, TokensRevoked, Revoked, Existing
<1>15. ASSUME NEW D \in Callers, Deactivate(D)
      PROVE  IInv'
    BY <1>15 DEF Deactivate, Callers, SessionsRevoked, TokensRevoked, Revoked, Existing
<1>16. ASSUME Suspend
      PROVE  IInv'
    BY <1>16 DEF Suspend, Bumped, SessionsRevoked, TokensRevoked, Revoked, Existing
<1>17. ASSUME Reinstate
      PROVE  IInv'
    BY <1>17 DEF Reinstate
<1>18. ASSUME Restart
      PROVE  IInv'
    BY <1>18 DEF Restart, NoRequest
<1>19. ASSUME NEW s \in Sids, SessionExpires(s)
      PROVE  IInv'
    BY <1>19 DEF SessionExpires
<1>20. ASSUME NEW t \in Pairs, TokenExpires(t)
      PROVE  IInv'
    BY <1>20 DEF TokenExpires
<1>21. ASSUME DeleteStudent
      PROVE  IInv'
    BY <1>21 DEF DeleteStudent
<1>22. ASSUME VerifyEmail
      PROVE  IInv'
    BY <1>22 DEF VerifyEmail
<1>23. CASE UNCHANGED sessionVars
    BY <1>23 DEF sessionVars
<1>q. QED
    BY <1>1, <1>2, <1>3, <1>4, <1>5, <1>6, <1>7, <1>8, <1>9, <1>10, <1>11, <1>12,
       <1>13, <1>14, <1>15, <1>16, <1>17, <1>18, <1>19, <1>20, <1>21, <1>22, <1>23
    DEF SessionsNext

\* The invariant holds throughout.
THEOREM SessionsInvariant == SessionsSpec => []IInv
  BY InitInv, NextInv, PTL DEF SessionsSpec

\* The tables and the requests in flight always have their types.
THEOREM SessionsTypeCorrect == SessionsSpec => []SessionsTypeOK
<1>1. IInv => SessionsTypeOK
    BY DEF IInv
<1> QED
    BY <1>1, SessionsInvariant, PTL

\* Refresh rotation is linear, however many refresh calls overlap.
THEOREM RotationIsLinear == SessionsSpec => []RotationNeverForks
<1>1. IInv => RotationNeverForks
    BY DEF IInv, OneHolder, Holding, RotationNeverForks, Live, Rotating
<1> QED
    BY <1>1, SessionsInvariant, PTL

\* Two finished refresh calls with one token always end its session.
THEOREM ReuseIsDetected == SessionsSpec => []ReuseEndsSession
<1>1. IInv => ReuseEndsSession
    BY DEF IInv, UsedUp
<1> QED
    BY <1>1, SessionsInvariant, PTL

\* No operation brings a session back that another one has ended.
THEOREM EndedForGood == SessionsSpec => []EndedSessionStaysDead
<1>1. IInv => EndedSessionStaysDead
    BY DEF IInv, Over, EndedSessionStaysDead, Admits
<1> QED
    BY <1>1, SessionsInvariant, PTL

\* A restart that empties the denylist lets nobody back in.
THEOREM RestartRevivesNothing == SessionsSpec => []DenylistIsRedundant
<1>1. IInv => DenylistIsRedundant
    BY DEF IInv, Over, DenylistIsRedundant
<1> QED
    BY <1>1, SessionsInvariant, PTL

=============================================================================
