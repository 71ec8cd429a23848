------------------------------- MODULE Logout -------------------------------
(***************************************************************************)
(* AuthService.Logout (app/auth_logout.go).  Each element of Logouts is    *)
(* one call.                                                               *)
(***************************************************************************)
EXTENDS RefreshTokens

VARIABLE out       \* per call: where it is, the access token presented, its result

LogoutCall ==
    [pc     : {"idle", "delete", "revoke", "done"},
     jti    : TokenIDs \cup {None},
     result : {"none", "ok", "error", "ErrUnauthorized"}]

NewLogout == [pc |-> "idle", jti |-> None, result |-> "none"]

LogoutTypeOK == out \in [Logouts -> LogoutCall]
LogoutInit   == out = [l \in Logouts |-> NewLogout]

LogoutReturns(l, result) ==
    out' = [out EXCEPT ![l] = [@ EXCEPT !.pc = "done", !.result = result]]

\* ValidateAccessToken: the exp claim is a whole second, the token is dead once it
\* is reached.
TokenExpired(m) == now >= RFC3339(MintedAt(m) + AccessTokenLifetime) * TicksPerSecond

\* Lines 16-29.
LogoutArrives(l) ==
    /\ out[l].pc = "idle"
    /\ \/ \E m \in Issued :
            /\ ~TokenExpired(m)
            /\ out' = [out EXCEPT ![l] = [@ EXCEPT !.pc = "delete", !.jti = m]]
       \/ LogoutReturns(l, "ErrUnauthorized")
    /\ UNCHANGED tableVars

\* Lines 31-35: a failure to delete the session is only logged.
LogoutDeletes(l) ==
    /\ out[l].pc = "delete"
    /\ DeleteSession(SessionOf(out[l].jti)) \/ ("dynamo" \in Faults /\ UNCHANGED sessions)
    /\ out' = [out EXCEPT ![l].pc = "revoke"]
    /\ UNCHANGED <<otp, userVars, sessionIndex, revoked, historyVars>>

\* Lines 37-42.
LogoutRevokes(l) ==
    /\ out[l].pc = "revoke"
    /\ \/ Revoke(<<"jti", out[l].jti>>) /\ LogoutReturns(l, "ok")
       \/ /\ "redis" \in Faults
          /\ Revoke(<<"jti", out[l].jti>>) \/ UNCHANGED revoked
          /\ LogoutReturns(l, "error")
    /\ UNCHANGED <<otp, userVars, sessions, sessionIndex, historyVars>>

LogoutStep(l) ==
    /\ \/ LogoutArrives(l)
       \/ LogoutDeletes(l)
       \/ LogoutRevokes(l)
    /\ UNCHANGED <<now, limiterVars, ver, ref>>
=============================================================================
