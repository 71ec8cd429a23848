--------------------------- MODULE RefreshTokens ---------------------------
(***************************************************************************)
(* AuthService.RefreshTokens (app/auth_refresh.go): rotation of the tokens *)
(* of a session, with detection of a reused refresh token.  Each element   *)
(* of Refreshes is one call.                                               *)
(***************************************************************************)
EXTENDS VerifyOTP

VARIABLE ref       \* per call: where it is, its arguments and locals, its result

RefreshResults ==
    {"none", "ok", "error", "ErrUnauthorized", "ErrSessionRevoked", "ErrDeviceMismatch",
     "ErrSessionExpired", "ErrRefreshTokenReuse", "ErrInvalidRefreshToken"}

RefreshCall ==
    [pc     : {"idle", "get", "update", "delete", "revoke", "done"},
     sid    : Verifications \cup {None},   \* the session and
     jti    : TokenIDs \cup {None},        \* the ID of the access token presented
     token  : TokenIDs \cup {None},        \* the refresh token presented; None is unknown
     device : Devices \cup {None},         \* None when the header is missing
     gen    : Nat,                         \* the token_generation read
     at     : Nat,                         \* the last clock reading
     tries  : Nat,                         \* requests repeated so far
     result : RefreshResults]

NewRefresh ==
    [pc |-> "idle", sid |-> None, jti |-> None, token |-> None, device |-> None,
     gen |-> 0, at |-> 0, tries |-> 0, result |-> "none"]

RefreshTypeOK == ref \in [Refreshes -> RefreshCall]
RefreshInit   == ref = [f \in Refreshes |-> NewRefresh]

\* The tokens that were handed out: an access token and a refresh token each, named
\* by the call; the session the access token names; and when it was minted.
Issued == {r \in Verifications : ver[r].result = "ok"}
          \cup {f \in Refreshes : ref[f].result = "ok"}
SessionOf(m) == IF m \in Verifications THEN m ELSE ref[m].sid
MintedAt(m)  == IF m \in Verifications THEN ver[m].at ELSE ref[m].at

\* The call returns an error; its locals are dead.
RefreshReturns(f, result) ==
    ref' = [ref EXCEPT ![f] = [NewRefresh EXCEPT !.pc = "done", !.result = result]]

\* Lines 20-33: the call arrives; an access token the service did not sign is
\* refused, an expired one is not.
RefreshArrives(f) ==
    /\ ref[f].pc = "idle"
    /\ \/ \E m \in Issued, t \in Issued \cup {None}, d \in Devices \cup {None} :
            ref' = [ref EXCEPT ![f] =
                [@ EXCEPT !.pc = "get", !.sid = SessionOf(m), !.jti = m,
                          !.token = t, !.device = d]]
       \/ RefreshReturns(f, "ErrUnauthorized")
    /\ UNCHANGED tableVars

\* Mutant: whatever is not the current token counts as the previous one.
ReusedUncompared(s, token) == s.prev_token # None

\* Line 83: the token presented is the one the session had before its last rotation.
Reused(s, token) == s.prev_token # None /\ token = s.prev_token

\* Lines 35-84: the session is read and the request is checked against it, in
\* this order: device, expiry, current token, previous token.  The new expiry is
\* computed from the clock read here.
CheckSession(f) ==
    LET c == ref[f] IN
    /\ c.pc = "get"
    /\ \/ GetByID(c.sid) = {} /\ RefreshReturns(f, "ErrSessionRevoked")
       \/ \E s \in GetByID(c.sid) :
            LET usable == s.device_id = c.device /\ ~After(now, s.expires_at) IN
            \/ s.device_id # c.device /\ RefreshReturns(f, "ErrDeviceMismatch")
            \/ /\ s.device_id = c.device
               /\ After(now, s.expires_at)
               /\ RefreshReturns(f, "ErrSessionExpired")
            \/ /\ usable
               /\ c.token = s.refresh_token
               /\ ref' = [ref EXCEPT ![f] =
                      [@ EXCEPT !.pc = "update", !.at = now, !.gen = s.token_generation]]
            \/ /\ usable
               /\ c.token # s.refresh_token /\ Reused(s, c.token)
               /\ ref' = [ref EXCEPT ![f].pc = "delete"]
            \/ /\ usable
               /\ c.token # s.refresh_token /\ ~Reused(s, c.token)
               /\ RefreshReturns(f, "ErrInvalidRefreshToken")
       \/ "dynamo" \in Faults /\ RefreshReturns(f, "error")
    /\ UNCHANGED tableVars

\* rotateRefreshToken: the session is updated, then the access token is minted.
RotateToken(f) ==
    LET c == ref[f]
        update == UpdateSession(c.sid, f, c.token, c.gen + 1,
                                RFC3339(c.at + RefreshTokenLifetime))
    IN
    /\ c.pc = "update"
    /\ \/ /\ update
          /\ \/ ref' = [ref EXCEPT ![f] =
                    [@ EXCEPT !.pc = "done", !.result = "ok", !.at = now, !.gen = 0]]
             \/ Faults \cap {"dynamo", "mint"} # {} /\ RefreshReturns(f, "error")
             \/ /\ ReplyLost("dynamo", c.tries)
                /\ ref' = [ref EXCEPT ![f].tries = @ + 1]
       \/ "dynamo" \in Faults /\ RefreshReturns(f, "error") /\ UNCHANGED sessions
    /\ UNCHANGED <<otp, userVars, sessionIndex, revoked, historyVars>>

\* Lines 84-89: a reused token deletes the session; a failure is only logged.
DeleteReused(f) ==
    /\ ref[f].pc = "delete"
    /\ DeleteSession(ref[f].sid) \/ ("dynamo" \in Faults /\ UNCHANGED sessions)
    /\ ref' = [ref EXCEPT ![f].pc = "revoke"]
    /\ UNCHANGED <<otp, userVars, sessionIndex, revoked, historyVars>>

\* Lines 90-99: and revokes the access token presented; a failure is only logged.
RevokeReused(f) ==
    /\ ref[f].pc = "revoke"
    /\ Revoke(<<"jti", ref[f].jti>>) \/ ("redis" \in Faults /\ UNCHANGED revoked)
    /\ RefreshReturns(f, "ErrRefreshTokenReuse")
    /\ UNCHANGED <<otp, userVars, sessions, sessionIndex, historyVars>>

RefreshStep(f) ==
    /\ \/ RefreshArrives(f)
       \/ CheckSession(f)
       \/ RotateToken(f)
       \/ DeleteReused(f)
       \/ RevokeReused(f)
    /\ UNCHANGED <<now, limiterVars, ver>>
=============================================================================
