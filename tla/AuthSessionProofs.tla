-------------------------- MODULE AuthSessionProofs --------------------------
(***************************************************************************)
(* Proofs about the sessions and tokens of AuthService: SessionInv is an   *)
(* invariant, a logged-out token stays refused, an exchanged refresh token *)
(* stays exchanged, a deleted session stays deleted, and a session appears *)
(* exactly when an OTP is spent.                                           *)
(***************************************************************************)
EXTENDS AuthAccountProofs

\* The update of rotateRefreshToken.
Rotation(f) ==
    UpdateSession(ref[f].sid, f, ref[f].token, ref[f].gen + 1,
                  RFC3339(ref[f].at + RefreshTokenLifetime))

\* A rotated session has the new token and generation; the other sessions stay.
LEMMA RotatedSessions ==
    ASSUME NEW id, NEW token, NEW prev, NEW generation, NEW expiresAt,
           UpdateSession(id, token, prev, generation, expiresAt)
    PROVE  \A s \in sessions' :
                \/ s \in sessions /\ s.session_id # id
                \/ /\ s.session_id = id /\ s.refresh_token = token
                   /\ s.token_generation = generation
<1> DEFINE bare == [session_id |-> id, user_id |-> None, device_id |-> None, created_at |-> 0]
           set(s) == [session_id |-> id, user_id |-> s.user_id, device_id |-> s.device_id,
                      created_at |-> s.created_at, refresh_token |-> token,
                      prev_token |-> prev, token_generation |-> generation,
                      expires_at |-> expiresAt]
<1>1. \A s : /\ set(s).session_id = id /\ set(s).refresh_token = token
             /\ set(s).token_generation = generation
    OBVIOUS
<1>2. sessions' = (sessions \ GetByID(id)) \cup
                    (IF GetByID(id) = {} THEN {set(bare)} ELSE {set(s) : s \in GetByID(id)})
    BY DEF UpdateSession
<1> HIDE DEF set, bare
<1> QED
    BY <1>1, <1>2 DEF GetByID

\* What a step of RefreshTokens does to its call, the sessions and the keys: it takes up
\* tokens that were handed out, reads the session it names, rotates the token or returns.
LEMMA RefreshMoves ==
    ASSUME TypeOK, CallInv, IssuedInv, NEW f \in Refreshes, RefreshSteps(f)
    PROVE  /\ UNCHANGED <<now, ver, out, otp, commits>>
           /\ ref[f].pc # "done" /\ ref[f].result # "ok"
           /\ \A x \in Refreshes : x # f => ref'[x] = ref[x]
           /\ \/ ref'[f].sid = ref[f].sid /\ ref'[f].token = ref[f].token
              \/ ref'[f].sid = None /\ ref'[f].token = None
              \/ /\ \E m \in Issued : ref'[f].sid = SessionOf(m)
                 /\ ref'[f].token \in Issued \cup {None}
           /\ ref'[f].result = "ok" =>
                /\ ref[f].pc = "update" /\ Rotation(f)
                /\ ref'[f].pc = "done" /\ ref'[f].at = now
                /\ ref'[f].sid = ref[f].sid /\ ref'[f].token = ref[f].token
           /\ ref'[f].pc = "update" =>
                /\ ref'[f].sid = ref[f].sid
                /\ \/ ref[f].pc = "update" /\ ref'[f].gen = ref[f].gen
                   \/ /\ ref[f].pc = "get"
                      /\ \E s \in GetByID(ref[f].sid) :
                            s.refresh_token = ref[f].token /\ ref'[f].gen = s.token_generation
           /\ sessions' \subseteq sessions \/ (ref[f].pc = "update" /\ Rotation(f))
           /\ UNCHANGED revoked \/ \E k : Revoke(k)
<1> DEFINE Carried == ref'[f].sid = ref[f].sid /\ ref'[f].token = ref[f].token
           Cleared == ref'[f].sid = None /\ ref'[f].token = None
           Entered == /\ \E m \in Issued : ref'[f].sid = SessionOf(m)
                      /\ ref'[f].token \in Issued \cup {None}
           Rotated == /\ ref[f].pc = "update" /\ Rotation(f)
                      /\ ref'[f].pc = "done" /\ ref'[f].at = now /\ Carried
           Checked == /\ ref'[f].sid = ref[f].sid
                      /\ \/ ref[f].pc = "update" /\ ref'[f].gen = ref[f].gen
                         \/ /\ ref[f].pc = "get"
                            /\ \E s \in GetByID(ref[f].sid) :
                                  /\ s.refresh_token = ref[f].token
                                  /\ ref'[f].gen = s.token_generation
           Moved   == /\ Carried \/ Cleared \/ Entered
                      /\ ref'[f].result = "ok" => Rotated
                      /\ ref'[f].pc = "update" => Checked
<1>1. ref \in [Refreshes -> RefreshCall]
    BY DEF TypeOK, RefreshTypeOK
<1>2. ref[f].pc # "done" /\ ref[f].result # "ok"
  <2>1. ref[f].pc # "done"
    BY ZenonT(30)
    DEF RefreshSteps, RefreshStep, RefreshArrives, CheckSession, RotateToken, DeleteReused,
           RevokeReused
  <2> QED
    BY <2>1 DEF IssuedInv
<1>3. /\ UNCHANGED <<now, ver, out, otp, commits>>
      /\ sessions' \subseteq sessions \/ (ref[f].pc = "update" /\ Rotation(f))
      /\ UNCHANGED revoked \/ \E k : Revoke(k)
    BY ZenonT(30)
    DEF RefreshSteps, RefreshStep, RefreshArrives, CheckSession, RotateToken, DeleteReused,
           RevokeReused, limiterVars, tableVars, userVars, sessionVars, historyVars,
           DeleteSession, Rotation
<1>4. \A x \in Refreshes : x # f => ref'[x] = ref[x]
    BY <1>1, RefreshCallStep
<1>5. ASSUME NEW x, x # "ok", RefreshReturns(f, x)
      PROVE  Moved
  <2>1. Cleared /\ ref'[f].result = x /\ ref'[f].pc = "done"
    BY <1>1, <1>5 DEF RefreshReturns, NewRefresh
  <2> QED
    BY <1>5, <2>1
<1>6. ASSUME NEW x, x # "update", ref' = [ref EXCEPT ![f].pc = x]
      PROVE  Moved
  <2>1. Carried /\ ref'[f].result = ref[f].result /\ ref'[f].pc = x
    BY <1>1, <1>6 DEF RefreshCall
  <2> QED
    BY <1>2, <1>6, <2>1
<1>7. ASSUME NEW m \in Issued, NEW t \in Issued \cup {None}, NEW d,
             ref' = [ref EXCEPT ![f] = [@ EXCEPT !.pc = "get", !.sid = SessionOf(m), !.jti = m,
                                                 !.token = t, !.device = d]]
      PROVE  Moved
  <2>1. /\ ref'[f].sid = SessionOf(m) /\ ref'[f].token = t
        /\ ref'[f].result = ref[f].result /\ ref'[f].pc = "get"
    BY <1>1, <1>7 DEF RefreshCall
  <2> QED
    BY <1>2, <2>1
<1>8. ASSUME NEW s \in GetByID(ref[f].sid), ref[f].token = s.refresh_token, ref[f].pc = "get",
             ref' = [ref EXCEPT ![f] =
                       [@ EXCEPT !.pc = "update", !.at = now, !.gen = s.token_generation]]
      PROVE  Moved
  <2>1. Carried /\ ref'[f].result = ref[f].result /\ ref'[f].gen = s.token_generation
    BY <1>1, <1>8 DEF RefreshCall
  <2> QED
    BY <1>2, <1>8, <2>1
<1>9. ASSUME ref[f].pc = "update", Rotation(f),
             ref' = [ref EXCEPT ![f] =
                       [@ EXCEPT !.pc = "done", !.result = "ok", !.at = now, !.gen = 0]]
      PROVE  Moved
  <2>1. Carried /\ ref'[f].pc = "done" /\ ref'[f].at = now
    BY <1>1, <1>9 DEF RefreshCall
  <2> QED
    BY <1>9, <2>1
<1>10. ASSUME ref[f].pc = "update", ref' = [ref EXCEPT ![f].tries = @ + 1]
       PROVE  Moved
  <2>1. Carried /\ ref'[f].result = ref[f].result /\ ref'[f].gen = ref[f].gen
    BY <1>1, <1>10 DEF RefreshCall
  <2> QED
    BY <1>2, <1>10, <2>1
<1>11. Moved
  <2> HIDE DEF Moved
  <2>1. CASE RefreshArrives(f)
    BY ZenonT(30), <1>5, <1>7, <2>1 DEF RefreshArrives
  <2>2. CASE CheckSession(f)
    BY ZenonT(30), <1>5, <1>6, <1>8, <2>2 DEF CheckSession
  <2>3. CASE RotateToken(f)
    BY <1>5, <1>9, <1>10, <2>3 DEF RotateToken, Rotation
  <2>4. CASE DeleteReused(f)
    BY ZenonT(30), <1>6, <2>4 DEF DeleteReused
  <2>5. CASE RevokeReused(f)
    BY <1>5, <2>5 DEF RevokeReused
  <2> QED
    BY <2>1, <2>2, <2>3, <2>4, <2>5 DEF RefreshSteps, RefreshStep
<1> QED
    BY <1>2, <1>3, <1>4, <1>11

\* The login that commits adds its session, in the step that spends the OTP.
VerifyOpens(r) ==
    /\ VerifyCommits(r)
    /\ SessionIDFree(r)
    /\ \E u : /\ sessions' = sessions \cup {NewSession(r, u, ver[r].device, ver[r].at)}
              /\ \/ ver[r].pc = "login" /\ u = ver[r].user
                 \/ UserIDFree(u) /\ \E row \in users' : row.user_id = u

\* What a step of VerifyOTP does to its call, the sessions and the keys.
LEMMA VerifySessions ==
    ASSUME TypeOK, CallInv, IssuedInv, NEW r \in Verifications, VerifySteps(r)
    PROVE  /\ UNCHANGED <<now, ref, out>>
           /\ ver[r].result # "ok"
           /\ \A x \in Verifications : x # r => ver'[x] = ver[x]
           /\ ver'[r].result = "ok" => ver'[r].pc = "done" /\ ver'[r].at = now
           /\ \/ VerifyOpens(r)
              \/ /\ sessions' \subseteq sessions /\ UNCHANGED commits
                 /\ UNCHANGED otp \/ \E p : IncrementAttempts(p)
           /\ UNCHANGED revoked \/ \E k : Revoke(k)
<1>1. ver \in [Verifications -> VerifyCall] /\ ver[r] \in VerifyCall
    BY DEF TypeOK, VerifyTypeOK
<1>2. ver[r].pc # "done" /\ ver[r].result # "ok"
    BY CommitReturns DEF IssuedInv
<1>3. /\ UNCHANGED <<now, ref, out>>
      /\ UNCHANGED revoked \/ \E k : Revoke(k)
      /\ \A x \in Verifications : x # r => ver'[x] = ver[x]
    BY <1>1, VerifyEffects, VerifyLocals
<1>4. ver'[r].result = "ok" => ver'[r].pc = "done" /\ ver'[r].at = now
  <2>1. CASE VerifyMovesOn(r)
    BY <1>1, <1>2, <2>1 DEF VerifyMovesOn, Onward, Ended
  <2>2. CASE VerifyGuesses(r)
    BY <1>1, <1>2, <2>2 DEF VerifyGuesses, VerifyCall
  <2>3. CASE CountAttempt(r)
    BY ZenonT(30), <1>1, <1>2, <2>3
    DEF CountAttempt, VerifyReturns, RepeatVerify, NewCall, VerifyCall
  <2>4. CASE VerifyCommits(r)
    BY ZenonT(30), <1>1, <2>4 DEF VerifyCommits, Committed, VerifyReturns, NewCall
  <2> QED
    BY <2>1, <2>2, <2>3, <2>4, VerifyMoves
<1>5. \/ VerifyOpens(r)
      \/ /\ sessions' \subseteq sessions /\ UNCHANGED commits
         /\ UNCHANGED otp \/ \E p : IncrementAttempts(p)
  <2>1. CASE RegisterUser(r)
    <3>1. CASE VerifyOTPAndCreateUser(r, ver[r].phone, ver[r].mac, ver[r].exp, ver[r].device,
                                      ver[r].at) /\ Committed(r)
        BY ZenonT(30), <2>1, <3>1
        DEF RegisterUser, VerifyOTPAndCreateUser, CreateUserCond, VerifyOpens,
            VerifyCommits
    <3>2. CASE UNCHANGED tableVars
        BY <3>2 DEF tableVars, sessionVars, historyVars
    <3> QED
        BY <2>1, <3>1, <3>2 DEF RegisterUser
  <2>2. CASE CreateLoginSession(r)
    <3>1. CASE VerifyOTPAndCreateSession(r, ver[r].phone, ver[r].mac, ver[r].exp, ver[r].user,
                                         ver[r].device, ver[r].at) /\ Committed(r)
        BY ZenonT(30), <2>2, <3>1
        DEF CreateLoginSession, VerifyOTPAndCreateSession, CreateSessionCond,
            VerifyOpens, VerifyCommits
    <3>2. CASE UNCHANGED tableVars
        BY <3>2 DEF tableVars, sessionVars, historyVars
    <3> QED
        BY <2>2, <3>1, <3>2 DEF CreateLoginSession
  <2>3. CASE EvictSession(r)
    BY <2>3 DEF EvictSession, DeleteSession, historyVars
  <2>4. CASE \/ VerifyArrives(r) \/ CheckVerifyRate(r) \/ CheckVerifyLockout(r)
             \/ ValidateOTPRecord(r) \/ LockOut(r) \/ CountAttempt(r) \/ FindUser(r)
             \/ FindUserAfterRace(r) \/ ListSessions(r) \/ RevokeSession(r)
    BY ZenonT(30), <2>4
    DEF VerifyArrives, CheckVerifyRate, CheckVerifyLockout, ValidateOTPRecord, LockOut,
        CountAttempt, FindUser, FindUserAfterRace, ListSessions, RevokeSession, tableVars,
        sessionVars, historyVars
  <2> QED
    BY <2>1, <2>2, <2>3, <2>4 DEF VerifySteps, VerifyStep
<1> QED
    BY <1>2, <1>3, <1>4, <1>5

-----------------------------------------------------------------------------
(***************************************************************************)
(* SessionInv is an invariant.                                             *)
(***************************************************************************)

\* Tokens that were handed out stay handed out, with the time they were minted at, when
\* calls only ever begin to hand out tokens, and mint them now.
LEMMA TokensStay ==
    ASSUME TypeOK, TypeOK', IssuedInv, now <= now',
           \A r \in Verifications :
              \/ ver'[r] = ver[r]
              \/ /\ ver[r].result # "ok"
                 /\ ver'[r].result = "ok" => ver'[r].pc = "done" /\ ver'[r].at = now,
           \A f \in Refreshes :
              \/ ref'[f] = ref[f]
              \/ /\ ref[f].result # "ok"
                 /\ ref'[f].result = "ok" => ref'[f].pc = "done" /\ ref'[f].at = now
    PROVE  /\ IssuedInv'
           /\ Issued \subseteq Issued'
           /\ \A m \in Issued : MintedAt(m)' = MintedAt(m)
           /\ \A m \in Issued : m \in TokenIDs /\ MintedAt(m) \in Nat /\ MintedAt(m) <= now
<1>1. now \in Nat /\ now' \in Nat
    BY DEF TypeOK
<1>2. /\ \A r \in Verifications : ver[r].at \in Nat /\ ver'[r].at \in Nat
      /\ \A f \in Refreshes : ref[f].at \in Nat /\ ref'[f].at \in Nat
    BY DEF TypeOK, VerifyTypeOK, VerifyCall, RefreshTypeOK, RefreshCall
<1>3. IssuedInv'
    BY <1>1, <1>2 DEF IssuedInv
<1>4. Issued \subseteq Issued'
    BY DEF Issued
<1>5. ASSUME NEW m \in Issued
      PROVE  /\ MintedAt(m)' = MintedAt(m)
             /\ m \in TokenIDs /\ MintedAt(m) \in Nat /\ MintedAt(m) <= now
  <2>1. CASE m \in Verifications
    <3>1. ver[m].result = "ok"
        BY <2>1, IdentityAssumption DEF Issued
    <3> QED
        BY <1>2, <2>1, <3>1 DEF MintedAt, TokenIDs, IssuedInv
  <2>2. CASE m \notin Verifications
    <3>1. m \in Refreshes /\ ref[m].result = "ok"
        BY <2>2 DEF Issued
    <3> QED
        BY <1>2, <2>2, <3>1 DEF MintedAt, TokenIDs, IssuedInv
  <2> QED
    BY <2>1, <2>2
<1> QED
    BY <1>3, <1>4, <1>5

\* To set a key never shortens it, so a step that sets at most one key, and lets no token
\* change, keeps the keys of the tokens that were logged out.
LEMMA KeysStay ==
    ASSUME TypeOK, TypeOK', RevocationInv, now <= now', Issued \subseteq Issued',
           \A m \in Issued : MintedAt(m)' = MintedAt(m),
           UNCHANGED revoked \/ \E k : Revoke(k)
    PROVE  /\ \A k \in RevocationKeys : revoked'[k] <= now' + AccessTokenLifetime
           /\ \A k \in RevocationKeys : revoked[k] <= revoked'[k]
           /\ \A l \in Logouts : out'[l] = out[l] =>
                /\ out'[l].pc # "done" => out'[l].result = "none"
                /\ (out'[l].pc \notin {"idle", "done"} \/ out'[l].result = "ok")
                       => out'[l].jti \in Issued'
                /\ out'[l].result = "ok" =>
                       (MintedAt(out[l].jti) + AccessTokenLifetime <= revoked[<<"jti", out[l].jti>>])'
<1>1. /\ now \in Nat /\ now' \in Nat /\ AccessTokenLifetime \in Nat
      /\ revoked \in [RevocationKeys -> Nat] /\ revoked' \in [RevocationKeys -> Nat]
    BY LimitAssumption DEF TypeOK, SessionTypeOK
<1>2. /\ \A k \in RevocationKeys : revoked'[k] <= now' + AccessTokenLifetime
      /\ \A k \in RevocationKeys : revoked[k] <= revoked'[k]
  <2>1. CASE UNCHANGED revoked
    BY <1>1, <2>1 DEF RevocationInv
  <2>2. ASSUME NEW x, Revoke(x)
        PROVE  \A k \in RevocationKeys : /\ revoked'[k] <= now' + AccessTokenLifetime
                                         /\ revoked[k] <= revoked'[k]
    BY <1>1, <2>2 DEF RevocationInv, Revoke
  <2> QED
    BY <2>1, <2>2
<1>3. ASSUME NEW l \in Logouts, out'[l] = out[l], out[l].result = "ok"
      PROVE  (MintedAt(out[l].jti) + AccessTokenLifetime <= revoked[<<"jti", out[l].jti>>])'
  <2>1. out[l].jti \in Issued /\ out[l].jti \in TokenIDs
    BY ZenonT(30), <1>3 DEF RevocationInv, Issued, TokenIDs
  <2>2. PICK m \in Issued : m = out[l].jti
    BY <2>1
  <2>3. <<"jti", m>> \in RevocationKeys /\ MintedAt(m) \in Nat
    BY <2>1, <2>2 DEF RevocationKeys, MintedAt, TokenIDs, TypeOK, VerifyTypeOK, VerifyCall,
        RefreshTypeOK, RefreshCall
  <2>4. MintedAt(m) + AccessTokenLifetime <= revoked[<<"jti", m>>]
    BY <1>3, <2>2 DEF RevocationInv
  <2>5. MintedAt(m)' + AccessTokenLifetime <= revoked'[<<"jti", m>>]
    BY <1>1, <1>2, <2>2, <2>3, <2>4
  <2> QED
    BY <1>3, <2>2, <2>5 DEF MintedAt
<1> QED
    BY <1>2, <1>3 DEF RevocationInv

\* A step of VerifyOTP hands out tokens only as it returns, and a new session is not one
\* that a refresh knows of.
LEMMA VerifyKeepsSessions ==
    ASSUME TypeOK, TypeOK', CallInv, SessionInv, NEW r \in Verifications, VerifySteps(r)
    PROVE  SessionInv'
<1>1. IssuedInv /\ RotationInv /\ RevocationInv
    BY DEF SessionInv
<1>2. /\ UNCHANGED <<now, ref, out>>
      /\ ver[r].result # "ok"
      /\ \A x \in Verifications : x # r => ver'[x] = ver[x]
      /\ ver'[r].result = "ok" => ver'[r].pc = "done" /\ ver'[r].at = now
      /\ VerifyOpens(r) \/ sessions' \subseteq sessions
      /\ UNCHANGED revoked \/ \E k : Revoke(k)
    BY <1>1, VerifySessions
<1>3. now <= now'
    BY <1>2 DEF TypeOK
<1>4. /\ IssuedInv'
      /\ Issued \subseteq Issued'
      /\ \A m \in Issued : MintedAt(m)' = MintedAt(m)
    BY <1>1, <1>2, <1>3, TokensStay
<1>5. RevocationInv'
    BY ZenonT(30), <1>1, <1>2, <1>3, <1>4, KeysStay DEF RevocationInv
<1>6. \A s \in sessions' :
        s \in sessions \/ (s.session_id = r /\ s.token_generation = 1)
  <2>1. ASSUME NEW u, NEW d, NEW t, NEW s, s = NewSession(r, u, d, t)
        PROVE  s.session_id = r /\ s.token_generation = 1
    BY <2>1 DEF NewSession
  <2> QED
    BY <1>2, <2>1 DEF VerifyOpens
<1>7. RotationInv'
  <2>1. ASSUME NEW f \in Refreshes
        PROVE  /\ ref'[f].sid # None => ver'[ref'[f].sid].result = "ok"
               /\ ref'[f].token # None => ref'[f].token \in Issued'
               /\ ref'[f].pc = "update" => ref'[f].gen >= 1
    <3>1. ref[f].sid \in Verifications \cup {None}
        BY DEF TypeOK, RefreshTypeOK, RefreshCall
    <3> QED
        BY <1>1, <1>2, <1>4, <3>1 DEF RotationInv
  <2>2. ASSUME NEW f \in Refreshes, ref[f].result = "ok", NEW s \in sessions',
               s.session_id = ref[f].sid
        PROVE  s.refresh_token # ref[f].token
    <3>1. ref[f].sid \in Verifications
        BY <2>2 DEF CallInv, RefreshCallOK
    <3>2. ref[f].sid # r
        BY <1>1, <1>2, <3>1, IdentityAssumption DEF RotationInv
    <3> QED
        BY <1>1, <1>6, <2>2, <3>2 DEF RotationInv, GetByID
  <2>3. \A s \in sessions' : s.token_generation >= 1
    BY <1>1, <1>6 DEF RotationInv
  <2> QED
    BY ZenonT(30), <1>2, <2>1, <2>2, <2>3 DEF RotationInv, GetByID
<1> QED
    BY <1>4, <1>5, <1>7 DEF SessionInv

\* A refresh gives the session its own token, which nobody has been handed yet.
LEMMA RefreshKeepsSessions ==
    ASSUME TypeOK, TypeOK', CallInv, SessionInv, NEW f \in Refreshes, RefreshSteps(f)
    PROVE  SessionInv'
<1>1. IssuedInv /\ RotationInv /\ RevocationInv
    BY DEF SessionInv
<1>2. /\ UNCHANGED <<now, ver, out>>
      /\ ref[f].result # "ok"
      /\ \A x \in Refreshes : x # f => ref'[x] = ref[x]
      /\ \/ ref'[f].sid = ref[f].sid /\ ref'[f].token = ref[f].token
         \/ ref'[f].sid = None /\ ref'[f].token = None
         \/ /\ \E m \in Issued : ref'[f].sid = SessionOf(m)
            /\ ref'[f].token \in Issued \cup {None}
      /\ ref'[f].result = "ok" =>
           /\ ref[f].pc = "update" /\ Rotation(f)
           /\ ref'[f].pc = "done" /\ ref'[f].at = now
           /\ ref'[f].sid = ref[f].sid /\ ref'[f].token = ref[f].token
      /\ ref'[f].pc = "update" =>
           \/ ref[f].pc = "update" /\ ref'[f].gen = ref[f].gen
           \/ \E s \in GetByID(ref[f].sid) : ref'[f].gen = s.token_generation
      /\ sessions' \subseteq sessions \/ (ref[f].pc = "update" /\ Rotation(f))
      /\ UNCHANGED revoked \/ \E k : Revoke(k)
    BY ZenonT(30), <1>1, RefreshMoves
<1>3. now <= now'
    BY <1>2 DEF TypeOK
<1>4. /\ IssuedInv'
      /\ Issued \subseteq Issued'
      /\ \A m \in Issued : MintedAt(m)' = MintedAt(m)
    BY <1>1, <1>2, <1>3, TokensStay
<1>5. RevocationInv'
    BY ZenonT(30), <1>1, <1>2, <1>3, <1>4, KeysStay DEF RevocationInv
<1>6. f \notin Issued /\ f # None
    BY <1>2, IdentityAssumption DEF Issued
<1>7. \A m \in Issued : SessionOf(m) \in Verifications /\ ver[SessionOf(m)].result = "ok"
    BY <1>1, IdentityAssumption DEF Issued, SessionOf, RotationInv, CallInv, RefreshCallOK
<1>8. Rotation(f) => \A s \in sessions' :
        \/ s \in sessions /\ s.session_id # ref[f].sid
        \/ /\ s.session_id = ref[f].sid /\ s.refresh_token = f
           /\ s.token_generation = ref[f].gen + 1
    BY RotatedSessions DEF Rotation
<1>9. RotationInv'
  <2>1. ASSUME NEW x \in Refreshes
        PROVE  /\ ref'[x].sid # None => ver'[ref'[x].sid].result = "ok"
               /\ ref'[x].token # None => ref'[x].token \in Issued'
    <3>1. /\ ref[x].sid # None => ver[ref[x].sid].result = "ok"
          /\ ref[x].token # None => ref[x].token \in Issued
        BY <1>1 DEF RotationInv
    <3>2. UNCHANGED ver /\ Issued \subseteq Issued'
        BY <1>2, <1>4
    <3>3. CASE x # f
      <4>1. ref'[x] = ref[x]
        BY ZenonT(60), <1>2, <3>3
      <4> QED
        BY <3>1, <3>2, <4>1
    <3>4. CASE x = f
      <4>1. \/ ref'[f].sid = ref[f].sid /\ ref'[f].token = ref[f].token
            \/ ref'[f].sid = None /\ ref'[f].token = None
            \/ /\ \E m \in Issued : ref'[f].sid = SessionOf(m)
               /\ ref'[f].token \in Issued \cup {None}
        BY ZenonT(60), <1>2
      <4>2. CASE ref'[f].sid = ref[f].sid /\ ref'[f].token = ref[f].token
        BY <3>1, <3>2, <3>4, <4>2
      <4>3. CASE ref'[f].sid = None /\ ref'[f].token = None
        BY <3>4, <4>3
      <4>4. CASE /\ \E m \in Issued : ref'[f].sid = SessionOf(m)
                 /\ ref'[f].token \in Issued \cup {None}
        BY <1>7, <3>2, <3>4, <4>4
      <4> QED
        BY <4>1, <4>2, <4>3, <4>4
    <3> QED
        BY <3>3, <3>4
  <2>2. \A x \in Refreshes : ref'[x].pc = "update" => ref'[x].gen >= 1
    BY <1>1, <1>2 DEF RotationInv, GetByID
  <2>3. \A s \in sessions' : s.token_generation >= 1
    <3>1. ref[f].gen \in Nat
        BY DEF TypeOK, RefreshTypeOK, RefreshCall
    <3>2. \A s \in sessions : s.token_generation >= 1
        BY <1>1 DEF RotationInv
    <3>3. CASE sessions' \subseteq sessions
        BY <3>2, <3>3
    <3>4. CASE ref[f].pc = "update" /\ Rotation(f)
      <4>1. ref[f].gen + 1 >= 1
        BY <3>1
      <4> QED
        BY ZenonT(60), <1>8, <3>2, <3>4, <4>1
    <3> QED
        BY <1>2, <3>3, <3>4
  <2>4. ASSUME NEW x \in Refreshes, ref'[x].result = "ok", NEW s \in sessions',
               s.session_id = ref'[x].sid
        PROVE  s.refresh_token # ref'[x].token
    <3>1. CASE x # f
      <4>1. ref'[x] = ref[x] /\ ref[x].token # f
        <5>1. ref[x].token # None => ref[x].token \in Issued
            BY <1>1 DEF RotationInv
        <5>2. ref'[x] = ref[x]
            BY ZenonT(60), <1>2, <3>1
        <5>3. ref[x].token # f
            BY <1>6, <5>1
        <5> QED
            BY <5>2, <5>3
      <4> QED
        BY ZenonT(30), <1>1, <1>2, <1>8, <2>4, <4>1 DEF RotationInv, GetByID
    <3>2. CASE x = f
      <4>1. ref'[f].token = ref[f].token /\ ref[f].token # f /\ ref'[f].sid = ref[f].sid
        BY ZenonT(30), <1>1, <1>2, <1>6, <2>4, <3>2 DEF RotationInv
      <4> QED
        BY <1>2, <1>8, <2>4, <3>2, <4>1
    <3> QED
        BY <3>1, <3>2
  <2> QED
    BY <2>1, <2>2, <2>3, <2>4 DEF RotationInv, GetByID
<1> QED
    BY <1>4, <1>5, <1>9 DEF SessionInv

\* Steps that hand out nothing, start no refresh and only delete sessions.
LEMMA RotationStays ==
    ASSUME RotationInv, UNCHANGED <<ver, ref>>, sessions' \subseteq sessions
    PROVE  RotationInv'
BY DEF RotationInv, GetByID, Issued

\* What a step of Logout does to its call, the sessions and the keys.
LEMMA LogoutMoves ==
    ASSUME TypeOK, RevocationInv, NEW l \in Logouts, LogoutSteps(l)
    PROVE  /\ UNCHANGED <<now, ver, ref, otp, commits>>
           /\ sessions' \subseteq sessions
           /\ \A x \in Logouts : x # l => out'[x] = out[x]
           /\ out[l].pc # "done"
           /\ out'[l].pc # "done" => out'[l].result = "none"
           /\ (out'[l].pc \notin {"idle", "done"} \/ out'[l].result = "ok")
                => out'[l].jti \in Issued
           /\ UNCHANGED revoked \/ \E k : Revoke(k)
           /\ out'[l].result = "ok" => out'[l].jti = out[l].jti /\ Revoke(<<"jti", out[l].jti>>)
<1>1. out \in [Logouts -> LogoutCall] /\ out[l] \in LogoutCall
    BY DEF TypeOK, LogoutTypeOK
<1>2. /\ UNCHANGED <<now, ver, ref, otp, commits>>
      /\ sessions' \subseteq sessions
      /\ UNCHANGED revoked \/ \E k : Revoke(k)
    BY ZenonT(30)
    DEF LogoutSteps, LogoutStep, LogoutArrives, LogoutDeletes, LogoutRevokes, DeleteSession,
        tableVars, userVars, sessionVars, historyVars
<1>3. CASE LogoutArrives(l)
  <2>1. ASSUME NEW m \in Issued,
               out' = [out EXCEPT ![l] = [@ EXCEPT !.pc = "delete", !.jti = m]]
        PROVE  /\ out'[l].pc = "delete" /\ out'[l].jti = m /\ out'[l].result = out[l].result
               /\ \A x \in Logouts : x # l => out'[x] = out[x]
    BY <1>1, <2>1 DEF LogoutCall
  <2>2. CASE LogoutReturns(l, "ErrUnauthorized")
    <3>1. /\ out'[l].pc = "done" /\ out'[l].result = "ErrUnauthorized"
          /\ \A x \in Logouts : x # l => out'[x] = out[x]
        BY <1>1, <2>2 DEF LogoutCall, LogoutReturns
    <3> QED
        BY ZenonT(30), <1>2, <1>3, <3>1 DEF LogoutArrives
  <2>3. out[l].pc = "idle" /\ out[l].result = "none"
    BY ZenonT(30), <1>3 DEF LogoutArrives, RevocationInv
  <2> QED
    BY ZenonT(30), <1>2, <1>3, <2>1, <2>2, <2>3 DEF LogoutArrives
<1>4. CASE LogoutDeletes(l)
  <2>1. /\ out'[l].pc = "revoke" /\ out'[l].jti = out[l].jti /\ out'[l].result = out[l].result
        /\ \A x \in Logouts : x # l => out'[x] = out[x]
    BY <1>1, <1>4 DEF LogoutDeletes, LogoutCall
  <2>2. out[l].pc = "delete" /\ out[l].result = "none" /\ out[l].jti \in Issued
    BY ZenonT(30), <1>4 DEF LogoutDeletes, RevocationInv
  <2> QED
    BY ZenonT(30), <1>2, <2>1, <2>2
<1>5. CASE LogoutRevokes(l)
  <2>1. ASSUME NEW x, LogoutReturns(l, x)
        PROVE  /\ out'[l].pc = "done" /\ out'[l].result = x /\ out'[l].jti = out[l].jti
               /\ \A y \in Logouts : y # l => out'[y] = out[y]
    BY <1>1, <2>1 DEF LogoutReturns, LogoutCall
  <2>2. out[l].pc = "revoke" /\ out[l].jti \in Issued
    BY <1>5 DEF LogoutRevokes, RevocationInv
  <2> QED
    BY <1>2, <1>5, <2>1, <2>2 DEF LogoutRevokes
<1> QED
    BY ZenonT(30), <1>3, <1>4, <1>5 DEF LogoutSteps, LogoutStep

\* The key that Logout sets outlasts the token, which was minted before.
LEMMA LogoutKeepsSessions ==
    ASSUME TypeOK, TypeOK', SessionInv, NEW l \in Logouts, LogoutSteps(l)
    PROVE  SessionInv'
<1>1. IssuedInv /\ RotationInv /\ RevocationInv
    BY DEF SessionInv
<1>2. /\ UNCHANGED <<now, ver, ref>>
      /\ sessions' \subseteq sessions
      /\ \A x \in Logouts : x # l => out'[x] = out[x]
      /\ out'[l].pc # "done" => out'[l].result = "none"
      /\ (out'[l].pc \notin {"idle", "done"} \/ out'[l].result = "ok") => out'[l].jti \in Issued
      /\ UNCHANGED revoked \/ \E k : Revoke(k)
      /\ out'[l].result = "ok" => out'[l].jti = out[l].jti /\ Revoke(<<"jti", out[l].jti>>)
    BY ZenonT(60), <1>1, LogoutMoves
<1>3. now <= now' /\ now \in Nat
    BY <1>2 DEF TypeOK
<1>4. /\ IssuedInv'
      /\ Issued \subseteq Issued'
      /\ \A m \in Issued : MintedAt(m)' = MintedAt(m)
      /\ \A m \in Issued : m \in TokenIDs /\ MintedAt(m) \in Nat /\ MintedAt(m) <= now
    BY <1>1, <1>2, <1>3, TokensStay
<1>5. ASSUME out'[l].result = "ok"
      PROVE  (MintedAt(out[l].jti) + AccessTokenLifetime <= revoked[<<"jti", out[l].jti>>])'
  <2>1. PICK m \in Issued : m = out'[l].jti
    BY <1>2, <1>5
  <2>2. <<"jti", m>> \in RevocationKeys
    BY <1>4, <2>1 DEF RevocationKeys
  <2>3. revoked'[<<"jti", m>>] = now + AccessTokenLifetime
    BY <1>2, <1>5, <2>1, <2>2 DEF Revoke, TypeOK, SessionTypeOK
  <2>4. MintedAt(m)' + AccessTokenLifetime <= revoked'[<<"jti", m>>]
    BY <1>3, <1>4, <2>1, <2>3, LimitAssumption
  <2> QED
    BY <2>1, <2>4 DEF MintedAt
<1>6. RevocationInv'
    BY ZenonT(30), <1>1, <1>2, <1>3, <1>4, <1>5, KeysStay DEF RevocationInv
<1>7. RotationInv'
    BY ZenonT(30), <1>1, <1>2, RotationStays
<1> QED
    BY <1>4, <1>6, <1>7 DEF SessionInv

\* Time, the TTL, the indexes and RequestOTP leave the tokens, the calls that use them and
\* the keys alone, and only delete sessions.
LEMMA OthersMove ==
    ASSUME TypeOK, \/ TimePasses \/ TableMaintenance \/ UNCHANGED vars
                   \/ \E q \in OTPRequests : RequestSteps(q)
    PROVE  /\ UNCHANGED <<ver, ref, out, revoked, commits>>
           /\ now <= now'
           /\ sessions' \subseteq sessions
<1>1. now \in Nat
    BY DEF TypeOK
<1>2. CASE TimePasses \/ TableMaintenance \/ UNCHANGED vars
    BY <1>1, <1>2 DEF TimePasses, Tick, TableMaintenance, ExpireSessionItem, PropagateSession,
        tableVars, userVars, sessionVars, historyVars, vars
<1>3. ASSUME NEW q \in OTPRequests, RequestSteps(q)
      PROVE  UNCHANGED <<ver, ref, out, revoked, commits, sessions>>
    BY <1>3 DEF RequestSteps, sessionVars, historyVars
<1>4. ASSUME NEW q \in OTPRequests, RequestSteps(q)
      PROVE  now <= now'
    BY <1>1, <1>4, RequestLife
<1> QED
    BY <1>2, <1>3, <1>4

\* RequestOTP, the clock and the maintenance of the tables leave sessions and tokens alone.
LEMMA OthersKeepSessions ==
    ASSUME TypeOK, TypeOK', SessionInv,
           \/ TimePasses \/ TableMaintenance \/ UNCHANGED vars
           \/ \E q \in OTPRequests : RequestSteps(q)
    PROVE  SessionInv'
<1>1. IssuedInv /\ RotationInv /\ RevocationInv
    BY DEF SessionInv
<1>2. UNCHANGED <<ver, ref, out, revoked>> /\ now <= now' /\ sessions' \subseteq sessions
    BY OthersMove
<1>3. /\ IssuedInv'
      /\ Issued \subseteq Issued'
      /\ \A m \in Issued : MintedAt(m)' = MintedAt(m)
    BY <1>1, <1>2, TokensStay
<1>4. RevocationInv'
    BY <1>1, <1>2, <1>3, KeysStay DEF RevocationInv
<1>5. RotationInv'
    BY <1>1, <1>2, RotationStays
<1> QED
    BY <1>3, <1>4, <1>5 DEF SessionInv

\* The service starts without sessions and tokens.
LEMMA SessionInvInit == Init => SessionInv
<1> SUFFICES ASSUME Init PROVE SessionInv
    OBVIOUS
<1>1. /\ \A r \in Verifications : ver[r].result = "none"
      /\ \A f \in Refreshes : /\ ref[f].result = "none" /\ ref[f].sid = None
                              /\ ref[f].token = None /\ ref[f].pc = "idle"
      /\ \A l \in Logouts : out[l].pc = "idle" /\ out[l].result = "none"
      /\ sessions = {} /\ now = 0
      /\ \A k \in RevocationKeys : revoked[k] = 0
    BY DEF Init, VerifyInit, NewCall, RefreshInit, NewRefresh, LogoutInit, NewLogout,
        SessionInit, ClockInit
<1>2. IssuedInv
    BY ZenonT(60), <1>1 DEF IssuedInv
<1>3. RotationInv
    BY ZenonT(60), <1>1 DEF RotationInv
<1>4. \A k \in RevocationKeys : revoked[k] <= now + AccessTokenLifetime
    BY <1>1, LimitAssumption
<1>5. RevocationInv
    BY ZenonT(60), <1>1, <1>4 DEF RevocationInv
<1> QED
    BY <1>2, <1>3, <1>5 DEF SessionInv

\* No step of any call breaks SessionInv.
LEMMA SessionStep == TypeOK /\ TypeOK' /\ CallInv /\ SessionInv /\ [Next]_vars => SessionInv'
<1> SUFFICES ASSUME TypeOK, TypeOK', CallInv, SessionInv, [Next]_vars PROVE SessionInv'
    OBVIOUS
<1>1. ASSUME NEW r \in Verifications, VerifySteps(r) PROVE SessionInv'
    BY <1>1, VerifyKeepsSessions
<1>2. ASSUME NEW f \in Refreshes, RefreshSteps(f) PROVE SessionInv'
    BY <1>2, RefreshKeepsSessions
<1>3. ASSUME NEW l \in Logouts, LogoutSteps(l) PROVE SessionInv'
    BY <1>3, LogoutKeepsSessions
<1>4. CASE \/ TimePasses \/ TableMaintenance \/ UNCHANGED vars
           \/ \E q \in OTPRequests : RequestSteps(q)
    BY <1>4, OthersKeepSessions
<1> QED
    BY <1>1, <1>2, <1>3, <1>4 DEF Next, Terminating

\* SessionInv is an invariant of the service.
THEOREM SessionInvariant == Spec => []SessionInv
<1>1. IInv => TypeOK /\ CallInv
    BY DEF IInv
<1> QED
    BY <1>1, InductiveInvariant, SessionInvInit, SessionStep, PTL DEF Spec

\* The fraction of a second that the exp claim loses only shortens the token's life.
LEMMA KeyOutlivesToken == TypeOK /\ SessionInv => LogoutOutlivesToken
<1> SUFFICES ASSUME TypeOK, SessionInv, NEW l \in Logouts, out[l].result = "ok",
                    ~(now < revoked[<<"jti", out[l].jti>>])
             PROVE  TokenExpired(out[l].jti)
    BY DEF LogoutOutlivesToken
<1>1. PICK m \in Issued : m = out[l].jti
    BY DEF SessionInv, RevocationInv
<1>2. /\ m \in TokenIDs /\ MintedAt(m) \in Nat
      /\ MintedAt(m) + AccessTokenLifetime <= revoked[<<"jti", m>>]
    BY ZenonT(30), <1>1
    DEF SessionInv, RevocationInv, Issued, TokenIDs, MintedAt, TypeOK, VerifyTypeOK,
        VerifyCall, RefreshTypeOK, RefreshCall
<1>3. revoked[<<"jti", m>>] \in Nat /\ now \in Nat
    BY <1>2 DEF TypeOK, SessionTypeOK, RevocationKeys
<1>4. MintedAt(m) + AccessTokenLifetime \in Nat
    BY <1>2, LimitAssumption
<1>5. /\ RFC3339(MintedAt(m) + AccessTokenLifetime) * TicksPerSecond
            <= MintedAt(m) + AccessTokenLifetime
      /\ RFC3339(MintedAt(m) + AccessTokenLifetime) * TicksPerSecond \in Nat
    BY <1>4, SecondBounds, SecondType, ClockAssumption
<1>6. now >= RFC3339(MintedAt(m) + AccessTokenLifetime) * TicksPerSecond
    BY <1>1, <1>2, <1>3, <1>4, <1>5
<1> QED
    BY <1>1, <1>6 DEF TokenExpired

\* Once Logout has answered, the token it was given is refused for the rest of its life,
\* whatever other calls set the same key again.
THEOREM LoggedOutStaysOut == Spec => []LogoutOutlivesToken
<1>1. IInv => TypeOK
    BY DEF IInv
<1> QED
    BY <1>1, InductiveInvariant, SessionInvariant, KeyOutlivesToken, PTL

-----------------------------------------------------------------------------
(***************************************************************************)
(* What no step does to the sessions.                                      *)
(***************************************************************************)

\* No step makes a refresh token that was exchanged the current one again.
LEMMA ExchangedStep ==
    TypeOK /\ CallInv /\ SessionInv /\ [Next]_vars =>
        \A f, g \in Refreshes :
            (/\ ref[f].result = "ok" /\ ref[f].sid = ref[g].sid /\ ref[f].token = ref[g].token
             /\ ref[g].pc = "get")
            => ref'[g].pc # "update"
<1> SUFFICES ASSUME TypeOK, CallInv, SessionInv, [Next]_vars,
                    NEW f \in Refreshes, NEW g \in Refreshes, ref[f].result = "ok",
                    ref[f].sid = ref[g].sid, ref[f].token = ref[g].token, ref[g].pc = "get"
             PROVE  ref'[g].pc # "update"
    OBVIOUS
<1>1. IssuedInv /\ RotationInv /\ RevocationInv
    BY DEF SessionInv
<1>2. CASE ref'[g] = ref[g]
    BY <1>2
<1>3. ASSUME NEW x \in Refreshes, RefreshSteps(x) PROVE ref'[g].pc # "update"
  <2>1. CASE x = g
    <3>1. ref'[g].pc = "update" => \E s \in GetByID(ref[g].sid) : s.refresh_token = ref[g].token
        BY ZenonT(60), <1>1, <1>3, <2>1, RefreshMoves
    <3>2. \A s \in GetByID(ref[f].sid) : s.refresh_token # ref[f].token
        BY <1>1 DEF RotationInv
    <3> QED
        BY <3>1, <3>2
  <2>2. CASE x # g
    BY ZenonT(30), <1>1, <1>2, <1>3, <2>2, RefreshMoves
  <2> QED
    BY <2>1, <2>2
<1>4. ASSUME NEW r \in Verifications, VerifySteps(r) PROVE ref'[g] = ref[g]
    BY <1>1, <1>4, VerifySessions
<1>5. ASSUME NEW l \in Logouts, LogoutSteps(l) PROVE ref'[g] = ref[g]
    BY ZenonT(30), <1>1, <1>5, LogoutMoves
<1>6. CASE \/ TimePasses \/ TableMaintenance \/ UNCHANGED vars
           \/ \E q \in OTPRequests : RequestSteps(q)
    BY <1>2, <1>6, OthersMove
<1> QED
    BY <1>2, <1>3, <1>4, <1>5, <1>6 DEF Next, Terminating

\* A refresh token for which new tokens were returned is not accepted again, by any call
\* that reads the session later, whatever calls interleave and whatever fails.
THEOREM OldTokenRefused == Spec => ExchangedTokenRefused
<1>1. IInv => TypeOK /\ CallInv
    BY DEF IInv
<1>2. TypeOK /\ CallInv /\ SessionInv /\ [Next]_vars =>
        [\A f, g \in Refreshes :
           (/\ ref[f].result = "ok" /\ ref[f].sid = ref[g].sid /\ ref[f].token = ref[g].token
            /\ ref[g].pc = "get")
           => ref'[g].pc # "update"]_vars
    BY ExchangedStep
<1> QED
    BY <1>1, <1>2, InductiveInvariant, SessionInvariant, PTL DEF Spec, ExchangedTokenRefused

\* No step brings a deleted session back.
LEMMA GoneStep ==
    TypeOK /\ CallInv /\ LoginInv /\ SessionInv /\ [Next]_vars =>
        \A id \in Verifications : Gone(id) => Gone(id)'
<1> SUFFICES ASSUME TypeOK, CallInv, LoginInv, SessionInv, [Next]_vars,
                    NEW id \in Verifications, Gone(id)
             PROVE  Gone(id)'
    OBVIOUS
<1>1. IssuedInv /\ RotationInv /\ RevocationInv
    BY DEF SessionInv
<1>2. /\ \E c \in commits : c.session = id
      /\ \A s \in sessions : s.session_id # id
      /\ \A f \in Refreshes : ref[f].sid = id => ref[f].pc # "update"
    BY DEF Gone, SessionIDFree
<1>3. ASSUME commits \subseteq commits', sessions' \subseteq sessions, UNCHANGED ref
      PROVE  Gone(id)'
    BY <1>2, <1>3 DEF Gone, SessionIDFree
<1>4. ASSUME NEW r \in Verifications, VerifySteps(r)
      PROVE  Gone(id)'
  <2>1. r # id
    BY <1>2, <1>4, CommitReturns DEF LoginInv
  <2>2. UNCHANGED ref
    BY ZenonT(30), <1>1, <1>4, VerifySessions
  <2>3. CASE sessions' \subseteq sessions /\ UNCHANGED commits
    BY <1>3, <2>2, <2>3
  <2>4. CASE VerifyOpens(r)
    <3>1. ASSUME NEW u, NEW d, NEW t PROVE NewSession(r, u, d, t).session_id = r
        BY DEF NewSession
    <3>2. \A s \in sessions' : s.session_id # id
      <4>1. PICK new : new.session_id = r /\ sessions' = sessions \cup {new}
        BY ZenonT(60), <2>4, <3>1 DEF VerifyOpens
      <4> QED
        BY ZenonT(60), <1>2, <2>1, <4>1
    <3>3. commits \subseteq commits'
        BY ZenonT(30), <2>4 DEF VerifyOpens, VerifyCommits
    <3> QED
        BY <1>2, <2>2, <3>2, <3>3 DEF Gone, SessionIDFree
  <2> QED
    BY <1>1, <1>4, <2>3, <2>4, VerifySessions
<1>5. ASSUME NEW f \in Refreshes, RefreshSteps(f)
      PROVE  Gone(id)'
  <2>1. UNCHANGED commits
    BY ZenonT(30), <1>1, <1>5, RefreshMoves
  <2>2. \A s \in sessions' : s.session_id # id
    <3>1. CASE sessions' \subseteq sessions
        BY <1>2, <3>1
    <3>2. CASE ref[f].pc = "update" /\ Rotation(f)
      <4>1. ref[f].sid # id
        BY <1>2, <3>2
      <4>2. \A s \in sessions' : s \in sessions \/ s.session_id = ref[f].sid
        BY ZenonT(60), <3>2, RotatedSessions DEF Rotation
      <4> QED
        BY ZenonT(60), <1>2, <4>1, <4>2
    <3> QED
        BY ZenonT(30), <1>1, <1>5, <3>1, <3>2, RefreshMoves
  <2>3. \A x \in Refreshes : ref'[x].sid = id => ref'[x].pc # "update"
    <3>1. \A x \in Refreshes : x # f => ref'[x] = ref[x]
        BY ZenonT(30), <1>1, <1>5, RefreshMoves
    <3>2. ref'[f].pc = "update" =>
            /\ ref'[f].sid = ref[f].sid
            /\ ref[f].pc = "update" \/ GetByID(ref[f].sid) # {}
        BY ZenonT(30), <1>1, <1>5, RefreshMoves
    <3> QED
        BY <1>2, <3>1, <3>2 DEF GetByID
  <2> QED
    BY ZenonT(30), <1>2, <2>1, <2>2, <2>3 DEF Gone, SessionIDFree
<1>6. ASSUME NEW l \in Logouts, LogoutSteps(l)
      PROVE  Gone(id)'
    BY ZenonT(30), <1>1, <1>3, <1>6, LogoutMoves
<1>7. CASE \/ TimePasses \/ TableMaintenance \/ UNCHANGED vars
           \/ \E q \in OTPRequests : RequestSteps(q)
    BY <1>3, <1>7, OthersMove
<1> QED
    BY ZenonT(30), <1>4, <1>5, <1>6, <1>7 DEF Next, Terminating

\* A session that is deleted while no refresh is between its read and its update of it is
\* never written again.
THEOREM DeletedForGood == Spec => GoneForGood
<1>1. IInv => TypeOK /\ CallInv
    BY DEF IInv
<1>2. TypeOK /\ CallInv /\ LoginInv /\ SessionInv /\ [Next]_vars =>
        [\A id \in Verifications : Gone(id) => Gone(id)']_vars
    BY GoneStep
<1> QED
    BY <1>1, <1>2, InductiveInvariant, LoginInvariant, SessionInvariant, PTL
        DEF Spec, GoneForGood

\* The OTPs that a step spends, and the sessions that it opens.
SpentNow == {p \in Phones : otp[p].status = "pending" /\ otp'[p].status = "verified"}
OpenedNow == {s \in sessions' \ sessions : s.token_generation = 1}

\* A step that opens a session spends the OTP its call presents, and the other way round.
LEMMA ConsumptionStep ==
    TypeOK /\ CallInv /\ SessionInv /\ [Next]_vars =>
        /\ \A s \in OpenedNow : \E p \in SpentNow : ver[s.session_id].code = otp[p].mac
        /\ SpentNow # {} => OpenedNow # {}
<1> DEFINE Atomic == /\ \A s \in OpenedNow :
                            \E p \in SpentNow : ver[s.session_id].code = otp[p].mac
                     /\ SpentNow # {} => OpenedNow # {}
<1> SUFFICES ASSUME TypeOK, CallInv, SessionInv, [Next]_vars
             PROVE  Atomic
    OBVIOUS
<1>1. IssuedInv /\ RotationInv /\ RevocationInv
    BY DEF SessionInv
<1>2. ASSUME SpentNow = {}, OpenedNow = {} PROVE Atomic
    BY <1>2
<1>3. sessions' \subseteq sessions => OpenedNow = {}
    BY DEF OpenedNow
<1>4. UNCHANGED otp => SpentNow = {}
    BY DEF SpentNow
<1> HIDE DEF Atomic
<1>5. ASSUME NEW r \in Verifications, VerifySteps(r), VerifyOpens(r)
      PROVE  Atomic
  <2>1. PICK u : sessions' = sessions \cup {NewSession(r, u, ver[r].device, ver[r].at)}
    BY <1>5 DEF VerifyOpens
  <2> DEFINE new == NewSession(r, u, ver[r].device, ver[r].at)
  <2>2. new.session_id = r /\ new.token_generation = 1
    BY ZenonT(30) DEF NewSession
  <2> HIDE DEF new
  <2>3. OpenedNow = {new}
    BY ZenonT(30), <1>5, <2>1, <2>2 DEF OpenedNow, VerifyOpens, SessionIDFree, new
  <2>4. /\ ver[r].phone \in Phones
        /\ otp[ver[r].phone].status = "pending" /\ otp[ver[r].phone].mac = ver[r].mac
        /\ otp'[ver[r].phone].status = "verified"
        /\ ver[r].mac = ver[r].code
    BY <1>5 DEF VerifyOpens, VerifyCommits, OTPVerifyCond, MarkVerified, CallInv, VerifyCallOK,
        Matched, TypeOK, OTPTypeOK, OTPItem
  <2>5. ver[r].phone \in SpentNow
    BY <2>4 DEF SpentNow
  <2> QED
    BY <2>2, <2>3, <2>4, <2>5 DEF Atomic
<1>6. ASSUME NEW r \in Verifications, VerifySteps(r), sessions' \subseteq sessions,
             UNCHANGED otp \/ \E p : IncrementAttempts(p)
      PROVE  Atomic
  <2>1. SpentNow = {}
    BY <1>4, <1>6 DEF SpentNow, IncrementAttempts, TypeOK, OTPTypeOK, OTPItem
  <2> QED
    BY <1>2, <1>3, <1>6, <2>1
<1>7. ASSUME NEW f \in Refreshes, RefreshSteps(f) PROVE Atomic
  <2>1. OpenedNow = {}
    <3>1. CASE ref[f].pc = "update" /\ Rotation(f)
      <4>1. ref[f].gen \in Nat /\ ref[f].gen >= 1
        BY ZenonT(30), <1>1, <3>1 DEF RotationInv, TypeOK, RefreshTypeOK, RefreshCall
      <4>2. \A s \in sessions' : s \in sessions \/ s.token_generation = ref[f].gen + 1
        BY <3>1, RotatedSessions DEF Rotation
      <4> QED
        BY <4>1, <4>2 DEF OpenedNow
    <3> QED
        BY ZenonT(30), <1>1, <1>3, <1>7, <3>1, RefreshMoves
  <2>2. UNCHANGED otp
    BY ZenonT(30), <1>1, <1>7, RefreshMoves
  <2> QED
    BY <1>2, <1>4, <2>1, <2>2
<1>8. ASSUME NEW l \in Logouts, LogoutSteps(l) PROVE Atomic
    BY ZenonT(30), <1>1, <1>2, <1>3, <1>4, <1>8, LogoutMoves
<1>9. CASE \/ TimePasses \/ TableMaintenance \/ UNCHANGED vars
           \/ \E q \in OTPRequests : RequestSteps(q)
  <2>1. SpentNow = {}
    <3>1. CASE TimePasses \/ TableMaintenance \/ UNCHANGED vars
      <4>1. \A p \in Phones : otp'[p] = otp[p] \/ otp'[p] = AbsentOTP
        BY <3>1, OtherSteps
      <4> QED
        BY <4>1 DEF SpentNow, AbsentOTP
    <3>2. ASSUME NEW q \in OTPRequests, RequestSteps(q) PROVE SpentNow = {}
      <4>1. ASSUME NEW e, PutOTP(req[q].phone, q, e) PROVE SpentNow = {}
        BY <4>1 DEF SpentNow, PutOTP, TypeOK, OTPTypeOK
      <4> QED
        BY ZenonT(30), <1>4, <3>2, <4>1, RequestLife
    <3> QED
        BY <1>9, <3>1, <3>2
  <2> QED
    BY <1>2, <1>3, <1>9, <2>1, OthersMove
<1> QED
    BY <1>1, <1>5, <1>6, <1>7, <1>8, <1>9, VerifySessions DEF Next, Terminating

\* otp_consumption_atomic, for any number of calls: a session is opened in the step that
\* spends the OTP its call presented, and an OTP is spent only in such a step.
THEOREM ConsumptionIsAtomic == Spec => OTPConsumptionAtomic
<1>1. IInv => TypeOK /\ CallInv
    BY DEF IInv
<1>2. TypeOK /\ CallInv /\ SessionInv /\ [Next]_vars =>
        [LET spent == {p \in Phones : otp[p].status = "pending" /\ otp'[p].status = "verified"}
             added == {s \in sessions' \ sessions : s.token_generation = 1}
         IN  /\ \A s \in added : \E p \in spent : ver[s.session_id].code = otp[p].mac
             /\ spent # {} => added # {}]_vars
    BY ZenonT(30), ConsumptionStep DEF SpentNow, OpenedNow
<1> QED
    BY <1>1, <1>2, InductiveInvariant, SessionInvariant, PTL DEF Spec, OTPConsumptionAtomic

-----------------------------------------------------------------------------

\* The clock reading of a call is never ahead of the clock, and only the eviction loop
\* leads to its own states.
LEMMA LoopSteps ==
    ASSUME TypeOK, NEW r \in Verifications, VerifySteps(r)
    PROVE  /\ ver'[r].at \in {ver[r].at, now, 0}
           /\ ver'[r].pc \in {"evict", "revoke", "login"} =>
                ListSessions(r) \/ EvictSession(r) \/ RevokeSession(r)
<1> DEFINE At    == ver'[r].at \in {ver[r].at, now, 0}
           Early == At /\ ver'[r].pc \notin {"evict", "revoke", "login"}
<1>1. ver \in [Verifications -> VerifyCall]
    BY DEF TypeOK, VerifyTypeOK
<1>2. ASSUME NEW x, VerifyReturns(r, x) PROVE Early
    BY <1>1, <1>2 DEF VerifyReturns, NewCall
<1>3. ASSUME NEW x \in {"lockout", "get", "set_lockout", "increment", "find_race"}, Goto(r, x)
      PROVE  Early
    BY <1>1, <1>3 DEF Goto, VerifyCall
<1>4. ASSUME ver[r].pc \in {"rate", "increment"}, NEW x, RepeatVerify(r, x) PROVE Early
  <2>1. ver'[r].pc = ver[r].pc /\ ver'[r].at = ver[r].at
    BY <1>1, <1>4 DEF RepeatVerify, VerifyCall
  <2> QED
    BY <1>4, <2>1
<1>5. ASSUME NEW u, ver' = [ver EXCEPT ![r] = [@ EXCEPT !.pc = "list", !.user = u, !.at = now]]
      PROVE  Early
    BY <1>1, <1>5 DEF VerifyCall
<1>6. ASSUME NEW todo, EvictNext(r, todo) PROVE At
    BY <1>1, <1>6 DEF EvictNext, VerifyCall
<1>7. CASE VerifyArrives(r)
  <2>1. ASSUME NEW p, NEW k, NEW d,
               ver' = [ver EXCEPT ![r] =
                         [@ EXCEPT !.pc = "rate", !.phone = p, !.code = k, !.device = d]]
        PROVE  Early
    BY <1>1, <2>1 DEF VerifyCall
  <2> HIDE DEF Early
  <2>2. Early
    BY ZenonT(30), <1>2, <1>7, <2>1 DEF VerifyArrives
  <2> QED
    BY <2>2 DEF Early
<1>8. CASE ValidateOTPRecord(r)
  <2>1. ASSUME NEW m, NEW x,
               ver' = [ver EXCEPT ![r] = [@ EXCEPT !.pc = "find", !.mac = m, !.exp = x]]
        PROVE  Early
    BY <1>1, <2>1 DEF VerifyCall
  <2> HIDE DEF Early
  <2>2. Early
    BY ZenonT(30), <1>2, <1>3, <1>8, <2>1 DEF ValidateOTPRecord
  <2> QED
    BY <2>2 DEF Early
<1>9. CASE FindUser(r)
  <2>1. ASSUME ver' = [ver EXCEPT ![r] = [@ EXCEPT !.pc = "register", !.at = now]] PROVE Early
    BY <1>1, <2>1 DEF VerifyCall
  <2> HIDE DEF Early
  <2>2. Early
    BY ZenonT(60), <1>2, <1>5, <1>9, <2>1 DEF FindUser, FindByPhone
  <2> QED
    BY <2>2 DEF Early
<1>10. CASE RegisterUser(r) \/ CreateLoginSession(r)
  <2>1. ASSUME Committed(r) PROVE Early
    BY ZenonT(30), <1>1, <1>2, <2>1 DEF Committed, NewCall
  <2> HIDE DEF Early
  <2>2. Early
    BY ZenonT(60), <1>2, <1>3, <1>10, <2>1 DEF RegisterUser, CreateLoginSession
  <2> QED
    BY <2>2 DEF Early
<1>11. CASE CheckVerifyRate(r) \/ CheckVerifyLockout(r) \/ LockOut(r) \/ CountAttempt(r)
            \/ FindUserAfterRace(r)
  <2> HIDE DEF Early
  <2>1. ASSUME CheckVerifyRate(r) PROVE Early
    BY ZenonT(60), <1>2, <1>3, <1>4, <2>1 DEF CheckVerifyRate
  <2>2. ASSUME CheckVerifyLockout(r) PROVE Early
    BY ZenonT(60), <1>2, <1>3, <2>2 DEF CheckVerifyLockout
  <2>3. ASSUME LockOut(r) PROVE Early
    BY ZenonT(60), <1>2, <2>3 DEF LockOut
  <2>4. ASSUME CountAttempt(r) PROVE Early
    BY ZenonT(60), <1>2, <1>4, <2>4 DEF CountAttempt
  <2>5. ASSUME FindUserAfterRace(r) PROVE Early
    BY ZenonT(60), <1>2, <1>5, <2>5 DEF FindUserAfterRace, FindByPhone
  <2>6. Early
    BY <1>11, <2>1, <2>2, <2>3, <2>4, <2>5
  <2> QED
    BY <2>6 DEF Early
<1>12. CASE EvictSession(r)
  <2>1. ASSUME NEW todo, NEW id,
               ver' = [ver EXCEPT ![r] =
                         [@ EXCEPT !.pc = "revoke", !.todo = todo, !.victim = id]]
        PROVE  At
    BY <1>1, <2>1 DEF VerifyCall
  <2> QED
    BY ZenonT(30), <1>2, <1>12, <2>1 DEF EvictSession
<1>13. CASE ListSessions(r) \/ RevokeSession(r)
    BY ZenonT(30), <1>2, <1>6, <1>13 DEF ListSessions, RevokeSession
<1> QED
    BY ZenonT(60), <1>7, <1>8, <1>9, <1>10, <1>11, <1>12, <1>13 DEF VerifySteps, VerifyStep

\* On to the next eviction: the call keeps what it knows.
LEMMA EvictNextFields ==
    ASSUME TypeOK, NEW r \in Verifications, NEW todo, EvictNext(r, todo)
    PROVE  /\ ver'[r].user = ver[r].user /\ ver'[r].device = ver[r].device
           /\ ver'[r].phone = ver[r].phone /\ ver'[r].mac = ver[r].mac
           /\ ver'[r].todo = todo
           /\ ver'[r].pc = IF todo = {} THEN "login" ELSE "evict"
           /\ ver'[r].pc = "login" => todo = {}
<1> DEFINE next == IF todo = {} THEN "login" ELSE "evict"
<1>1. ver' = [ver EXCEPT ![r] = [@ EXCEPT !.pc = next, !.todo = todo, !.victim = None, !.at = now]]
    BY DEF EvictNext
<1> HIDE DEF next
<1>2. /\ ver'[r].user = ver[r].user /\ ver'[r].device = ver[r].device
      /\ ver'[r].phone = ver[r].phone /\ ver'[r].mac = ver[r].mac
      /\ ver'[r].todo = todo /\ ver'[r].pc = next
    BY <1>1 DEF TypeOK, VerifyTypeOK, VerifyCall
<1>3. next = "login" => todo = {}
    BY DEF next
<1> QED
    BY ZenonT(60), <1>2, <1>3 DEF next
=============================================================================
