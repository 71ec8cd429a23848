--------------------------- MODULE AuthOwnerProofs ---------------------------
(***************************************************************************)
(* Nobody ends the session of somebody else: a session is ended by a call  *)
(* of its owner or by the TTL, whatever calls interleave and however far   *)
(* the indexes lag.  The inductive invariant is OwnerInv.                  *)
(***************************************************************************)
EXTENDS AuthSessionProofs

\* A rotation keeps every session_id and every user, and makes the token it was given the
\* previous one; a session it writes back has no user.
LEMMA RotationOwners ==
    ASSUME NEW id, NEW token, NEW prev, NEW generation, NEW expiresAt,
           UpdateSession(id, token, prev, generation, expiresAt)
    PROVE  /\ \A s \in sessions' :
                \/ s \in sessions
                \/ /\ s.session_id = id /\ s.refresh_token = token /\ s.prev_token = prev
                   /\ s.user_id = None \/ \E t \in sessions : t.session_id = id /\ t.user_id = s.user_id
           /\ \A s \in sessions : \E t \in sessions' : t.session_id = s.session_id
<1> DEFINE bare == [session_id |-> id, user_id |-> None, device_id |-> None, created_at |-> 0]
           set(s) == [session_id |-> id, user_id |-> s.user_id, device_id |-> s.device_id,
                      created_at |-> s.created_at, refresh_token |-> token,
                      prev_token |-> prev, token_generation |-> generation,
                      expires_at |-> expiresAt]
<1>1. \A s : /\ set(s).session_id = id /\ set(s).refresh_token = token
             /\ set(s).prev_token = prev /\ set(s).user_id = s.user_id
    OBVIOUS
<1>2. bare.user_id = None
    OBVIOUS
<1>3. sessions' = (sessions \ GetByID(id)) \cup
                    (IF GetByID(id) = {} THEN {set(bare)} ELSE {set(s) : s \in GetByID(id)})
    BY DEF UpdateSession
<1> HIDE DEF set, bare
<1>4. ASSUME NEW s \in sessions', s \notin sessions
      PROVE  /\ s.session_id = id /\ s.refresh_token = token /\ s.prev_token = prev
             /\ s.user_id = None \/ \E t \in sessions : t.session_id = id /\ t.user_id = s.user_id
    BY <1>1, <1>2, <1>3, <1>4 DEF GetByID
<1>5. ASSUME NEW s \in sessions
      PROVE  \E t \in sessions' : t.session_id = s.session_id
  <2>1. CASE s.session_id # id
    BY <1>3, <2>1 DEF GetByID
  <2>2. CASE s.session_id = id
    <3>1. set(s) \in sessions'
        BY <1>3, <2>2 DEF GetByID
    <3> QED
        BY <1>1, <2>2, <3>1
  <2> QED
    BY <2>1, <2>2
<1> QED
    BY <1>4, <1>5

\* The same, for the update of a call.
LEMMA RotationKeepsOwner ==
    ASSUME NEW f, Rotation(f)
    PROVE  /\ \A s \in sessions' :
                \/ s \in sessions
                \/ /\ s.session_id = ref[f].sid /\ s.refresh_token = f
                   /\ s.prev_token = ref[f].token
                   /\ \/ s.user_id = None
                      \/ \E t \in sessions : t.session_id = ref[f].sid /\ t.user_id = s.user_id
           /\ \A s \in sessions : \E t \in sessions' : t.session_id = s.session_id
<1> DEFINE generation == ref[f].gen + 1
           expiresAt  == RFC3339(ref[f].at + RefreshTokenLifetime)
<1>1. UpdateSession(ref[f].sid, f, ref[f].token, generation, expiresAt)
    BY DEF Rotation
<1> HIDE DEF generation, expiresAt
<1> QED
    BY <1>1, RotationOwners

\* A call of RefreshTokens goes on to update the session when it was given its current
\* token, and to delete it when it was given the previous one; it changes the session
\* only then, and keeps naming it until it returns.
LEMMA RefreshDecides ==
    ASSUME TypeOK, NEW f \in Refreshes, RefreshSteps(f)
    PROVE  /\ ref'[f].pc \in {"update", "delete"} =>
                /\ ref'[f].sid = ref[f].sid /\ ref'[f].token = ref[f].token
                /\ \/ ref[f].pc = "update" /\ ref'[f].pc = "update"
                   \/ /\ ref[f].pc = "get" /\ ref'[f].pc = "update"
                      /\ \E s \in GetByID(ref[f].sid) : s.refresh_token = ref[f].token
                   \/ /\ ref[f].pc = "get" /\ ref'[f].pc = "delete"
                      /\ \E s \in GetByID(ref[f].sid) :
                            s.prev_token # None /\ s.prev_token = ref[f].token
           /\ ref[f].pc = "update" =>
                \/ ref'[f].pc = "done" /\ ref'[f].result # "ok"
                \/ ref'[f].pc \in {"update", "done"} /\ ref'[f].sid = ref[f].sid
           /\ \/ UNCHANGED sessions
              \/ ref[f].pc = "update" /\ Rotation(f)
              \/ ref[f].pc = "delete" /\ ref'[f].pc = "revoke" /\ DeleteSession(ref[f].sid)
           /\ UNCHANGED <<req, sessionIndex, commits>>
<1> DEFINE Carried == ref'[f].sid = ref[f].sid /\ ref'[f].token = ref[f].token
           Entered == ref'[f].pc \notin {"update", "delete"} /\ ref[f].pc # "update"
           Given   == /\ ref[f].pc = "get" /\ Carried
                      /\ \/ /\ ref'[f].pc = "update"
                            /\ \E s \in GetByID(ref[f].sid) : s.refresh_token = ref[f].token
                         \/ /\ ref'[f].pc = "delete"
                            /\ \E s \in GetByID(ref[f].sid) :
                                  s.prev_token # None /\ s.prev_token = ref[f].token
           Again   == ref[f].pc = "update" /\ ref'[f].pc = "update" /\ Carried
           Rotated == ref'[f].pc = "done" /\ ref'[f].sid = ref[f].sid
           Errs    == ref'[f].pc = "done" /\ ref'[f].result # "ok"
           Decided == Entered \/ Given \/ Again \/ Rotated \/ Errs
<1>1. ref \in [Refreshes -> RefreshCall]
    BY DEF TypeOK, RefreshTypeOK
<1>2. ASSUME NEW x, x # "ok", RefreshReturns(f, x)
      PROVE  Errs
    BY <1>1, <1>2 DEF RefreshReturns, NewRefresh
<1> HIDE DEF Errs
<1>3. ASSUME RefreshArrives(f) PROVE Decided
  <2>1. ASSUME NEW m, NEW t, NEW d,
               ref' = [ref EXCEPT ![f] = [@ EXCEPT !.pc = "get", !.sid = SessionOf(m), !.jti = m,
                                                   !.token = t, !.device = d]]
        PROVE  ref'[f].pc = "get"
    BY <1>1, <2>1 DEF RefreshCall
  <2>2. ref[f].pc = "idle" /\ (ref'[f].pc = "get" \/ Errs)
    BY ZenonT(60), <1>2, <1>3, <2>1 DEF RefreshArrives
  <2> QED
    BY <2>2
<1>4. ASSUME CheckSession(f) PROVE Decided
  <2>1. ASSUME NEW s,
               ref' = [ref EXCEPT ![f] =
                         [@ EXCEPT !.pc = "update", !.at = now, !.gen = s.token_generation]]
        PROVE  ref'[f].pc = "update" /\ Carried
    BY <1>1, <2>1 DEF RefreshCall
  <2>2. ASSUME ref' = [ref EXCEPT ![f].pc = "delete"]
        PROVE  ref'[f].pc = "delete" /\ Carried
    BY <1>1, <2>2 DEF RefreshCall
  <2> HIDE DEF Carried
  <2>3. Given \/ Errs
    BY ZenonT(60), <1>2, <1>4, <2>1, <2>2 DEF CheckSession, Reused
  <2> QED
    BY <2>3
<1>5. ASSUME RotateToken(f) PROVE Decided
  <2>1. ASSUME ref' = [ref EXCEPT ![f] =
                         [@ EXCEPT !.pc = "done", !.result = "ok", !.at = now, !.gen = 0]]
        PROVE  Rotated
    BY <1>1, <2>1 DEF RefreshCall
  <2>2. ASSUME ref' = [ref EXCEPT ![f].tries = @ + 1]
        PROVE  ref'[f].pc = ref[f].pc /\ Carried
    BY <1>1, <2>2 DEF RefreshCall
  <2> HIDE DEF Carried, Rotated
  <2>3. Rotated \/ Again \/ Errs
    BY ZenonT(60), <1>2, <1>5, <2>1, <2>2 DEF RotateToken
  <2> QED
    BY <2>3
<1>6. ASSUME DeleteReused(f) \/ RevokeReused(f) PROVE Decided
  <2>1. DeleteReused(f) => ref[f].pc = "delete" /\ ref'[f].pc = "revoke"
    BY <1>1 DEF DeleteReused, RefreshCall
  <2>2. RevokeReused(f) => Errs
    BY ZenonT(60), <1>2 DEF RevokeReused
  <2> QED
    BY <1>6, <2>1, <2>2
<1>7. Decided
    BY ZenonT(60), <1>3, <1>4, <1>5, <1>6 DEF RefreshSteps, RefreshStep
<1>8. /\ \/ UNCHANGED sessions
         \/ ref[f].pc = "update" /\ Rotation(f)
         \/ ref[f].pc = "delete" /\ ref'[f].pc = "revoke" /\ DeleteSession(ref[f].sid)
      /\ UNCHANGED <<req, sessionIndex, commits>>
  <2>1. DeleteReused(f) => ref[f].pc = "delete" /\ ref'[f].pc = "revoke"
    BY <1>1 DEF DeleteReused, RefreshCall
  <2> QED
    BY ZenonT(60), <2>1
    DEF RefreshSteps, RefreshStep, RefreshArrives, CheckSession, RotateToken, DeleteReused,
        RevokeReused, tableVars, sessionVars, historyVars, Rotation
<1> QED
    BY <1>7, <1>8 DEF Errs

\* A call of VerifyOTP that is past the comparison of the codes was, before the step, past
\* it or comparing its code with the pending OTP of its phone.
LEMMA MatchedBefore ==
    ASSUME TypeOK, CallInv, NEW r \in Verifications, VerifySteps(r), ver'[r].pc \in Matched
    PROVE  /\ ver'[r].phone = ver[r].phone /\ ver'[r].code = ver[r].code
           /\ \/ ver[r].pc \in Matched
              \/ /\ ver[r].pc = "get" /\ ver[r].phone \in Phones
                 /\ otp[ver[r].phone].status = "pending"
                 /\ otp[ver[r].phone].mac = ver[r].code
<1> DEFINE Kept == ver'[r].phone = ver[r].phone /\ ver'[r].code = ver[r].code
           Goal == /\ Kept
                   /\ \/ ver[r].pc \in Matched
                      \/ /\ ver[r].pc = "get" /\ ver[r].phone \in Phones
                         /\ otp[ver[r].phone].status = "pending"
                         /\ otp[ver[r].phone].mac = ver[r].code
<1>1. ver \in [Verifications -> VerifyCall] /\ ver[r] \in VerifyCall
    BY DEF TypeOK, VerifyTypeOK
<1>2. ASSUME NEW x, VerifyReturns(r, x) PROVE FALSE
  <2>1. ver'[r].pc = "done"
    BY <1>1, <1>2 DEF VerifyReturns, NewCall
  <2> QED
    BY <2>1 DEF Matched
<1>3. ASSUME NEW x \in {"lockout", "get", "set_lockout", "increment"}, Goto(r, x) PROVE FALSE
  <2>1. ver'[r].pc = x
    BY <1>1, <1>3 DEF Goto, VerifyCall
  <2> QED
    BY <2>1 DEF Matched
<1>4. ASSUME ver[r].pc \in {"rate", "increment"}, NEW x, RepeatVerify(r, x) PROVE FALSE
  <2>1. ver'[r].pc = ver[r].pc
    BY <1>1, <1>4 DEF RepeatVerify, VerifyCall
  <2> QED
    BY <1>4, <2>1 DEF Matched
<1>5. ASSUME Committed(r) PROVE FALSE
  <2>1. ver'[r].pc = "done"
    BY ZenonT(60), <1>1, <1>2, <1>5 DEF Committed, NewCall
  <2> QED
    BY <2>1 DEF Matched
<1>6. ASSUME NEW u, ver' = [ver EXCEPT ![r] = [@ EXCEPT !.pc = "list", !.user = u, !.at = now]]
      PROVE  Kept
    BY <1>1, <1>6 DEF VerifyCall
<1>7. ASSUME NEW todo, EvictNext(r, todo) PROVE Kept
    BY <1>1, <1>7 DEF EvictNext, VerifyCall
<1>8. ASSUME ValidateOTPRecord(r) PROVE Goal
  <2>1. ver[r].pc = "get" /\ ver[r].phone \in Phones
    BY ZenonT(60), <1>8 DEF ValidateOTPRecord, CallInv, VerifyCallOK
  <2>2. ASSUME NEW m, NEW x,
               ver' = [ver EXCEPT ![r] = [@ EXCEPT !.pc = "find", !.mac = m, !.exp = x]]
        PROVE  Kept
    BY <1>1, <2>2 DEF VerifyCall
  <2>3. Goto(r, "increment") \/ Goto(r, "set_lockout") => FALSE
    BY <1>3
  <2> HIDE DEF Kept
  <2>4. Kept /\ otp[ver[r].phone].status = "pending" /\ otp[ver[r].phone].mac = ver[r].code
    BY ZenonT(60), <1>2, <1>8, <2>2, <2>3 DEF ValidateOTPRecord, VerifyOTPMAC
  <2> QED
    BY <2>1, <2>4
<1>9. ASSUME FindUser(r) \/ FindUserAfterRace(r) PROVE Goal
  <2>1. ASSUME ver' = [ver EXCEPT ![r] = [@ EXCEPT !.pc = "register", !.at = now]] PROVE Kept
    BY <1>1, <2>1 DEF VerifyCall
  <2> HIDE DEF Kept
  <2>2. Kept /\ ver[r].pc \in {"find", "find_race"}
    BY ZenonT(60), <1>2, <1>6, <1>9, <2>1 DEF FindUser, FindUserAfterRace, FindByPhone
  <2> QED
    BY <2>2 DEF Matched
<1>10. ASSUME RegisterUser(r) \/ CreateLoginSession(r) PROVE Goal
  <2>1. Goto(r, "find_race") => Kept
    BY <1>1 DEF Goto, VerifyCall
  <2> HIDE DEF Kept
  <2>2. Kept /\ ver[r].pc \in {"register", "login"}
    BY ZenonT(60), <1>2, <1>5, <1>10, <2>1 DEF RegisterUser, CreateLoginSession
  <2> QED
    BY <2>2 DEF Matched
<1>11. ASSUME ListSessions(r) \/ RevokeSession(r) PROVE Goal
  <2> HIDE DEF Kept
  <2>1. Kept /\ ver[r].pc \in {"list", "revoke"}
    BY ZenonT(60), <1>2, <1>7, <1>11 DEF ListSessions, RevokeSession
  <2> QED
    BY <2>1 DEF Matched
<1>12. ASSUME EvictSession(r) PROVE Goal
  <2>1. ASSUME NEW todo, NEW id,
               ver' = [ver EXCEPT ![r] =
                         [@ EXCEPT !.pc = "revoke", !.todo = todo, !.victim = id]]
        PROVE  Kept
    BY <1>1, <2>1 DEF VerifyCall
  <2> HIDE DEF Kept
  <2>2. Kept /\ ver[r].pc = "evict"
    BY ZenonT(60), <1>2, <1>12, <2>1 DEF EvictSession
  <2> QED
    BY <2>2 DEF Matched
<1>13. ASSUME VerifyArrives(r) PROVE Goal
  <2>1. ASSUME NEW p, NEW k, NEW d,
               ver' = [ver EXCEPT ![r] =
                         [@ EXCEPT !.pc = "rate", !.phone = p, !.code = k, !.device = d]]
        PROVE  ver'[r].pc = "rate"
    BY <1>1, <2>1 DEF VerifyCall
  <2>2. ver'[r].pc = "rate"
    BY ZenonT(60), <1>2, <1>13, <2>1 DEF VerifyArrives
  <2> QED
    BY <2>2 DEF Matched
<1>14. ASSUME CheckVerifyRate(r) \/ CheckVerifyLockout(r) \/ LockOut(r) \/ CountAttempt(r)
       PROVE  Goal
  <2>1. ~CheckVerifyRate(r)
    BY ZenonT(60), <1>2, <1>3, <1>4 DEF CheckVerifyRate
  <2>2. ~CheckVerifyLockout(r)
    BY ZenonT(60), <1>2, <1>3 DEF CheckVerifyLockout
  <2>3. ~LockOut(r)
    BY ZenonT(60), <1>2 DEF LockOut
  <2>4. ~CountAttempt(r)
    BY ZenonT(60), <1>2, <1>4 DEF CountAttempt
  <2> QED
    BY <1>14, <2>1, <2>2, <2>3, <2>4
<1> HIDE DEF Goal, Kept
<1>15. Goal
    BY ZenonT(60), <1>8, <1>9, <1>10, <1>11, <1>12, <1>13, <1>14
    DEF VerifySteps, VerifyStep, Goal, Kept
<1> QED
    BY <1>15 DEF Goal, Kept

\* The session that a step of VerifyOTP adds is that of its call, for the user of its
\* commit, and has the call's refresh token.
LEMMA VerifyOwners ==
    ASSUME NEW r \in Verifications, VerifySteps(r)
    PROVE  /\ commits \subseteq commits' /\ UNCHANGED <<req, ref, sessionIndex>>
           /\ \A s \in sessions' :
                \/ s \in sessions
                \/ /\ s.session_id = r /\ s.refresh_token = r /\ s.prev_token = None
                   /\ \E c \in commits' : c.session = r /\ c.user = s.user_id
           /\ \A s \in sessions : s \in sessions' \/ EvictSession(r)
<1> DEFINE Adds(u) == /\ \E d, t : sessions' = sessions \cup {NewSession(r, u, d, t)}
                      /\ \E q : commits' = commits \cup {[otp |-> q, session |-> r, user |-> u]}
                      /\ UNCHANGED sessionIndex
           Owned   == /\ commits \subseteq commits' /\ UNCHANGED sessionIndex
                      /\ \A s \in sessions' :
                            \/ s \in sessions
                            \/ /\ s.session_id = r /\ s.refresh_token = r /\ s.prev_token = None
                               /\ \E c \in commits' : c.session = r /\ c.user = s.user_id
                      /\ \A s \in sessions : s \in sessions' \/ EvictSession(r)
<1>1. ASSUME NEW u, Adds(u) PROVE Owned
  <2>1. PICK new, com :
            /\ sessions' = sessions \cup {new} /\ commits' = commits \cup {com}
            /\ new.session_id = r /\ new.refresh_token = r /\ new.prev_token = None
            /\ new.user_id = u /\ com.session = r /\ com.user = u
    <3>1. PICK d, t : sessions' = sessions \cup {NewSession(r, u, d, t)}
        BY <1>1
    <3>2. PICK q : commits' = commits \cup {[otp |-> q, session |-> r, user |-> u]}
        BY <1>1
    <3>3. LET new == NewSession(r, u, d, t) IN
            /\ new.session_id = r /\ new.refresh_token = r /\ new.prev_token = None
            /\ new.user_id = u
        BY DEF NewSession
    <3>4. LET com == [otp |-> q, session |-> r, user |-> u] IN com.session = r /\ com.user = u
        OBVIOUS
    <3> QED
        BY ZenonT(60), <3>1, <3>2, <3>3, <3>4
  <2> QED
    BY <1>1, <2>1
<1>2. ASSUME UNCHANGED <<sessions, sessionIndex, commits>> PROVE Owned
    BY <1>2
<1> HIDE DEF Owned
<1>3. ASSUME RegisterUser(r) PROVE Owned
  <2>1. CASE VerifyOTPAndCreateUser(r, ver[r].phone, ver[r].mac, ver[r].exp, ver[r].device,
                                    ver[r].at)
    <3>1. Adds(NewUserID(r))
        BY ZenonT(60), <2>1 DEF VerifyOTPAndCreateUser
    <3> QED
        BY <1>1, <3>1
  <2>2. CASE UNCHANGED tableVars
    BY <1>2, <2>2 DEF tableVars, sessionVars, historyVars
  <2> QED
    BY ZenonT(60), <1>3, <2>1, <2>2 DEF RegisterUser
<1>4. ASSUME CreateLoginSession(r) PROVE Owned
  <2>1. CASE VerifyOTPAndCreateSession(r, ver[r].phone, ver[r].mac, ver[r].exp, ver[r].user,
                                       ver[r].device, ver[r].at)
    <3>1. Adds(ver[r].user)
        BY ZenonT(60), <2>1 DEF VerifyOTPAndCreateSession
    <3> QED
        BY <1>1, <3>1
  <2>2. CASE UNCHANGED tableVars
    BY <1>2, <2>2 DEF tableVars, sessionVars, historyVars
  <2> QED
    BY ZenonT(60), <1>4, <2>1, <2>2 DEF CreateLoginSession
<1>5. ASSUME EvictSession(r) PROVE Owned
  <2>1. sessions' \subseteq sessions /\ UNCHANGED <<sessionIndex, commits>>
    BY <1>5 DEF EvictSession, DeleteSession, historyVars
  <2> QED
    BY ZenonT(60), <1>5, <2>1 DEF Owned
<1>6. ASSUME \/ VerifyArrives(r) \/ CheckVerifyRate(r) \/ CheckVerifyLockout(r)
             \/ ValidateOTPRecord(r) \/ LockOut(r) \/ CountAttempt(r) \/ FindUser(r)
             \/ FindUserAfterRace(r) \/ ListSessions(r) \/ RevokeSession(r)
      PROVE  Owned
  <2>1. UNCHANGED <<sessions, sessionIndex, commits>>
    BY ZenonT(60), <1>6
    DEF VerifyArrives, CheckVerifyRate, CheckVerifyLockout, ValidateOTPRecord, LockOut,
        CountAttempt, FindUser, FindUserAfterRace, ListSessions, RevokeSession, tableVars,
        sessionVars, historyVars
  <2> QED
    BY <1>2, <2>1
<1>7. Owned
    BY ZenonT(60), <1>3, <1>4, <1>5, <1>6 DEF VerifySteps, VerifyStep
<1> QED
    BY <1>7 DEF Owned, VerifySteps

\* SessionOwnerInv, for one session that a call is about to evict, ...
LEMMA ListedCommit ==
    ASSUME SessionOwnerInv, NEW r \in Verifications, ver[r].pc \in {"evict", "revoke"},
           NEW s \in ver[r].todo
    PROVE  \E c \in commits : c.session = s.session_id /\ c.user = ver[r].user
BY DEF SessionOwnerInv

\* ... and for one that the table or the index shows.
LEMMA ShownCommit ==
    ASSUME SessionOwnerInv, NEW s \in sessions \cup sessionIndex, s.user_id # None
    PROVE  \E c \in commits : c.session = s.session_id /\ c.user = s.user_id
BY DEF SessionOwnerInv

\* What a call is about to evict was opened for its user, from the listing on.
LEMMA ListedOwners ==
    ASSUME TypeOK, CallInv, SessionOwnerInv, NEW r \in Verifications, VerifySteps(r),
           ver'[r].pc \in {"evict", "revoke"}, NEW s \in ver'[r].todo
    PROVE  \E c \in commits : c.session = s.session_id /\ c.user = ver'[r].user
<1>1. ver \in [Verifications -> VerifyCall] /\ ver[r] \in VerifyCall
    BY DEF TypeOK, VerifyTypeOK
<1>2. ASSUME NEW x, VerifyReturns(r, x) PROVE ver'[r].pc = "done"
    BY <1>1, <1>2 DEF VerifyReturns, NewCall
<1>3. ListSessions(r) \/ EvictSession(r) \/ RevokeSession(r)
    BY ZenonT(60), LoopSteps
<1>4. ASSUME ver[r].pc \in {"evict", "revoke"}, ver'[r].user = ver[r].user,
             ver'[r].todo \subseteq ver[r].todo
      PROVE  \E c \in commits : c.session = s.session_id /\ c.user = ver'[r].user
  <2>1. s \in ver[r].todo
    BY <1>4
  <2>2. \E c \in commits : c.session = s.session_id /\ c.user = ver[r].user
    BY ZenonT(60), <1>4, <2>1, ListedCommit
  <2> QED
    BY <1>4, <2>2
<1>5. CASE ListSessions(r)
  <2>1. PICK todo : todo \subseteq ListByUser(ver[r].user, RFC3339(ver[r].at)) /\ EvictNext(r, todo)
    <3>1. ~VerifyReturns(r, "error")
        BY <1>2
    <3> QED
        BY <1>5, <3>1 DEF ListSessions
  <2>2. ver'[r].user = ver[r].user /\ ver'[r].todo = todo
    BY ZenonT(60), <2>1, EvictNextFields
  <2>3. s \in sessions \cup sessionIndex /\ s.user_id = ver[r].user
    BY <2>1, <2>2 DEF ListByUser
  <2>4. ver[r].user # None
    BY ZenonT(60), <1>5, UserIDAssumption DEF ListSessions, CallInv, VerifyCallOK, Identified
  <2>5. \E c \in commits : c.session = s.session_id /\ c.user = s.user_id
    BY <2>3, <2>4, ShownCommit
  <2> QED
    BY <2>2, <2>3, <2>5
<1>6. CASE EvictSession(r)
  <2>1. PICK v : ver' = [ver EXCEPT ![r] =
                           [@ EXCEPT !.pc = "revoke", !.todo = ver[r].todo \ {v},
                                     !.victim = v.session_id]]
    <3>1. ~VerifyReturns(r, "error")
        BY <1>2
    <3> QED
        BY ZenonT(60), <1>6, <3>1 DEF EvictSession
  <2>2. ver'[r].user = ver[r].user /\ ver'[r].todo \subseteq ver[r].todo
    BY <1>1, <2>1 DEF VerifyCall
  <2>3. ver[r].pc = "evict"
    BY <1>6 DEF EvictSession
  <2> QED
    BY <1>4, <2>2, <2>3
<1>7. CASE RevokeSession(r)
  <2>1. EvictNext(r, ver[r].todo)
    <3>1. ~VerifyReturns(r, "error")
        BY <1>2
    <3> QED
        BY ZenonT(60), <1>7, <3>1 DEF RevokeSession
  <2>2. ver'[r].user = ver[r].user /\ ver'[r].todo = ver[r].todo
    BY ZenonT(60), <2>1, EvictNextFields
  <2>3. ver[r].pc = "revoke"
    BY <1>7 DEF RevokeSession
  <2> QED
    BY <1>4, <2>2, <2>3
<1> QED
    BY <1>3, <1>5, <1>6, <1>7

\* The code that a call got past the comparison with was sent, so its request keeps its
\* phone.
LEMMA MatchedCodes ==
    ASSUME CallInv, OTPInv, NEW r \in Verifications, ver[r].pc \in Matched
    PROVE  ver[r].code \in OTPRequests /\ req[ver[r].code].pc # "idle"
<1>1. ver[r].code \in OTPRequests
    BY ZenonT(60) DEF CallInv, VerifyCallOK
<1>2. ver[r].code \in CodesDelivered
    BY <1>1, IdentityAssumption DEF OTPInv
<1> QED
    BY <1>1, <1>2 DEF OTPInv, CodesDelivered

\* Steps that leave the calls of VerifyOTP alone and give no session to another user.
LEMMA OwnersStay ==
    ASSUME CallInv, OTPInv, SessionOwnerInv, UNCHANGED ver, commits \subseteq commits',
           \A q \in OTPRequests : req[q].pc # "idle" => req'[q].phone = req[q].phone,
           \A s \in sessions' \cup sessionIndex' : s.user_id # None =>
                \E t \in sessions \cup sessionIndex :
                    t.session_id = s.session_id /\ t.user_id = s.user_id
    PROVE  SessionOwnerInv'
<1>1. ASSUME NEW r \in Verifications, ver'[r].pc \in Matched
      PROVE  req'[ver'[r].code].phone = ver'[r].phone
  <2>1. ver[r].code \in OTPRequests /\ req[ver[r].code].pc # "idle"
    BY <1>1, MatchedCodes
  <2>2. req[ver[r].code].phone = ver[r].phone
    BY <1>1 DEF SessionOwnerInv
  <2> QED
    BY <2>1, <2>2
<1>2. ASSUME NEW r \in Verifications, ver'[r].pc \in {"evict", "revoke"}, NEW s \in ver'[r].todo
      PROVE  \E c \in commits' : c.session = s.session_id /\ c.user = ver'[r].user
  <2>1. ver[r].pc \in {"evict", "revoke"} /\ s \in ver[r].todo /\ ver'[r] = ver[r]
    BY <1>2
  <2>2. \E c \in commits : c.session = s.session_id /\ c.user = ver[r].user
    BY <2>1, ListedCommit
  <2> QED
    BY <2>1, <2>2
<1>3. ASSUME NEW s \in sessions' \cup sessionIndex', s.user_id # None
      PROVE  \E c \in commits' : c.session = s.session_id /\ c.user = s.user_id
  <2>1. PICK t \in sessions \cup sessionIndex :
            t.session_id = s.session_id /\ t.user_id = s.user_id
    BY <1>3
  <2>2. \E c \in commits : c.session = t.session_id /\ c.user = t.user_id
    BY <1>3, <2>1, ShownCommit
  <2> QED
    BY <2>1, <2>2
<1> QED
    BY ZenonT(60), <1>1, <1>2, <1>3 DEF SessionOwnerInv, Matched

\* A step of VerifyOTP: its code is that of its phone, and what it opens, lists and evicts
\* is its user's.
LEMMA VerifyKeepsOwners ==
    ASSUME TypeOK, CallInv, OTPInv, SessionOwnerInv, NEW r \in Verifications, VerifySteps(r)
    PROVE  SessionOwnerInv'
<1>1. /\ commits \subseteq commits' /\ UNCHANGED <<req, sessionIndex>>
      /\ \A s \in sessions' :
            \/ s \in sessions
            \/ s.session_id = r /\ \E c \in commits' : c.session = r /\ c.user = s.user_id
    BY ZenonT(60), VerifyOwners
<1>2. \A x \in Verifications : x # r => ver'[x] = ver[x]
  <2>1. PICK e : ver' = [ver EXCEPT ![r] = e]
    BY VerifyLocals
  <2> QED
    BY <2>1 DEF TypeOK, VerifyTypeOK
<1>3. ASSUME NEW x \in Verifications, ver'[x].pc \in Matched
      PROVE  req'[ver'[x].code].phone = ver'[x].phone
  <2>1. CASE x # r
    BY <1>1, <1>2, <1>3, <2>1 DEF SessionOwnerInv
  <2>2. CASE x = r
    <3>1. /\ ver'[r].phone = ver[r].phone /\ ver'[r].code = ver[r].code
          /\ \/ ver[r].pc \in Matched
             \/ /\ ver[r].phone \in Phones /\ otp[ver[r].phone].status = "pending"
                /\ otp[ver[r].phone].mac = ver[r].code
        BY <1>3, <2>2, MatchedBefore
    <3>2. CASE ver[r].pc \in Matched
        BY <1>1, <2>2, <3>1, <3>2 DEF SessionOwnerInv
    <3>3. CASE /\ ver[r].phone \in Phones /\ otp[ver[r].phone].status = "pending"
               /\ otp[ver[r].phone].mac = ver[r].code
      <4>1. ver[r].code # None
        BY <3>3, IdentityAssumption DEF CallInv
      <4>2. req[ver[r].code].phone = ver[r].phone
        BY <3>3, <4>1 DEF OTPInv
      <4> QED
        BY <1>1, <2>2, <3>1, <4>2
    <3> QED
        BY <3>1, <3>2, <3>3
  <2> QED
    BY <2>1, <2>2
<1>4. ASSUME NEW x \in Verifications, ver'[x].pc \in {"evict", "revoke"}, NEW s \in ver'[x].todo
      PROVE  \E c \in commits' : c.session = s.session_id /\ c.user = ver'[x].user
  <2>1. CASE x # r
    <3>1. ver'[x] = ver[x]
        BY <1>2, <2>1
    <3>2. \E c \in commits : c.session = s.session_id /\ c.user = ver[x].user
        BY <1>4, <3>1, ListedCommit
    <3> QED
        BY <1>1, <3>1, <3>2
  <2>2. CASE x = r
    BY <1>1, <1>4, <2>2, ListedOwners
  <2> QED
    BY <2>1, <2>2
<1>5. ASSUME NEW s \in sessions' \cup sessionIndex', s.user_id # None
      PROVE  \E c \in commits' : c.session = s.session_id /\ c.user = s.user_id
  <2>1. CASE s \in sessions \cup sessionIndex
    <3>1. \E c \in commits : c.session = s.session_id /\ c.user = s.user_id
        BY <1>5, <2>1, ShownCommit
    <3> QED
        BY <1>1, <3>1
  <2>2. CASE s \notin sessions \cup sessionIndex
    BY <1>1, <1>5, <2>2
  <2> QED
    BY <2>1, <2>2
<1> QED
    BY ZenonT(60), <1>3, <1>4, <1>5 DEF SessionOwnerInv, Matched

\* Steps that leave the refreshes alone and add at most a session with the token of the
\* login that opens it.
LEMMA TokenOwnersStay ==
    ASSUME TokenOwnerInv, UNCHANGED ref, Issued \subseteq Issued',
           \A s \in sessions' :
              \/ s \in sessions
              \/ /\ s.session_id \in Verifications /\ s.refresh_token = s.session_id
                 /\ s.prev_token = None
    PROVE  TokenOwnerInv'
<1>1. \A m : SessionOf(m)' = SessionOf(m)
    BY DEF SessionOf
<1>2. ASSUME NEW s \in sessions', s.prev_token # None
      PROVE  s.prev_token \in Issued' /\ SessionOf(s.prev_token)' = s.session_id
    BY <1>1, <1>2 DEF TokenOwnerInv
<1>3. ASSUME NEW s \in sessions', NEW x \in Verifications, s.refresh_token = x
      PROVE  x = s.session_id
    BY <1>3 DEF TokenOwnerInv
<1>4. ASSUME NEW s \in sessions', NEW x \in Refreshes, s.refresh_token = x,
             ref'[x].pc # "done" \/ ref'[x].result = "ok"
      PROVE  ref'[x].pc \in {"update", "done"} /\ ref'[x].sid = s.session_id
  <2>1. s \in sessions
    BY <1>4, IdentityAssumption
  <2> QED
    BY <1>4, <2>1 DEF TokenOwnerInv
<1>5. ASSUME NEW x \in Refreshes, ref'[x].pc \in {"update", "delete"}
      PROVE  ref'[x].token \in Issued' /\ SessionOf(ref[x].token)' = ref'[x].sid
    BY <1>1, <1>5 DEF TokenOwnerInv
<1> QED
    BY ZenonT(60), <1>2, <1>3, <1>4, <1>5 DEF TokenOwnerInv, SessionOf

\* A step of RefreshTokens: it rotates the token of the session its own token is for.
LEMMA RefreshKeepsOwners ==
    ASSUME TypeOK, TypeOK', CallInv, SessionInv, TokenOwnerInv, NEW f \in Refreshes,
           RefreshSteps(f)
    PROVE  TokenOwnerInv'
<1>1. IssuedInv /\ RotationInv
    BY DEF SessionInv
<1>2. /\ UNCHANGED ver
      /\ ref[f].pc # "done" /\ ref[f].result # "ok"
      /\ \A x \in Refreshes : x # f => ref'[x] = ref[x]
    BY ZenonT(60), <1>1, RefreshMoves
<1>3. /\ ref'[f].pc \in {"update", "delete"} =>
            /\ ref'[f].sid = ref[f].sid /\ ref'[f].token = ref[f].token
            /\ \/ ref[f].pc = "update"
               \/ \E s \in GetByID(ref[f].sid) : s.refresh_token = ref[f].token
               \/ \E s \in GetByID(ref[f].sid) : s.prev_token # None /\ s.prev_token = ref[f].token
      /\ ref[f].pc = "update" =>
            \/ ref'[f].pc = "done" /\ ref'[f].result # "ok"
            \/ ref'[f].pc \in {"update", "done"} /\ ref'[f].sid = ref[f].sid
      /\ \/ sessions' \subseteq sessions
         \/ ref[f].pc = "update" /\ Rotation(f)
    BY ZenonT(60), RefreshDecides DEF DeleteSession
<1>4. f \notin Issued /\ f \notin Verifications
    BY <1>2, IdentityAssumption DEF Issued
<1>5. /\ Issued \subseteq Issued'
      /\ \A m \in Issued : SessionOf(m)' = SessionOf(m)
  <2>1. Issued \subseteq Issued'
    BY <1>2 DEF Issued
  <2>2. \A m \in Issued : m \in Verifications \/ (m \in Refreshes /\ m # f)
    BY <1>4 DEF Issued
  <2> QED
    BY <1>2, <2>1, <2>2 DEF SessionOf
<1>6. \A s \in sessions' :
        \/ s \in sessions
        \/ /\ ref[f].pc = "update" /\ s.session_id = ref[f].sid /\ s.refresh_token = f
           /\ s.prev_token = ref[f].token
  <2>1. ASSUME Rotation(f)
        PROVE  \A s \in sessions' :
                  \/ s \in sessions
                  \/ /\ s.session_id = ref[f].sid /\ s.refresh_token = f
                     /\ s.prev_token = ref[f].token
    BY ZenonT(60), <2>1, RotationKeepsOwner
  <2> QED
    BY <1>3, <2>1
<1>7. ASSUME ref[f].pc \in {"update", "delete"}
      PROVE  ref[f].token \in Issued /\ SessionOf(ref[f].token) = ref[f].sid
    BY <1>7 DEF TokenOwnerInv
<1>8. ASSUME NEW s \in sessions', s.prev_token # None
      PROVE  s.prev_token \in Issued /\ SessionOf(s.prev_token) = s.session_id
  <2>1. CASE s \in sessions
    BY <1>8, <2>1 DEF TokenOwnerInv
  <2>2. CASE s \notin sessions
    BY <1>6, <1>7, <1>8, <2>2
  <2> QED
    BY <2>1, <2>2
<1>9. ASSUME NEW s \in sessions', NEW x \in Verifications, s.refresh_token = x
      PROVE  x = s.session_id
  <2>1. s \in sessions
    BY <1>4, <1>6, <1>9
  <2> QED
    BY <1>9, <2>1 DEF TokenOwnerInv
<1>10. ASSUME NEW s \in sessions', NEW x \in Refreshes, s.refresh_token = x,
              ref'[x].pc # "done" \/ ref'[x].result = "ok"
       PROVE  ref'[x].pc \in {"update", "done"} /\ ref'[x].sid = s.session_id
  <2>1. CASE x # f
    <3>1. s \in sessions /\ ref'[x] = ref[x]
        BY <1>2, <1>6, <1>10, <2>1
    <3> QED
        BY <1>10, <3>1 DEF TokenOwnerInv
  <2>2. CASE x = f
    <3>1. ref[f].pc = "update" /\ ref[f].sid = s.session_id
      <4>1. CASE s \in sessions
        <5>1. ref[f].pc \in {"update", "done"} /\ ref[f].sid = s.session_id
            BY <1>2, <1>10, <2>2, <4>1 DEF TokenOwnerInv
        <5> QED
            BY <1>2, <5>1
      <4>2. CASE s \notin sessions
        BY <1>6, <4>2
      <4> QED
        BY <4>1, <4>2
    <3> QED
        BY <1>3, <1>10, <2>2, <3>1
  <2> QED
    BY <2>1, <2>2
<1>11. ASSUME NEW s \in GetByID(ref[f].sid), s.refresh_token = ref[f].token
       PROVE  ref[f].token \in Issued /\ SessionOf(ref[f].token) = ref[f].sid
  <2>1. s \in sessions /\ s.session_id = ref[f].sid
    BY <1>11 DEF GetByID
  <2>2. ref[f].token \in TokenIDs
    BY <1>11, <2>1 DEF TypeOK, SessionTypeOK, SessionItem
  <2>3. ref[f].token \in Issued
    BY <1>1, <2>2, IdentityAssumption DEF RotationInv, TokenIDs
  <2>4. CASE ref[f].token \in Verifications
    BY <1>11, <2>1, <2>3, <2>4 DEF TokenOwnerInv, SessionOf
  <2>5. CASE ref[f].token \notin Verifications
    <3>1. ref[f].token \in Refreshes /\ ref[ref[f].token].result = "ok"
        BY <2>3, <2>5 DEF Issued
    <3>2. ref[ref[f].token].sid = s.session_id
        BY <1>11, <2>1, <3>1 DEF TokenOwnerInv
    <3> QED
        BY <2>1, <2>3, <2>5, <3>2 DEF SessionOf
  <2> QED
    BY <2>4, <2>5
<1>12. ASSUME NEW s \in GetByID(ref[f].sid), s.prev_token # None, s.prev_token = ref[f].token
       PROVE  ref[f].token \in Issued /\ SessionOf(ref[f].token) = ref[f].sid
    BY <1>12 DEF TokenOwnerInv, GetByID
<1>13. ASSUME NEW x \in Refreshes, ref'[x].pc \in {"update", "delete"}
       PROVE  ref'[x].token \in Issued /\ SessionOf(ref'[x].token) = ref'[x].sid
  <2>1. CASE x # f
    BY <1>2, <1>13, <2>1 DEF TokenOwnerInv
  <2>2. CASE x = f
    <3>1. ref[f].token \in Issued /\ SessionOf(ref[f].token) = ref[f].sid
        BY <1>3, <1>7, <1>11, <1>12, <1>13, <2>2
    <3> QED
        BY <1>3, <1>13, <2>2, <3>1
  <2> QED
    BY <2>1, <2>2
<1>14. ASSUME NEW s \in sessions', s.prev_token # None
       PROVE  s.prev_token \in Issued' /\ SessionOf(s.prev_token)' = s.session_id
    BY <1>5, <1>8, <1>14
<1>15. ASSUME NEW x \in Refreshes, ref'[x].pc \in {"update", "delete"}
       PROVE  ref'[x].token \in Issued' /\ SessionOf(ref[x].token)' = ref'[x].sid
  <2>1. PICK m \in Issued : m = ref'[x].token /\ SessionOf(m) = ref'[x].sid
    BY <1>13, <1>15
  <2>2. m \in Issued' /\ SessionOf(m)' = ref'[x].sid
    BY <1>5, <2>1
  <2> QED
    BY <2>1, <2>2 DEF SessionOf
<1> QED
    BY ZenonT(60), <1>9, <1>10, <1>14, <1>15 DEF TokenOwnerInv, SessionOf

\* What the table and the index show after time, the TTL, the indexes and RequestOTP did
\* their part was shown before, and a call of RequestOTP keeps its phone.
LEMMA OthersShow ==
    ASSUME TypeOK, OTPInv, \/ TimePasses \/ TableMaintenance \/ UNCHANGED vars
                           \/ \E q \in OTPRequests : RequestSteps(q)
    PROVE  /\ sessions' \cup sessionIndex' \subseteq sessions \cup sessionIndex
           /\ \A q \in OTPRequests : req[q].pc # "idle" => req'[q].phone = req[q].phone
<1>1. CASE TimePasses \/ UNCHANGED vars
    BY <1>1 DEF TimePasses, tableVars, sessionVars, vars
<1>2. CASE TableMaintenance
  <2>1. UNCHANGED req
    BY <1>2 DEF TableMaintenance
  <2>2. ASSUME ExpireSessionItem
        PROVE  sessions' \cup sessionIndex' \subseteq sessions \cup sessionIndex
    BY <2>2 DEF ExpireSessionItem
  <2>3. ASSUME PropagateSession
        PROVE  sessions' \cup sessionIndex' \subseteq sessions \cup sessionIndex
    BY <2>3 DEF PropagateSession
  <2>4. ASSUME UNCHANGED sessionVars
        PROVE  sessions' \cup sessionIndex' \subseteq sessions \cup sessionIndex
    BY <2>4 DEF sessionVars
  <2> QED
    BY ZenonT(60), <1>2, <2>1, <2>2, <2>3, <2>4 DEF TableMaintenance
<1>3. ASSUME NEW x \in OTPRequests, RequestSteps(x)
      PROVE  /\ sessions' \cup sessionIndex' \subseteq sessions \cup sessionIndex
             /\ \A q \in OTPRequests : req[q].pc # "idle" => req'[q].phone = req[q].phone
  <2>1. UNCHANGED <<sessions, sessionIndex>>
    BY <1>3 DEF RequestSteps, sessionVars
  <2>2. PICK e \in Successors(req[x]) : req' = [req EXCEPT ![x] = e]
    BY <1>3, RequestEffects
  <2>3. req[x].pc # "idle" => e.phone = req[x].phone
    BY <2>2 DEF Successors
  <2>4. req \in [OTPRequests -> Request]
    BY DEF TypeOK, RequestTypeOK
  <2> QED
    BY <2>1, <2>2, <2>3, <2>4
<1> QED
    BY <1>1, <1>2, <1>3

\* No step of any call breaks OwnerInv.
LEMMA OwnerStep == IInv /\ TypeOK' /\ SessionInv /\ OwnerInv /\ [Next]_vars => OwnerInv'
<1> SUFFICES ASSUME IInv, TypeOK', SessionInv, OwnerInv, [Next]_vars PROVE OwnerInv'
    OBVIOUS
<1>1. /\ TypeOK /\ CallInv /\ OTPInv
      /\ SessionOwnerInv /\ TokenOwnerInv
      /\ IssuedInv /\ RotationInv /\ RevocationInv
    BY DEF IInv, OwnerInv, SessionInv
<1>2. ASSUME NEW r \in Verifications, VerifySteps(r) PROVE OwnerInv'
  <2>1. SessionOwnerInv'
    BY <1>1, <1>2, VerifyKeepsOwners
  <2>2. /\ UNCHANGED ref
        /\ \A s \in sessions' :
              \/ s \in sessions
              \/ /\ s.session_id \in Verifications /\ s.refresh_token = s.session_id
                 /\ s.prev_token = None
    BY <1>2, VerifyOwners
  <2>3. Issued \subseteq Issued'
    BY ZenonT(60), <1>1, <1>2, <2>2, VerifySessions DEF Issued
  <2> QED
    BY <1>1, <2>1, <2>2, <2>3, TokenOwnersStay DEF OwnerInv
<1>3. ASSUME NEW f \in Refreshes, RefreshSteps(f) PROVE OwnerInv'
  <2>1. TokenOwnerInv'
    BY <1>1, <1>3, RefreshKeepsOwners
  <2>2. UNCHANGED ver
    BY <1>1, <1>3, RefreshMoves
  <2>3. UNCHANGED <<req, sessionIndex, commits>>
    BY <1>1, <1>3, RefreshDecides
  <2>4. \A s \in sessions' : s.user_id # None =>
            \E t \in sessions : t.session_id = s.session_id /\ t.user_id = s.user_id
    <3>1. CASE Rotation(f)
      <4>1. \A s \in sessions' :
              \/ s \in sessions
              \/ /\ s.session_id = ref[f].sid /\ s.refresh_token = f
                 /\ s.prev_token = ref[f].token
                 /\ \/ s.user_id = None
                    \/ \E t \in sessions : t.session_id = ref[f].sid /\ t.user_id = s.user_id
        BY ZenonT(60), <3>1, RotationKeepsOwner
      <4> QED
        BY ZenonT(60), <4>1
    <3>2. CASE sessions' \subseteq sessions
        BY <3>2
    <3> QED
        BY ZenonT(60), <1>1, <1>3, <3>1, <3>2, RefreshMoves
  <2>5. SessionOwnerInv'
    BY <1>1, <2>2, <2>3, <2>4, OwnersStay
  <2> QED
    BY <2>1, <2>5 DEF OwnerInv
<1>4. ASSUME UNCHANGED <<ver, ref, commits>>,
             sessions' \subseteq sessions,
             sessions' \cup sessionIndex' \subseteq sessions \cup sessionIndex,
             \A q \in OTPRequests : req[q].pc # "idle" => req'[q].phone = req[q].phone
      PROVE  OwnerInv'
  <2>1. SessionOwnerInv'
    BY <1>1, <1>4, OwnersStay
  <2>2. Issued \subseteq Issued'
    BY <1>4 DEF Issued
  <2>3. TokenOwnerInv'
    BY <1>1, <1>4, <2>2, TokenOwnersStay
  <2> QED
    BY <2>1, <2>3 DEF OwnerInv
<1>5. ASSUME NEW l \in Logouts, LogoutSteps(l) PROVE OwnerInv'
  <2>1. UNCHANGED <<ver, ref, commits>> /\ sessions' \subseteq sessions
    BY <1>1, <1>5, LogoutMoves
  <2>2. UNCHANGED <<req, sessionIndex>>
    BY ZenonT(30), <1>5
    DEF LogoutSteps, LogoutStep, LogoutArrives, LogoutDeletes, LogoutRevokes, tableVars,
        sessionVars
  <2> QED
    BY <1>4, <2>1, <2>2
<1>6. CASE \/ TimePasses \/ TableMaintenance \/ UNCHANGED vars
           \/ \E q \in OTPRequests : RequestSteps(q)
    BY <1>1, <1>4, <1>6, OthersMove, OthersShow
<1> QED
    BY <1>2, <1>3, <1>5, <1>6 DEF Next, Terminating

\* The service starts without sessions and calls.
LEMMA OwnerInit == Init => OwnerInv
<1> SUFFICES ASSUME Init PROVE OwnerInv
    OBVIOUS
<1>1. /\ \A r \in Verifications : ver[r].pc = "idle"
      /\ \A f \in Refreshes : ref[f].pc = "idle"
      /\ sessions = {} /\ sessionIndex = {}
    BY DEF Init, VerifyInit, NewCall, RefreshInit, NewRefresh, SessionInit
<1>2. SessionOwnerInv
    BY <1>1 DEF SessionOwnerInv, Matched
<1>3. TokenOwnerInv
    BY <1>1 DEF TokenOwnerInv
<1> QED
    BY <1>2, <1>3 DEF OwnerInv

\* Every session of a user was opened for that user, wherever it is shown, and every token
\* that a session knows was made for it, whatever rotations, evictions and late indexes
\* interleave.
THEOREM OwnersInvariant == Spec => []OwnerInv
<1>1. IInv => TypeOK
    BY DEF IInv
<1> QED
    BY <1>1, InductiveInvariant, SessionInvariant, OwnerInit, OwnerStep, PTL DEF Spec

\* EvictSession deletes a session of the account its call was given a code for.
LEMMA EvictsOwn ==
    ASSUME TypeOK, CallInv, UserInv, OTPOpensOwnAccount, LoginInv, SessionOwnerInv,
           NEW r \in Verifications, EvictSession(r), NEW s \in sessions, s \notin sessions'
    PROVE  /\ ver[r].pc = "evict" /\ ver'[r].pc # "evict"
           /\ \E c \in commits : /\ c.session = s.session_id
                                 /\ req[ver[r].code].phone = req[c.otp].phone
<1>1. ver \in [Verifications -> VerifyCall] /\ ver[r].pc = "evict"
    BY DEF TypeOK, VerifyTypeOK, EvictSession
<1>2. ver'[r].pc # "evict"
  <2>1. ASSUME NEW todo, NEW id,
               ver' = [ver EXCEPT ![r] =
                         [@ EXCEPT !.pc = "revoke", !.todo = todo, !.victim = id]]
        PROVE  ver'[r].pc # "evict"
    BY <1>1, <2>1 DEF VerifyCall
  <2>2. ASSUME VerifyReturns(r, "error")
        PROVE  ver'[r].pc # "evict"
    BY <1>1, <2>2 DEF VerifyReturns, NewCall
  <2> QED
    BY ZenonT(60), <2>1, <2>2 DEF EvictSession
<1>3. PICK v \in ver[r].todo : s.session_id = v.session_id
  <2>1. NextVictims(ver[r].todo, ver[r].device) \subseteq ver[r].todo
    BY DEF NextVictims
  <2>2. ASSUME NEW v, DeleteSession(v.session_id) PROVE s.session_id = v.session_id
    BY <2>2 DEF DeleteSession
  <2> QED
    BY ZenonT(60), <2>1, <2>2 DEF EvictSession
<1>4. PICK c \in commits : c.session = v.session_id /\ c.user = ver[r].user
    BY <1>1, <1>3 DEF SessionOwnerInv
<1>5. req[ver[r].code].phone = ver[r].phone
    BY <1>1 DEF SessionOwnerInv, Matched
<1>6. /\ [user_id |-> c.user, phone_number |-> req[c.otp].phone] \in users
      /\ [user_id |-> ver[r].user, phone_number |-> ver[r].phone] \in users
    BY <1>1, <1>4 DEF OTPOpensOwnAccount, UserInv, Identified
<1>7. req[c.otp].phone = ver[r].phone
  <2>1. \A a, b \in users : a.user_id = b.user_id => a = b
    BY DEF LoginInv
  <2> QED
    BY <1>4, <1>6, <2>1
<1> QED
    BY <1>1, <1>2, <1>3, <1>4, <1>5, <1>7

\* A step that ends a session is a step of its owner's, or of the TTL.
LEMMA EndedStep ==
    IInv /\ LoginInv /\ SessionInv /\ OwnerInv /\ [Next]_vars =>
      \A s \in sessions : SessionIDFree(s.session_id)' =>
         \/ s.expires_at < RFC3339(now)
         \/ \E r \in Verifications, c \in commits :
               /\ ver[r].pc = "evict" /\ ver'[r].pc # "evict"
               /\ c.session = s.session_id
               /\ req[ver[r].code].phone = req[c.otp].phone
         \/ \E f \in Refreshes :
               /\ ref[f].pc = "delete" /\ ref'[f].pc # "delete"
               /\ ref[f].token \in Issued /\ SessionOf(ref[f].token) = s.session_id
         \/ \E l \in Logouts :
               /\ out[l].pc = "delete" /\ out'[l].pc # "delete"
               /\ out[l].jti \in Issued /\ SessionOf(out[l].jti) = s.session_id
<1> SUFFICES ASSUME IInv, LoginInv, SessionInv, OwnerInv, [Next]_vars,
                    NEW s \in sessions, SessionIDFree(s.session_id)'
             PROVE  \/ s.expires_at < RFC3339(now)
                    \/ \E r \in Verifications, c \in commits :
                          /\ ver[r].pc = "evict" /\ ver'[r].pc # "evict"
                          /\ c.session = s.session_id
                          /\ req[ver[r].code].phone = req[c.otp].phone
                    \/ \E f \in Refreshes :
                          /\ ref[f].pc = "delete" /\ ref'[f].pc # "delete"
                          /\ ref[f].token \in Issued /\ SessionOf(ref[f].token) = s.session_id
                    \/ \E l \in Logouts :
                          /\ out[l].pc = "delete" /\ out'[l].pc # "delete"
                          /\ out[l].jti \in Issued /\ SessionOf(out[l].jti) = s.session_id
    OBVIOUS
<1> DEFINE ByTTL == s.expires_at < RFC3339(now)
           ByVerify == \E r \in Verifications, c \in commits :
                          /\ ver[r].pc = "evict" /\ ver'[r].pc # "evict"
                          /\ c.session = s.session_id
                          /\ req[ver[r].code].phone = req[c.otp].phone
           ByRefresh == \E f \in Refreshes :
                          /\ ref[f].pc = "delete" /\ ref'[f].pc # "delete"
                          /\ ref[f].token \in Issued /\ SessionOf(ref[f].token) = s.session_id
           ByLogout == \E l \in Logouts :
                          /\ out[l].pc = "delete" /\ out'[l].pc # "delete"
                          /\ out[l].jti \in Issued /\ SessionOf(out[l].jti) = s.session_id
<1>1. /\ TypeOK /\ CallInv /\ UserInv /\ OTPOpensOwnAccount
      /\ SessionOwnerInv /\ TokenOwnerInv /\ RevocationInv
    BY DEF IInv, OwnerInv, SessionInv
<1>2. /\ s \notin sessions'
      /\ \A t \in sessions' : t.session_id # s.session_id
    BY DEF SessionIDFree
<1>3. ASSUME NEW r \in Verifications, VerifySteps(r) PROVE ByVerify
  <2>1. EvictSession(r)
    BY ZenonT(60), <1>2, <1>3, VerifyOwners
  <2> QED
    BY <1>1, <1>2, <2>1, EvictsOwn
<1>4. ASSUME NEW id, DeleteSession(id) PROVE id = s.session_id
    BY <1>2, <1>4 DEF DeleteSession
<1>5. ASSUME NEW f \in Refreshes, RefreshSteps(f) PROVE ByRefresh
  <2>1. ASSUME Rotation(f) PROVE FALSE
    BY ZenonT(60), <1>2, <2>1, RotationKeepsOwner
  <2>2. ref[f].pc = "delete" /\ ref'[f].pc = "revoke" /\ DeleteSession(ref[f].sid)
    BY ZenonT(60), <1>1, <1>2, <1>5, <2>1, RefreshDecides
  <2>3. ref[f].token \in Issued /\ SessionOf(ref[f].token) = ref[f].sid
    BY <1>1, <2>2 DEF TokenOwnerInv
  <2> QED
    BY <1>4, <2>2, <2>3
<1>6. ASSUME NEW l \in Logouts, LogoutSteps(l) PROVE ByLogout
  <2>1. LogoutDeletes(l)
    BY ZenonT(60), <1>2, <1>6
    DEF LogoutSteps, LogoutStep, LogoutArrives, LogoutRevokes, tableVars, sessionVars
  <2>2. out[l].pc = "delete" /\ out'[l].pc = "revoke" /\ DeleteSession(SessionOf(out[l].jti))
    BY <1>1, <1>2, <2>1 DEF LogoutDeletes, TypeOK, LogoutTypeOK, LogoutCall
  <2>3. out[l].jti \in Issued
    BY <1>1, <2>2 DEF RevocationInv
  <2> QED
    BY <1>4, <2>2, <2>3
<1>7. ASSUME \/ TimePasses \/ TableMaintenance \/ UNCHANGED vars
             \/ \E q \in OTPRequests : RequestSteps(q)
      PROVE  ByTTL
  <2>1. ExpireSessionItem
    BY ZenonT(60), <1>2, <1>7
    DEF TimePasses, TableMaintenance, PropagateSession, RequestSteps, tableVars, sessionVars, vars
  <2> QED
    BY <1>2, <2>1 DEF ExpireSessionItem
<1>8. ByTTL \/ ByVerify \/ ByRefresh \/ ByLogout
  <2> HIDE DEF ByTTL, ByVerify, ByRefresh, ByLogout
  <2> QED
    BY ZenonT(60), <1>3, <1>5, <1>6, <1>7 DEF Next, Terminating
<1> QED
    BY <1>8

\* Nobody ends the session of somebody else: before it has expired, a session leaves the
\* table only in a step of a call that was given a code of its account or a token of its
\* own, even when the call works from an index that is out of date.
THEOREM OnlyOwnersEnd == Spec => EndedByOwner
<1> QED
    BY InductiveInvariant, LoginInvariant, SessionInvariant, OwnersInvariant, EndedStep, PTL
    DEF Spec, EndedByOwner
=============================================================================
