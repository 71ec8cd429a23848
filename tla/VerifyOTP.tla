------------------------------ MODULE VerifyOTP ------------------------------
(***************************************************************************)
(* AuthService.VerifyOTP (app/auth_verify_otp.go): registration or login   *)
(* with an OTP.  Each element of Verifications is one call; calls          *)
(* interleave at every store operation.  A step is one call to a store     *)
(* together with the local code that follows it, up to and including the   *)
(* arguments (and the clock readings) of the next call.                    *)
(***************************************************************************)
EXTENDS RequestOTP, Transactor, FiniteSets

VARIABLE ver       \* per call: where it is, its arguments and locals, its result

VerifyResults ==
    {"none", "ok", "error", "ErrInvalidPhoneNumber", "ErrInvalidInput", "ErrUnavailable",
     "ErrRateLimited", "ErrInvalidOTP", "ErrNotFound", "ErrAlreadyExists"}

VerifyCall ==
    [pc     : {"idle", "rate", "lockout", "get", "set_lockout", "increment", "find",
               "register", "find_race", "list", "evict", "revoke", "login", "done"},
     phone  : Phones \cup {None},
     code   : OTPRequests \cup {None},     \* the candidate; None is a wrong code
     device : Devices \cup {None},
     mac    : OTPRequests \cup {None},     \* of the OTP record that was read,
     exp    : Nat,                         \* with its expires_at
     user   : UserIDs \cup {None},         \* the user found
     todo   : SUBSET SessionItem,          \* sessions still to evict
     victim : Verifications \cup {None},   \* session deleted and not yet revoked
     at     : Nat,                         \* the last clock reading
     tries  : Nat,                         \* requests repeated so far
     result : VerifyResults]

NewCall ==
    [pc |-> "idle", phone |-> None, code |-> None, device |-> None, mac |-> None,
     exp |-> 0, user |-> None, todo |-> {}, victim |-> None, at |-> 0, tries |-> 0,
     result |-> "none"]

VerifyTypeOK == ver \in [Verifications -> VerifyCall]
VerifyInit   == ver = [r \in Verifications |-> NewCall]

Goto(r, pc) == ver' = [ver EXCEPT ![r].pc = pc]

\* The request of this step is repeated: see ReplyLost.
RepeatVerify(r, fault) ==
    ReplyLost(fault, ver[r].tries) /\ ver' = [ver EXCEPT ![r].tries = @ + 1]

\* The call returns; its locals are dead.
VerifyReturns(r, result) ==
    ver' = [ver EXCEPT ![r] = [NewCall EXCEPT !.pc = "done", !.result = result]]

\* Lines 22-40: the call arrives, with a code that was delivered or a wrong one; a
\* malformed number or a missing device is refused at once.
VerifyArrives(r) ==
    /\ ver[r].pc = "idle"
    /\ \/ \E p \in Phones, c \in CodesDelivered \cup {None}, d \in Devices :
            ver' = [ver EXCEPT ![r] =
                [@ EXCEPT !.pc = "rate", !.phone = p, !.code = c, !.device = d]]
       \/ VerifyReturns(r, "ErrInvalidPhoneNumber")
       \/ VerifyReturns(r, "ErrInvalidInput")
    /\ UNCHANGED <<now, limiterVars, tableVars>>

\* checkVerifyRateLimits, the counter.
CheckVerifyRate(r) ==
    LET k == VerifyKey(ver[r].phone) IN
    /\ ver[r].pc = "rate"
    /\ \/ /\ CheckAndIncrement(k)
          /\ \/ Allowed(k, MaxOTPVerifyAttempts) /\ Goto(r, "lockout")
             \/ ~Allowed(k, MaxOTPVerifyAttempts) /\ VerifyReturns(r, "ErrRateLimited")
             \/ RepeatVerify(r, "redis")
       \/ LimiterFails(k) /\ VerifyReturns(r, "ErrUnavailable")
    /\ UNCHANGED <<now, lockout, tableVars>>

\* checkVerifyRateLimits, the lockout key.
CheckVerifyLockout(r) ==
    /\ ver[r].pc = "lockout"
    /\ \/ ~CheckLockout(ver[r].phone) /\ Goto(r, "get")
       \/ CheckLockout(ver[r].phone) /\ VerifyReturns(r, "ErrRateLimited")
       \/ "redis" \in Faults /\ VerifyReturns(r, "ErrUnavailable")
    /\ UNCHANGED <<now, limiterVars, tableVars>>

\* validateOTPRecord, from GetOTP to the comparison of the MACs.
ValidateOTPRecord(r) ==
    LET record    == otp[ver[r].phone]
        pending   == record.status = "pending"
        exhausted == record.attempt_count >= MaxOTPVerifyAttempts
        expired   == After(now, record.expires_at)
        live      == pending /\ ~exhausted /\ ~expired
    IN
    /\ ver[r].pc = "get"
    /\ \/ /\ live
          /\ ~VerifyOTPMAC(record, ver[r].code)
          /\ guesses' = [guesses EXCEPT ![record.mac] = @ + 1]
          /\ Goto(r, "increment")
       \/ /\ \/ ~pending /\ VerifyReturns(r, "ErrInvalidOTP")
             \/ pending /\ exhausted /\ Goto(r, "set_lockout")
             \/ pending /\ ~exhausted /\ expired /\ VerifyReturns(r, "ErrInvalidOTP")
             \/ /\ live
                /\ VerifyOTPMAC(record, ver[r].code)
                /\ ver' = [ver EXCEPT ![r] =
                       [@ EXCEPT !.pc = "find", !.mac = record.mac,
                                 !.exp = record.expires_at]]
             \/ "dynamo" \in Faults /\ VerifyReturns(r, "error")
          /\ UNCHANGED guesses
    /\ UNCHANGED <<now, limiterVars, otp, userVars, sessionVars, commits>>

\* Lines 136-142: a failure to set the lockout is only logged.
LockOut(r) ==
    /\ ver[r].pc = "set_lockout"
    /\ SetLockout(ver[r].phone) \/ ("redis" \in Faults /\ UNCHANGED lockout)
    /\ VerifyReturns(r, "ErrRateLimited")
    /\ UNCHANGED <<now, counter, tableVars>>

\* Lines 153-159: a failure to count the attempt is only logged.
CountAttempt(r) ==
    /\ ver[r].pc = "increment"
    /\ \/ /\ IncrementAttempts(ver[r].phone)
          /\ VerifyReturns(r, "ErrInvalidOTP") \/ RepeatVerify(r, "dynamo")
       \/ /\ "dynamo" \in Faults
          /\ UNCHANGED otp
          /\ VerifyReturns(r, "ErrInvalidOTP")
    /\ UNCHANGED <<now, limiterVars, userVars, sessionVars, historyVars>>

\* The query of the phone index and the consistent read of the row it names; rows
\* never change, so the two are one step.  missing says how the call goes on
\* when there is none.
FindByPhone(r, missing) ==
    \/ \E u \in PhoneMatches(ver[r].phone) :
        ver' = [ver EXCEPT ![r] = [@ EXCEPT !.pc = "list", !.user = u, !.at = now]]
    \/ PhoneMatches(ver[r].phone) = {} /\ missing
    \/ "dynamo" \in Faults /\ VerifyReturns(r, "error")

\* Lines 56-68: an unknown phone registers, with the clock read at line 173; a
\* known one logs in, with the clock read by ListByUser.
FindUser(r) ==
    /\ ver[r].pc = "find"
    /\ FindByPhone(r, ver' = [ver EXCEPT ![r] =
                          [@ EXCEPT !.pc = "register", !.at = now]])
    /\ UNCHANGED <<now, limiterVars, tableVars>>

\* Mutant: a lost reply is reported as a store that is unavailable.
CommittedUnavailable(r) ==
    \/ ver' = [ver EXCEPT ![r] = [NewCall EXCEPT !.pc = "done", !.result = "ok", !.at = now]]
    \/ Faults \cap {"dynamo", "mint"} # {} /\ VerifyReturns(r, "ErrUnavailable")

\* Mutant: a transaction whose reply was lost is repeated without its client token.
CommittedRepeats(r) ==
    \/ ver' = [ver EXCEPT ![r] = [NewCall EXCEPT !.pc = "done", !.result = "ok", !.at = now]]
    \/ RepeatVerify(r, "dynamo")

\* What the call returns once its transaction was executed: the tokens, the access
\* token minted now, or the error of a lost reply or of MintAccessToken.  (A repeated
\* transaction carries a client token and is executed once.)
Committed(r) ==
    \/ ver' = [ver EXCEPT ![r] = [NewCall EXCEPT !.pc = "done", !.result = "ok", !.at = now]]
    \/ Faults \cap {"dynamo", "mint"} # {} /\ VerifyReturns(r, "error")

\* verifyOTPNewUser.  classifyTxError makes ErrAlreadyExists of any failed
\* condition, that of the OTP included.
RegisterUser(r) ==
    LET c == ver[r] IN
    /\ c.pc = "register"
    /\ \/ VerifyOTPAndCreateUser(r, c.phone, c.mac, c.exp, c.device, c.at) /\ Committed(r)
       \/ /\ ~CreateUserCond(r, c.phone, c.mac, c.exp)
          /\ Goto(r, "find_race")
          /\ UNCHANGED tableVars
       \/ "dynamo" \in Faults /\ VerifyReturns(r, "error") /\ UNCHANGED tableVars
    /\ UNCHANGED <<now, limiterVars>>

\* Lines 199-205: the loser of a registration race goes on as a login.
FindUserAfterRace(r) ==
    /\ ver[r].pc = "find_race"
    /\ FindByPhone(r, VerifyReturns(r, "ErrNotFound"))
    /\ UNCHANGED <<now, limiterVars, tableVars>>

\* Mutant: the new session is not counted.
EvictCountOffByOne(n) == IF n < MaxSessionsPerUser THEN 0 ELSE n - MaxSessionsPerUser

\* How many of n sessions on other devices enforceSessionLimit evicts.
EvictCount(n) == IF n < MaxSessionsPerUser THEN 0 ELSE n - MaxSessionsPerUser + 1

\* old: that many of the sessions in others, the oldest first; sessions of the
\* same second sort in any order.
Oldest(old, others) ==
    /\ Cardinality(old) = EvictCount(Cardinality(others))
    /\ \A s \in old, t \in others \ old : s.created_at <= t.created_at

\* Mutant: the sessions are listed again after the last eviction.
EvictNextRelists(r, todo) ==
    ver' = [ver EXCEPT ![r] =
        [@ EXCEPT !.pc = IF todo = {} THEN "list" ELSE "evict", !.todo = todo,
                  !.victim = None, !.at = now]]

\* On to the next eviction, or to the clock reading of createLoginSession.
EvictNext(r, todo) ==
    ver' = [ver EXCEPT ![r] =
        [@ EXCEPT !.pc = IF todo = {} THEN "login" ELSE "evict", !.todo = todo,
                  !.victim = None, !.at = now]]

\* ListByUser, and which sessions the two loops over its result will evict.
ListSessions(r) ==
    LET listed == ListByUser(ver[r].user, RFC3339(ver[r].at))
        same   == {s \in listed : s.device_id = ver[r].device}
    IN
    /\ ver[r].pc = "list"
    /\ \/ \E old \in SUBSET (listed \ same) :
            Oldest(old, listed \ same) /\ EvictNext(r, same \cup old)
       \/ "dynamo" \in Faults /\ VerifyReturns(r, "error")
    /\ UNCHANGED <<now, limiterVars, tableVars>>

\* evictConflictingSessions runs before enforceSessionLimit, and that in order
\* of creation.
NextVictims(todo, d) ==
    LET same == {s \in todo : s.device_id = d} IN
    IF same # {} THEN same
    ELSE {s \in todo : \A t \in todo : s.created_at <= t.created_at}

\* Lines 265 and 296: the session is deleted; an error ends the call.
EvictSession(r) ==
    /\ ver[r].pc = "evict"
    /\ \E s \in NextVictims(ver[r].todo, ver[r].device) :
        \/ /\ DeleteSession(s.session_id)
           /\ ver' = [ver EXCEPT ![r] =
                  [@ EXCEPT !.pc = "revoke", !.todo = ver[r].todo \ {s},
                            !.victim = s.session_id]]
        \/ /\ "dynamo" \in Faults
           /\ DeleteSession(s.session_id) \/ UNCHANGED sessions
           /\ VerifyReturns(r, "error")
    /\ UNCHANGED <<now, limiterVars, otp, userVars, sessionIndex, revoked, historyVars>>

\* Lines 268 and 299: the session is revoked under its session ID.
RevokeSession(r) ==
    /\ ver[r].pc = "revoke"
    /\ \/ Revoke(<<"session", ver[r].victim>>) /\ EvictNext(r, ver[r].todo)
       \/ /\ "redis" \in Faults
          /\ Revoke(<<"session", ver[r].victim>>) \/ UNCHANGED revoked
          /\ VerifyReturns(r, "error")
    /\ UNCHANGED <<now, limiterVars, otp, userVars, sessions, sessionIndex, historyVars>>

\* createLoginSession.
CreateLoginSession(r) ==
    LET c == ver[r] IN
    /\ c.pc = "login"
    /\ \/ /\ VerifyOTPAndCreateSession(r, c.phone, c.mac, c.exp, c.user, c.device, c.at)
          /\ Committed(r)
       \/ /\ ~CreateSessionCond(r, c.phone, c.mac, c.exp)
          /\ VerifyReturns(r, "ErrAlreadyExists")
          /\ UNCHANGED tableVars
       \/ "dynamo" \in Faults /\ VerifyReturns(r, "error") /\ UNCHANGED tableVars
    /\ UNCHANGED <<now, limiterVars>>

VerifyStep(r) ==
    \/ VerifyArrives(r)
    \/ CheckVerifyRate(r)
    \/ CheckVerifyLockout(r)
    \/ ValidateOTPRecord(r)
    \/ LockOut(r)
    \/ CountAttempt(r)
    \/ FindUser(r)
    \/ RegisterUser(r)
    \/ FindUserAfterRace(r)
    \/ ListSessions(r)
    \/ EvictSession(r)
    \/ RevokeSession(r)
    \/ CreateLoginSession(r)
=============================================================================
