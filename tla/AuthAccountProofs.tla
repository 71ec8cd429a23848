------------------------- MODULE AuthAccountProofs -------------------------
(***************************************************************************)
(* Type correctness of AuthService; OneUserPerPhone, OTPSpentOnce and      *)
(* OTPOpensOwnAccount, with the inductive invariant IInv; and AuthService  *)
(* implements OneTimeLogin.  All of it for all values of the constants:    *)
(* whatever calls interleave, whichever dependencies fail and however far  *)
(* the indexes lag.                                                        *)
(***************************************************************************)
EXTENDS LoginRefinement, TLAPS

(***************************************************************************)
(* Types and the locals of the calls.                                      *)
(***************************************************************************)

\* RFC3339 and the ends of lifetimes are natural numbers.
LEMMA SecondType ==
    ASSUME NEW t \in Nat
    PROVE  RFC3339(t) \in Nat
BY ClockAssumption DEF RFC3339

\* Empty stores and calls that have not arrived have their types.
LEMMA TypeInit == Init => TypeOK
<1> SUFFICES ASSUME Init PROVE TypeOK
    OBVIOUS
<1> USE DEF Init
<1>1. now \in Nat
    BY DEF ClockInit
<1>2. LimiterTypeOK
    BY DEF LimiterInit, LimiterTypeOK
<1>3. OTPTypeOK
    BY DEF OTPInit, OTPTypeOK, OTPItem, AbsentOTP
<1>4. UserTypeOK
    BY DEF UserInit, UserTypeOK
<1>5. SessionTypeOK
    BY DEF SessionInit, SessionTypeOK
<1>6. HistoryTypeOK
    BY DEF HistoryInit, HistoryTypeOK
<1>7. RequestTypeOK
    BY DEF RequestInit, RequestTypeOK, Request, RequestResults
<1>8. VerifyTypeOK
    BY DEF VerifyInit, VerifyTypeOK, VerifyCall, VerifyResults, NewCall
<1>9. RefreshTypeOK
    BY DEF RefreshInit, RefreshTypeOK, RefreshCall, RefreshResults, NewRefresh
<1>10. LogoutTypeOK
    BY DEF LogoutInit, LogoutTypeOK, LogoutCall, NewLogout
<1> QED
    BY <1>1, <1>2, <1>3, <1>4, <1>5, <1>6, <1>7, <1>8, <1>9, <1>10 DEF TypeOK

\* One execution of the counter script keeps the counters well typed.
LEMMA CheckAndIncrementType ==
    ASSUME LimiterTypeOK, now \in Nat, NEW k, CheckAndIncrement(k)
    PROVE  counter' \in [RateKeys -> [n : Nat, until : Nat]]
<1>1. CASE k \in RateKeys
    BY <1>1, LimitAssumption DEF LimiterTypeOK, CheckAndIncrement, Incr
<1>2. CASE k \notin RateKeys
    BY <1>2 DEF LimiterTypeOK, CheckAndIncrement
<1> QED
    BY <1>1, <1>2

\* What the steps of RequestOTP make of the record of a call is such a record again.
LEMMA RequestForms ==
    ASSUME NEW c \in Request
    PROVE  /\ [c EXCEPT !.tries = @ + 1] \in Request
           /\ \A pc \in {"ip_limit", "existing"} : [c EXCEPT !.pc = pc] \in Request
           /\ \A s \in {"sent", "failed"} : [c EXCEPT !.sms = s] \in Request
           /\ \A x \in RequestResults : [c EXCEPT !.pc = "done", !.result = x] \in Request
           /\ \A p \in Phones, a \in IPs :
                 [c EXCEPT !.pc = "phone_limit", !.phone = p, !.ip = a] \in Request
           /\ \A t \in Nat : [c EXCEPT !.pc = "create", !.at = t] \in Request
           /\ [c EXCEPT !.pc = "done", !.result = "ok", !.sms = "sending"] \in Request
           /\ \A x \in {"ErrInvalidPhoneNumber", "ErrUnavailable", "ErrPhoneRateLimited",
                         "ErrIPRateLimited", "ErrNotFound", "ok", "error"} :
                 x \in RequestResults
<1> USE DEF Request, RequestResults
<1>1. [c EXCEPT !.tries = @ + 1] \in Request
    OBVIOUS
<1>2. \A pc \in {"ip_limit", "existing"} : [c EXCEPT !.pc = pc] \in Request
    OBVIOUS
<1>3. \A s \in {"sent", "failed"} : [c EXCEPT !.sms = s] \in Request
    OBVIOUS
<1>4. \A x \in RequestResults : [c EXCEPT !.pc = "done", !.result = x] \in Request
    OBVIOUS
<1>5. \A p \in Phones, a \in IPs :
        [c EXCEPT !.pc = "phone_limit", !.phone = p, !.ip = a] \in Request
    BY ZenonT(60)
<1>6. \A t \in Nat : [c EXCEPT !.pc = "create", !.at = t] \in Request
    BY ZenonT(60)
<1>7. [c EXCEPT !.pc = "done", !.result = "ok", !.sms = "sending"] \in Request
    OBVIOUS
<1> QED
    BY ZenonT(60), <1>1, <1>2, <1>3, <1>4, <1>5, <1>6, <1>7

\* A step of RequestOTP keeps every variable well typed.
LEMMA RequestType ==
    ASSUME TypeOK, NEW q \in OTPRequests, RequestSteps(q)
    PROVE  TypeOK'
<1> USE DEF TypeOK
<1>1. /\ UNCHANGED <<now, userVars, sessionVars, historyVars, ver, ref, out, lockout>>
      /\ \/ UNCHANGED counter
         \/ \E k : CheckAndIncrement(k)
    BY ZenonT(60)
    DEF RequestSteps, RequestStep, RequestArrives, CheckRequestPhone, CheckRequestIP,
           CreateOTP, ReturnExistingOTP, SendSMS, LimiterFails, limiterVars
<1>2. LimiterTypeOK'
    BY <1>1, CheckAndIncrementType DEF LimiterTypeOK
<1>3. OTPTypeOK'
  <2>1. CASE CreateOTP(q)
    <3>1. req[q].at + OTPValidityDuration \in Nat
        BY LimitAssumption DEF RequestTypeOK, Request
    <3>2. RFC3339(req[q].at + OTPValidityDuration) \in Nat
        BY <3>1, SecondType
    <3> QED
        BY <2>1, <3>2 DEF CreateOTP, PutOTP, OTPTypeOK, OTPItem
  <2>2. CASE UNCHANGED otp
    BY <2>2 DEF OTPTypeOK
  <2> QED
    BY ZenonT(60), <2>1, <2>2 DEF RequestSteps, RequestStep, RequestArrives, CheckRequestPhone,
                      CheckRequestIP, ReturnExistingOTP, SendSMS
<1>4. RequestTypeOK'
  <2>1. ASSUME NEW c \in Request, req' = [req EXCEPT ![q] = c]
        PROVE  RequestTypeOK'
    BY <2>1 DEF RequestTypeOK
  <2>2. req[q] \in Request /\ now \in Nat
    BY DEF RequestTypeOK
  <2>3. CASE RequestArrives(q)
    BY ZenonT(60), <2>1, <2>2, <2>3, RequestForms DEF RequestArrives, RequestReturns
  <2>4. CASE CheckRequestPhone(q)
    BY ZenonT(60), <2>1, <2>2, <2>4, RequestForms
    DEF CheckRequestPhone, RequestReturns, RepeatRequest
  <2>5. CASE CheckRequestIP(q)
    BY ZenonT(60), <2>1, <2>2, <2>5, RequestForms
    DEF CheckRequestIP, RequestReturns, RepeatRequest
  <2>6. CASE CreateOTP(q)
    BY ZenonT(60), <2>1, <2>2, <2>6, RequestForms DEF CreateOTP, RequestReturns, RepeatRequest
  <2>7. CASE ReturnExistingOTP(q)
    BY ZenonT(60), <2>1, <2>2, <2>7, RequestForms DEF ReturnExistingOTP, RequestReturns
  <2>8. CASE SendSMS(q)
    BY ZenonT(60), <2>1, <2>2, <2>8, RequestForms DEF SendSMS
  <2> QED
    BY <2>3, <2>4, <2>5, <2>6, <2>7, <2>8 DEF RequestSteps, RequestStep
<1> QED
    BY <1>1, <1>2, <1>3, <1>4 DEF UserTypeOK, SessionTypeOK, HistoryTypeOK, VerifyTypeOK,
        RefreshTypeOK, LogoutTypeOK, userVars, sessionVars, historyVars

\* The records of calls of VerifyOTP that satisfy the invariant.
GoodCalls == {c \in VerifyCall : VerifyCallOK(c)}

\* What the steps of VerifyOTP make of the record of a call is such a record again.
LEMMA VerifyForms ==
    ASSUME NEW c \in GoodCalls
    PROVE  /\ [c EXCEPT !.tries = @ + 1] \in GoodCalls
           /\ c.phone \in Phones =>
                \A pc \in {"lockout", "get", "set_lockout", "increment"} :
                    [c EXCEPT !.pc = pc] \in GoodCalls
           /\ \A p \in Phones, k \in OTPRequests \cup {None}, d \in Devices :
                [c EXCEPT !.pc = "rate", !.phone = p, !.code = k, !.device = d] \in GoodCalls
           /\ c.phone \in Phones =>
                \A m \in OTPRequests, e \in Nat : m = c.code =>
                    [c EXCEPT !.pc = "find", !.mac = m, !.exp = e] \in GoodCalls
<1> USE DEF GoodCalls, VerifyCall, VerifyCallOK, Matched, Identified
<1>1. [c EXCEPT !.tries = @ + 1] \in GoodCalls
    OBVIOUS
<1>2. ASSUME c.phone \in Phones
      PROVE  \A pc \in {"lockout", "get", "set_lockout", "increment"} :
                [c EXCEPT !.pc = pc] \in GoodCalls
    BY <1>2
<1>3. ASSUME NEW p \in Phones, NEW k \in OTPRequests \cup {None}, NEW d \in Devices
      PROVE  [c EXCEPT !.pc = "rate", !.phone = p, !.code = k, !.device = d] \in GoodCalls
  <2> DEFINE e == [c EXCEPT !.pc = "rate", !.phone = p, !.code = k, !.device = d]
  <2>1. e \in VerifyCall
    OBVIOUS
  <2>2. e.pc = "rate" /\ e.phone = p
    OBVIOUS
  <2> HIDE DEF e
  <2>3. e \in GoodCalls
    BY <2>1, <2>2
  <2> QED
    BY <2>3 DEF e
<1>4. ASSUME c.phone \in Phones, NEW m \in OTPRequests, NEW x \in Nat, m = c.code
      PROVE  [c EXCEPT !.pc = "find", !.mac = m, !.exp = x] \in GoodCalls
  <2> DEFINE e == [c EXCEPT !.pc = "find", !.mac = m, !.exp = x]
  <2>1. e \in VerifyCall
    OBVIOUS
  <2>2. e.pc = "find" /\ e.phone = c.phone /\ e.mac = m /\ e.code = c.code
    OBVIOUS
  <2> HIDE DEF e
  <2>3. e \in GoodCalls
    BY <1>4, <2>1, <2>2
  <2> QED
    BY <2>3 DEF e
<1> HIDE DEF GoodCalls, VerifyCall, VerifyCallOK
<1> QED
    BY ZenonT(60), <1>1, <1>2, <1>3, <1>4

\* The same for the steps after the code was matched.
LEMMA MatchedForms ==
    ASSUME NEW c \in GoodCalls, c.pc \in Matched
    PROVE  /\ [c EXCEPT !.pc = "find_race"] \in GoodCalls
           /\ \A t \in Nat : [c EXCEPT !.pc = "register", !.at = t] \in GoodCalls
           /\ \A u \in UserIDs, t \in Nat :
                [c EXCEPT !.pc = "list", !.user = u, !.at = t] \in GoodCalls
<1> USE DEF GoodCalls, VerifyCall, VerifyCallOK, Matched, Identified
<1>1. [c EXCEPT !.pc = "find_race"] \in GoodCalls
    OBVIOUS
<1>2. \A t \in Nat : [c EXCEPT !.pc = "register", !.at = t] \in GoodCalls
    BY ZenonT(60)
<1>3. ASSUME NEW u \in UserIDs, NEW t \in Nat
      PROVE  [c EXCEPT !.pc = "list", !.user = u, !.at = t] \in GoodCalls
    OBVIOUS
<1> QED
    BY ZenonT(60), <1>1, <1>2, <1>3

\* The same for the steps after the user was found.
LEMMA IdentifiedForms ==
    ASSUME NEW c \in GoodCalls, c.pc \in Identified
    PROVE  /\ \A todo \in SUBSET SessionItem, t \in Nat :
                [c EXCEPT !.pc = IF todo = {} THEN "login" ELSE "evict", !.todo = todo,
                          !.victim = None, !.at = t] \in GoodCalls
           /\ \A s \in SessionItem :
                [c EXCEPT !.pc = "revoke", !.todo = c.todo \ {s}, !.victim = s.session_id]
                    \in GoodCalls
<1> USE DEF GoodCalls, VerifyCall, VerifyCallOK, Matched, Identified
<1>1. ASSUME NEW todo \in SUBSET SessionItem, NEW t \in Nat
      PROVE  [c EXCEPT !.pc = IF todo = {} THEN "login" ELSE "evict", !.todo = todo,
                       !.victim = None, !.at = t] \in GoodCalls
  <2> DEFINE next == IF todo = {} THEN "login" ELSE "evict"
             e == [c EXCEPT !.pc = next, !.todo = todo, !.victim = None, !.at = t]
  <2>1. next \in {"login", "evict"}
    OBVIOUS
  <2> HIDE DEF next
  <2>2. e \in VerifyCall
    BY <2>1
  <2>3. /\ e.pc = next /\ e.phone = c.phone /\ e.code = c.code /\ e.mac = c.mac
        /\ e.device = c.device /\ e.user = c.user /\ e.exp = c.exp
    OBVIOUS
  <2> HIDE DEF e
  <2>4. e \in GoodCalls
    BY <2>1, <2>2, <2>3
  <2> QED
    BY ZenonT(60), <2>4 DEF e, next
<1>2. ASSUME NEW s \in SessionItem
      PROVE  [c EXCEPT !.pc = "revoke", !.todo = c.todo \ {s}, !.victim = s.session_id]
                \in GoodCalls
  <2>1. s.session_id \in Verifications
    BY DEF SessionItem
  <2> QED
    BY <2>1
<1> QED
    BY ZenonT(60), <1>1, <1>2

\* The same for calls that return.
LEMMA ReturnForms ==
    /\ \A x \in VerifyResults : [NewCall EXCEPT !.pc = "done", !.result = x] \in GoodCalls
    /\ \A t \in Nat :
        [NewCall EXCEPT !.pc = "done", !.result = "ok", !.at = t] \in GoodCalls
    /\ {"error", "ErrInvalidPhoneNumber", "ErrInvalidInput", "ErrUnavailable",
        "ErrRateLimited", "ErrInvalidOTP", "ErrNotFound", "ErrAlreadyExists"}
            \subseteq VerifyResults
<1> USE DEF GoodCalls, VerifyCallOK, Matched, Identified
<1>1. ASSUME NEW x \in VerifyResults, NEW t \in Nat
      PROVE  /\ [NewCall EXCEPT !.pc = "done", !.result = x] \in GoodCalls
             /\ [NewCall EXCEPT !.pc = "done", !.result = x, !.at = t] \in GoodCalls
  <2> DEFINE d == [NewCall EXCEPT !.pc = "done", !.result = x]
             e == [NewCall EXCEPT !.pc = "done", !.result = x, !.at = t]
  <2>1. d \in VerifyCall /\ d.pc = "done"
    BY ZenonT(60) DEF NewCall, VerifyCall
  <2>2. e \in VerifyCall /\ e.pc = "done"
    BY DEF NewCall, VerifyCall
  <2> HIDE DEF d, e
  <2>3. d \in GoodCalls /\ e \in GoodCalls
    BY <2>1, <2>2
  <2> QED
    BY <2>3 DEF d, e
<1>2. {"ok", "error", "ErrInvalidPhoneNumber", "ErrInvalidInput", "ErrUnavailable",
       "ErrRateLimited", "ErrInvalidOTP", "ErrNotFound", "ErrAlreadyExists"}
            \subseteq VerifyResults
    BY DEF VerifyResults
<1> HIDE DEF GoodCalls
<1>3. \A x \in VerifyResults : [NewCall EXCEPT !.pc = "done", !.result = x] \in GoodCalls
    BY ZenonT(60), <1>1, 0 \in Nat
<1>4. \A t \in Nat : [NewCall EXCEPT !.pc = "done", !.result = "ok", !.at = t] \in GoodCalls
    BY ZenonT(60), <1>1, <1>2
<1> QED
    BY ZenonT(60), <1>2, <1>3, <1>4

\* Every step of VerifyOTP replaces the record of its call by a good one.
LEMMA VerifyCallStep ==
    ASSUME TypeOK, CallInv, NEW r \in Verifications, VerifySteps(r)
    PROVE  \E c \in GoodCalls : ver' = [ver EXCEPT ![r] = c]
<1>1. ver[r] \in GoodCalls /\ now \in Nat
    BY DEF TypeOK, VerifyTypeOK, CallInv, GoodCalls
<1>2. CASE VerifyArrives(r)
  <2>1. CodesDelivered \cup {None} \subseteq OTPRequests \cup {None}
    BY DEF CodesDelivered
  <2> QED
    BY ZenonT(60), <1>1, <1>2, <2>1, VerifyForms, ReturnForms DEF VerifyArrives, VerifyReturns
<1>3. ASSUME ver[r].pc \notin {"idle", "done"}
      PROVE  ver[r].phone \in Phones
    BY <1>1, <1>3 DEF GoodCalls, VerifyCallOK
<1>4. CASE CheckVerifyRate(r)
  <2>1. ver[r].phone \in Phones
    BY <1>3, <1>4 DEF CheckVerifyRate
  <2> QED
    BY ZenonT(60), <1>1, <1>4, <2>1, VerifyForms, ReturnForms
    DEF CheckVerifyRate, VerifyReturns, Goto, RepeatVerify
<1>5. CASE CheckVerifyLockout(r)
  <2>1. ver[r].phone \in Phones
    BY <1>3, <1>5 DEF CheckVerifyLockout
  <2> QED
    BY ZenonT(60), <1>1, <1>5, <2>1, VerifyForms, ReturnForms
    DEF CheckVerifyLockout, VerifyReturns, Goto
<1>6. CASE ValidateOTPRecord(r)
  <2>1. ver[r].phone \in Phones
    BY <1>3, <1>6 DEF ValidateOTPRecord
  <2>2. /\ otp[ver[r].phone].expires_at \in Nat
        /\ otp[ver[r].phone].status = "pending" => otp[ver[r].phone].mac \in OTPRequests
    BY <2>1 DEF TypeOK, OTPTypeOK, OTPItem, CallInv
  <2> QED
    BY ZenonT(60), <1>1, <1>6, <2>1, <2>2, VerifyForms, ReturnForms
    DEF ValidateOTPRecord, VerifyOTPMAC, VerifyReturns, Goto
<1>7. CASE LockOut(r) \/ CountAttempt(r)
    BY ZenonT(60), <1>1, <1>7, VerifyForms, ReturnForms
    DEF LockOut, CountAttempt, VerifyReturns, RepeatVerify
<1>8. PhoneMatches(ver[r].phone) \subseteq UserIDs
    BY DEF TypeOK, UserTypeOK, UserRow, PhoneMatches
<1>9. CASE FindUser(r)
  <2>1. ver[r].pc \in Matched
    BY <1>9 DEF FindUser, Matched
  <2> QED
    BY ZenonT(60), <1>1, <1>8, <1>9, <2>1, MatchedForms, ReturnForms
    DEF FindUser, FindByPhone, VerifyReturns
<1>10. CASE RegisterUser(r)
  <2>1. ver[r].pc \in Matched
    BY <1>10 DEF RegisterUser, Matched
  <2> QED
    BY ZenonT(60), <1>1, <1>10, <2>1, MatchedForms, ReturnForms
    DEF RegisterUser, Committed, Goto, VerifyReturns
<1>11. CASE FindUserAfterRace(r)
  <2>1. ver[r].pc \in Matched
    BY <1>11 DEF FindUserAfterRace, Matched
  <2> QED
    BY ZenonT(60), <1>1, <1>8, <1>11, <2>1, MatchedForms, ReturnForms
    DEF FindUserAfterRace, FindByPhone, VerifyReturns
<1>12. CASE ListSessions(r)
  <2>1. ver[r].pc \in Identified
    BY <1>12 DEF ListSessions, Identified
  <2>2. ListByUser(ver[r].user, RFC3339(ver[r].at)) \subseteq SessionItem
    BY DEF TypeOK, SessionTypeOK, ListByUser
  <2> QED
    BY ZenonT(60), <1>1, <1>12, <2>1, <2>2, IdentifiedForms, ReturnForms
    DEF ListSessions, EvictNext, VerifyReturns
<1>13. ver[r].todo \subseteq SessionItem
    BY DEF TypeOK, VerifyTypeOK, VerifyCall
<1>14. CASE EvictSession(r)
  <2>1. ver[r].pc \in Identified
    BY <1>14 DEF EvictSession, Identified
  <2>2. NextVictims(ver[r].todo, ver[r].device) \subseteq SessionItem
    BY <1>13 DEF NextVictims
  <2> QED
    BY ZenonT(60), <1>1, <1>14, <2>1, <2>2, IdentifiedForms, ReturnForms
    DEF EvictSession, VerifyReturns
<1>15. CASE RevokeSession(r)
  <2>1. ver[r].pc \in Identified
    BY <1>15 DEF RevokeSession, Identified
  <2> QED
    BY ZenonT(60), <1>1, <1>13, <1>15, <2>1, IdentifiedForms, ReturnForms
    DEF RevokeSession, EvictNext, VerifyReturns
<1>16. CASE CreateLoginSession(r)
    BY ZenonT(60), <1>1, <1>16, ReturnForms DEF CreateLoginSession, Committed, VerifyReturns
<1> QED
    BY <1>2, <1>4, <1>5, <1>6, <1>7, <1>9, <1>10, <1>11, <1>12, <1>14, <1>15, <1>16
    DEF VerifySteps, VerifyStep

\* An OTP item that is marked verified, or has an attempt counted, stays one.
LEMMA OTPUpdateType ==
    ASSUME OTPTypeOK, NEW p, MarkVerified(p) \/ IncrementAttempts(p)
    PROVE  /\ OTPTypeOK'
           /\ \A x \in Phones : /\ otp'[x].mac = otp[x].mac
                                /\ otp'[x].expires_at = otp[x].expires_at
                                /\ otp'[x].status \in {otp[x].status, "verified"}
<1> USE DEF OTPTypeOK, OTPItem
<1>1. CASE MarkVerified(p) /\ p \in Phones
    BY <1>1 DEF MarkVerified
<1>2. CASE IncrementAttempts(p) /\ otp[p].status # "absent" /\ p \in Phones
    BY <1>2 DEF IncrementAttempts
<1>3. CASE otp' = otp
    BY <1>3
<1>4. ASSUME p \notin Phones
      PROVE  otp' = otp
    BY <1>4 DEF MarkVerified, IncrementAttempts
<1> QED
    BY <1>1, <1>2, <1>3, <1>4 DEF IncrementAttempts

\* A new session is a session item.
LEMMA NewSessionType ==
    ASSUME NEW r \in Verifications, NEW u \in UserIDs, NEW d \in Devices \cup {None},
           NEW at \in Nat
    PROVE  NewSession(r, u, d, at) \in SessionItem
<1>1. RFC3339(at) \in Nat /\ RFC3339(at + RefreshTokenLifetime) \in Nat
    BY SecondType, LimitAssumption
<1>2. r \in TokenIDs
    BY DEF TokenIDs
<1> QED
    BY <1>1, <1>2 DEF NewSession, SessionItem

\* The two transactions keep the tables well typed.
LEMMA TransactionType ==
    ASSUME TypeOK, CallInv, NEW r \in Verifications,
           \/ ver[r].pc = "register" /\ VerifyOTPAndCreateUser(
                r, ver[r].phone, ver[r].mac, ver[r].exp, ver[r].device, ver[r].at)
           \/ ver[r].pc = "login" /\ VerifyOTPAndCreateSession(
                r, ver[r].phone, ver[r].mac, ver[r].exp, ver[r].user, ver[r].device, ver[r].at)
    PROVE  /\ \E p : MarkVerified(p)
           /\ users' \in SUBSET UserRow
           /\ sessions' \in SUBSET SessionItem
           /\ commits' \in SUBSET Commit
           /\ UNCHANGED <<phoneIndex, sessionIndex, revoked, guesses>>
<1>1. /\ ver[r].phone \in Phones
      /\ ver[r].mac \in OTPRequests
      /\ ver[r].device \in Devices \cup {None}
      /\ ver[r].at \in Nat
      /\ ver[r].pc = "login" => ver[r].user \in UserIDs
    BY DEF TypeOK, VerifyTypeOK, VerifyCall, CallInv, VerifyCallOK, Matched, Identified
<1>2. NewUserID(r) \in UserIDs /\ SentinelID(ver[r].phone) \in UserIDs
    BY <1>1 DEF NewUserID, SentinelID, UserIDs
<1>3. CASE VerifyOTPAndCreateUser(
                r, ver[r].phone, ver[r].mac, ver[r].exp, ver[r].device, ver[r].at)
  <2>1. /\ [user_id |-> NewUserID(r), phone_number |-> ver[r].phone] \in UserRow
        /\ [user_id |-> SentinelID(ver[r].phone), phone_number |-> ver[r].phone] \in UserRow
        /\ [otp |-> ver[r].mac, session |-> r, user |-> NewUserID(r)] \in Commit
    BY <1>1, <1>2 DEF UserRow, Commit
  <2>2. NewSession(r, NewUserID(r), ver[r].device, ver[r].at) \in SessionItem
    BY <1>1, <1>2, NewSessionType
  <2> QED
    BY <1>3, <2>1, <2>2
    DEF VerifyOTPAndCreateUser, TypeOK, UserTypeOK, SessionTypeOK, HistoryTypeOK
<1>4. CASE ver[r].pc = "login" /\ VerifyOTPAndCreateSession(
                r, ver[r].phone, ver[r].mac, ver[r].exp, ver[r].user, ver[r].device, ver[r].at)
  <2>1. [otp |-> ver[r].mac, session |-> r, user |-> ver[r].user] \in Commit
    BY <1>1, <1>4 DEF Commit
  <2>2. NewSession(r, ver[r].user, ver[r].device, ver[r].at) \in SessionItem
    BY <1>1, <1>4, NewSessionType
  <2> QED
    BY <1>4, <2>1, <2>2
    DEF VerifyOTPAndCreateSession, TypeOK, UserTypeOK, SessionTypeOK, HistoryTypeOK
<1> QED
    BY <1>3, <1>4

\* What a step of VerifyOTP may do to the stores, apart from a transaction.
LEMMA VerifyEffects ==
    ASSUME TypeOK, CallInv, NEW r \in Verifications, VerifySteps(r)
    PROVE  /\ UNCHANGED <<now, req, ref, out, phoneIndex, sessionIndex>>
           /\ UNCHANGED counter \/ \E k : CheckAndIncrement(k)
           /\ UNCHANGED lockout \/ \E p : SetLockout(p)
           /\ UNCHANGED otp \/ \E p : MarkVerified(p) \/ IncrementAttempts(p)
           /\ users' \in SUBSET UserRow
           /\ sessions' \in SUBSET SessionItem
           /\ UNCHANGED revoked \/ \E k : Revoke(k)
           /\ commits' \in SUBSET Commit
           /\ UNCHANGED guesses \/ \E q : guesses' = [guesses EXCEPT ![q] = @ + 1]
<1> USE DEF limiterVars, tableVars, userVars, sessionVars, historyVars
<1>1. UNCHANGED <<req, ref, out>> /\ VerifyStep(r)
    BY DEF VerifySteps
<1>2. /\ users \in SUBSET UserRow
      /\ sessions \in SUBSET SessionItem
      /\ commits \in SUBSET Commit
    BY DEF TypeOK, UserTypeOK, SessionTypeOK, HistoryTypeOK
<1>3. CASE VerifyArrives(r) \/ FindUser(r) \/ FindUserAfterRace(r) \/ ListSessions(r)
           \/ CheckVerifyLockout(r)
    BY ZenonT(60), <1>1, <1>2, <1>3
    DEF VerifyArrives, FindUser, FindUserAfterRace, ListSessions, CheckVerifyLockout
<1>4. CASE CheckVerifyRate(r)
    BY <1>1, <1>2, <1>4 DEF CheckVerifyRate, LimiterFails
<1>5. CASE ValidateOTPRecord(r)
    BY <1>1, <1>2, <1>5 DEF ValidateOTPRecord
<1>6. CASE LockOut(r)
    BY <1>1, <1>2, <1>6 DEF LockOut
<1>7. CASE CountAttempt(r)
    BY <1>1, <1>2, <1>7 DEF CountAttempt
<1>8. CASE EvictSession(r)
    BY <1>1, <1>2, <1>8 DEF EvictSession, DeleteSession
<1>9. CASE RevokeSession(r)
    BY <1>1, <1>2, <1>9 DEF RevokeSession
<1>10. CASE RegisterUser(r)
    BY <1>1, <1>2, <1>10, TransactionType DEF RegisterUser
<1>11. CASE CreateLoginSession(r)
    BY ZenonT(60), <1>1, <1>2, <1>11, TransactionType DEF CreateLoginSession
<1> QED
    BY <1>1, <1>3, <1>4, <1>5, <1>6, <1>7, <1>8, <1>9, <1>10, <1>11 DEF VerifyStep

\* A step of VerifyOTP keeps every variable well typed and every call good.
LEMMA VerifyType ==
    ASSUME TypeOK, CallInv, NEW r \in Verifications, VerifySteps(r)
    PROVE  TypeOK' /\ CallInv'
<1>1. PICK c \in GoodCalls : ver' = [ver EXCEPT ![r] = c]
    BY VerifyCallStep
<1>2. VerifyTypeOK' /\ \A x \in Verifications : VerifyCallOK(ver'[x])
    BY <1>1 DEF TypeOK, VerifyTypeOK, GoodCalls, CallInv
<1>3. LimiterTypeOK'
  <2>1. counter' \in [RateKeys -> [n : Nat, until : Nat]]
    BY VerifyEffects, CheckAndIncrementType DEF TypeOK, LimiterTypeOK
  <2>2. lockout' \in [Phones -> Nat]
    BY VerifyEffects, LimitAssumption DEF TypeOK, LimiterTypeOK, SetLockout
  <2> QED
    BY <2>1, <2>2 DEF LimiterTypeOK
<1>4. OTPTypeOK' /\ \A p \in Phones : otp'[p].status = "pending" => otp'[p].mac \in OTPRequests
  <2>1. CASE UNCHANGED otp
    BY <2>1 DEF TypeOK, OTPTypeOK, CallInv
  <2>2. CASE \E p : MarkVerified(p) \/ IncrementAttempts(p)
    BY <2>2, OTPUpdateType DEF TypeOK, CallInv
  <2> QED
    BY <2>1, <2>2, VerifyEffects
<1>5. SessionTypeOK'
    BY VerifyEffects, LimitAssumption DEF TypeOK, SessionTypeOK, Revoke
<1>6. UserTypeOK'
    BY VerifyEffects DEF TypeOK, UserTypeOK
<1>7. HistoryTypeOK'
    BY VerifyEffects DEF TypeOK, HistoryTypeOK
<1>8. UNCHANGED <<now, req, ref, out>>
    BY VerifyEffects
<1> QED
    BY ZenonT(60), <1>2, <1>3, <1>4, <1>5, <1>6, <1>7, <1>8
    DEF TypeOK, CallInv, RequestTypeOK, RefreshTypeOK, LogoutTypeOK

\* The records of calls of RefreshTokens that satisfy the invariant.
GoodRefreshes == {c \in RefreshCall : RefreshCallOK(c)}

\* What the steps of RefreshTokens make of the record of a call is such a record again.
LEMMA RefreshForms ==
    ASSUME NEW c \in GoodRefreshes
    PROVE  /\ \A id \in Verifications, m \in TokenIDs, t \in TokenIDs \cup {None},
                 d \in Devices \cup {None} :
                [c EXCEPT !.pc = "get", !.sid = id, !.jti = m, !.token = t, !.device = d]
                    \in GoodRefreshes
           /\ c.pc \notin {"idle", "done"} =>
                /\ [c EXCEPT !.tries = @ + 1] \in GoodRefreshes
                /\ [c EXCEPT !.pc = "delete"] \in GoodRefreshes
                /\ [c EXCEPT !.pc = "revoke"] \in GoodRefreshes
                /\ \A t, g \in Nat :
                    /\ [c EXCEPT !.pc = "update", !.at = t, !.gen = g] \in GoodRefreshes
                    /\ [c EXCEPT !.pc = "done", !.result = "ok", !.at = t, !.gen = 0]
                            \in GoodRefreshes
<1> USE DEF GoodRefreshes, RefreshCall, RefreshCallOK
<1>1. ASSUME NEW id \in Verifications, NEW m \in TokenIDs, NEW t \in TokenIDs \cup {None},
             NEW d \in Devices \cup {None}
      PROVE  [c EXCEPT !.pc = "get", !.sid = id, !.jti = m, !.token = t, !.device = d]
                \in GoodRefreshes
  <2> DEFINE e == [c EXCEPT !.pc = "get", !.sid = id, !.jti = m, !.token = t, !.device = d]
  <2>1. e \in RefreshCall
    BY ZenonT(60)
  <2>2. e.sid = id
    OBVIOUS
  <2> HIDE DEF e
  <2>3. e \in GoodRefreshes
    BY <2>1, <2>2
  <2> QED
    BY <2>3 DEF e
<1>2. ASSUME c.sid \in Verifications
      PROVE  /\ [c EXCEPT !.tries = @ + 1] \in GoodRefreshes
             /\ [c EXCEPT !.pc = "delete"] \in GoodRefreshes
             /\ [c EXCEPT !.pc = "revoke"] \in GoodRefreshes
    BY <1>2
<1>3. ASSUME c.sid \in Verifications, NEW t \in Nat, NEW g \in Nat
      PROVE  [c EXCEPT !.pc = "update", !.at = t, !.gen = g] \in GoodRefreshes
    BY ZenonT(60), <1>3
<1>4. ASSUME c.sid \in Verifications, NEW t \in Nat
      PROVE  [c EXCEPT !.pc = "done", !.result = "ok", !.at = t, !.gen = 0]
                \in GoodRefreshes
  <2> DEFINE e == [c EXCEPT !.pc = "done", !.result = "ok", !.at = t, !.gen = 0]
  <2>1. e \in RefreshCall
    BY DEF RefreshResults
  <2>2. e.sid \in Verifications
    BY <1>4
  <2> HIDE DEF e
  <2>3. e \in GoodRefreshes
    BY <2>1, <2>2
  <2> QED
    BY <2>3 DEF e
<1>5. c.pc \notin {"idle", "done"} => c.sid \in Verifications
    OBVIOUS
<1> HIDE DEF GoodRefreshes, RefreshCall, RefreshCallOK
<1> QED
    BY ZenonT(60), <1>1, <1>2, <1>3, <1>4, <1>5

\* The same for calls that return an error.
LEMMA RefreshErrorForms ==
    \A x \in {"error", "ErrUnauthorized", "ErrSessionRevoked", "ErrDeviceMismatch",
              "ErrSessionExpired", "ErrRefreshTokenReuse", "ErrInvalidRefreshToken"} :
        [NewRefresh EXCEPT !.pc = "done", !.result = x] \in GoodRefreshes
BY ZenonT(60) DEF GoodRefreshes, RefreshCall, RefreshCallOK, NewRefresh, RefreshResults

\* An update of a session leaves session items in the table.
LEMMA UpdateSessionType ==
    ASSUME sessions \in SUBSET SessionItem, NEW id \in Verifications, NEW token \in TokenIDs,
           NEW prev \in TokenIDs \cup {None}, NEW generation \in Nat, NEW expiresAt \in Nat,
           UpdateSession(id, token, prev, generation, expiresAt)
    PROVE  sessions' \in SUBSET SessionItem
<1> DEFINE set(s) == [session_id |-> id, user_id |-> s.user_id, device_id |-> s.device_id,
                      created_at |-> s.created_at, refresh_token |-> token,
                      prev_token |-> prev, token_generation |-> generation,
                      expires_at |-> expiresAt]
<1>1. \A s \in SessionItem : set(s) \in SessionItem
    BY DEF SessionItem
<1>2. set([session_id |-> id, user_id |-> None, device_id |-> None, created_at |-> 0])
        \in SessionItem
    BY DEF SessionItem
<1> HIDE DEF set
<1>3. sessions' \subseteq sessions \cup {set(s) : s \in sessions}
        \cup {set([session_id |-> id, user_id |-> None, device_id |-> None, created_at |-> 0])}
    BY DEF UpdateSession, GetByID, set
<1> QED
    BY <1>1, <1>2, <1>3

\* Every step of RefreshTokens replaces the record of its call by a good one.
LEMMA RefreshCallStep ==
    ASSUME TypeOK, CallInv, NEW f \in Refreshes, RefreshSteps(f)
    PROVE  \E c \in GoodRefreshes : ref' = [ref EXCEPT ![f] = c]
<1>1. ref[f] \in GoodRefreshes /\ now \in Nat
    BY DEF TypeOK, RefreshTypeOK, CallInv, GoodRefreshes
<1>2. CASE RefreshArrives(f)
  <2>1. \A m \in Issued : m \in TokenIDs /\ SessionOf(m) \in Verifications
    BY DEF Issued, TokenIDs, SessionOf, CallInv, RefreshCallOK
  <2> QED
    BY ZenonT(60), <1>1, <1>2, <2>1, RefreshForms, RefreshErrorForms
    DEF RefreshArrives, RefreshReturns
<1>3. CASE CheckSession(f)
  <2>1. ref[f].pc \notin {"idle", "done"}
    BY ZenonT(60), <1>3 DEF CheckSession
  <2>2. \A s \in GetByID(ref[f].sid) : s.token_generation \in Nat
    BY DEF GetByID, TypeOK, SessionTypeOK, SessionItem
  <2> QED
    BY ZenonT(60), <1>1, <1>3, <2>1, <2>2, RefreshForms, RefreshErrorForms
    DEF CheckSession, RefreshReturns
<1>4. CASE RotateToken(f)
  <2>1. ref[f].pc \notin {"idle", "done"}
    BY <1>4 DEF RotateToken
  <2> QED
    BY ZenonT(60), <1>1, <1>4, <2>1, RefreshForms, RefreshErrorForms
    DEF RotateToken, RefreshReturns
<1>5. CASE DeleteReused(f)
  <2>1. ref[f].pc \notin {"idle", "done"}
    BY <1>5 DEF DeleteReused
  <2> QED
    BY ZenonT(60), <1>1, <1>5, <2>1, RefreshForms DEF DeleteReused
<1>6. CASE RevokeReused(f)
    BY ZenonT(60), <1>1, <1>6, RefreshErrorForms DEF RevokeReused, RefreshReturns
<1> QED
    BY <1>2, <1>3, <1>4, <1>5, <1>6 DEF RefreshSteps, RefreshStep

\* A step of RefreshTokens keeps every variable well typed and every call good.
LEMMA RefreshType ==
    ASSUME TypeOK, CallInv, NEW f \in Refreshes, RefreshSteps(f)
    PROVE  TypeOK' /\ CallInv'
<1>1. PICK c \in GoodRefreshes : ref' = [ref EXCEPT ![f] = c]
    BY RefreshCallStep
<1>2. RefreshTypeOK' /\ \A x \in Refreshes : RefreshCallOK(ref'[x])
    BY <1>1 DEF TypeOK, RefreshTypeOK, GoodRefreshes, CallInv
<1>3. /\ UNCHANGED <<now, counter, lockout, otp, users, phoneIndex, sessionIndex, commits,
                     guesses, req, ver, out>>
      /\ \/ UNCHANGED sessions
         \/ RotateToken(f)
         \/ DeleteSession(ref[f].sid)
      /\ UNCHANGED revoked \/ \E k : Revoke(k)
    BY ZenonT(60)
    DEF RefreshSteps, RefreshStep, RefreshArrives, CheckSession, RotateToken, DeleteReused,
           RevokeReused, limiterVars, tableVars, userVars, sessionVars, historyVars
<1>4. sessions' \in SUBSET SessionItem
  <2>1. sessions \in SUBSET SessionItem
    BY DEF TypeOK, SessionTypeOK
  <2>2. CASE RotateToken(f)
    <3>1. /\ ref[f].sid \in Verifications
          /\ ref[f].token \in TokenIDs \cup {None}
          /\ ref[f].gen + 1 \in Nat
          /\ ref[f].at + RefreshTokenLifetime \in Nat
        BY <2>2, LimitAssumption DEF RotateToken, TypeOK, RefreshTypeOK, RefreshCall, CallInv,
                                     RefreshCallOK
    <3>2. RFC3339(ref[f].at + RefreshTokenLifetime) \in Nat
        BY <3>1, SecondType
    <3>3. f \in TokenIDs
        BY DEF TokenIDs
    <3> QED
        BY <2>1, <2>2, <3>1, <3>2, <3>3, UpdateSessionType DEF RotateToken
  <2> QED
    BY <1>3, <2>1, <2>2 DEF DeleteSession
<1>5. SessionTypeOK'
    BY <1>3, <1>4, LimitAssumption DEF TypeOK, SessionTypeOK, Revoke
<1> QED
    BY <1>2, <1>3, <1>5 DEF TypeOK, CallInv, LimiterTypeOK, OTPTypeOK, UserTypeOK,
        HistoryTypeOK, RequestTypeOK, VerifyTypeOK, LogoutTypeOK

\* A step of Logout keeps every variable well typed and every call good.
LEMMA LogoutType ==
    ASSUME TypeOK, CallInv, NEW l \in Logouts, LogoutSteps(l)
    PROVE  TypeOK' /\ CallInv'
<1>1. /\ UNCHANGED <<now, counter, lockout, otp, users, phoneIndex, sessionIndex, commits,
                     guesses, req, ver, ref>>
      /\ UNCHANGED sessions \/ \E id : DeleteSession(id)
      /\ UNCHANGED revoked \/ \E k : Revoke(k)
    BY ZenonT(60) DEF LogoutSteps, LogoutStep, LogoutArrives, LogoutDeletes, LogoutRevokes,
           limiterVars, tableVars, userVars, sessionVars, historyVars
<1>2. SessionTypeOK'
    BY <1>1, LimitAssumption DEF TypeOK, SessionTypeOK, Revoke, DeleteSession
<1>3. LogoutTypeOK'
  <2>1. out[l] \in LogoutCall
    BY DEF TypeOK, LogoutTypeOK
  <2>2. /\ [out[l] EXCEPT !.pc = "revoke"] \in LogoutCall
        /\ \A m \in TokenIDs : [out[l] EXCEPT !.pc = "delete", !.jti = m] \in LogoutCall
        /\ \A x \in {"ok", "error", "ErrUnauthorized"} :
             [out[l] EXCEPT !.pc = "done", !.result = x] \in LogoutCall
    BY ZenonT(60), <2>1 DEF LogoutCall
  <2>3. Issued \subseteq TokenIDs
    BY DEF Issued, TokenIDs
  <2>4. \E c \in LogoutCall : out' = [out EXCEPT ![l] = c]
    BY ZenonT(60), <2>2, <2>3
    DEF LogoutSteps, LogoutStep, LogoutArrives, LogoutDeletes, LogoutRevokes,
                      LogoutReturns
  <2> QED
    BY <2>4 DEF TypeOK, LogoutTypeOK
<1> QED
    BY <1>1, <1>2, <1>3 DEF TypeOK, CallInv, LimiterTypeOK, OTPTypeOK, UserTypeOK,
        HistoryTypeOK, RequestTypeOK, VerifyTypeOK, RefreshTypeOK

\* The clock, the TTL and the indexes keep every variable well typed.
LEMMA EnvironmentType ==
    ASSUME TypeOK, CallInv, TimePasses \/ TableMaintenance
    PROVE  TypeOK' /\ CallInv'
<1> USE DEF limiterVars, tableVars, userVars, sessionVars, historyVars
<1>1. UNCHANGED <<counter, lockout, revoked, users, commits, guesses, req, ver, ref, out>>
    BY DEF TimePasses, TableMaintenance, ExpireSessionItem, PropagateUser, PropagateSession
<1>2. now' \in Nat
    BY DEF TimePasses, TableMaintenance, Tick, TypeOK
<1>3. OTPTypeOK' /\ \A p \in Phones : otp'[p].status = "pending" => otp'[p].mac \in OTPRequests
  <2>1. CASE UNCHANGED otp
    BY <2>1 DEF TypeOK, OTPTypeOK, CallInv
  <2>2. ASSUME NEW p \in Phones, otp' = [otp EXCEPT ![p] = AbsentOTP]
        PROVE  /\ OTPTypeOK'
               /\ \A x \in Phones : otp'[x].status = "pending" => otp'[x].mac \in OTPRequests
    BY <2>2 DEF TypeOK, OTPTypeOK, OTPItem, AbsentOTP, CallInv
  <2> QED
    BY <2>1, <2>2 DEF TimePasses, TableMaintenance, ExpireOTPItem
<1>4. sessions' \in SUBSET SessionItem /\ sessionIndex' \in SUBSET SessionItem
    BY DEF TimePasses, TableMaintenance, ExpireSessionItem, PropagateSession, TypeOK,
           SessionTypeOK
<1>5. phoneIndex' \in SUBSET UserRow
    BY DEF TimePasses, TableMaintenance, PropagateUser, TypeOK, UserTypeOK
<1> QED
    BY <1>1, <1>2, <1>3, <1>4, <1>5 DEF TypeOK, CallInv, LimiterTypeOK, UserTypeOK,
        SessionTypeOK, HistoryTypeOK, RequestTypeOK, VerifyTypeOK, RefreshTypeOK, LogoutTypeOK

\* A step of RequestOTP writes an OTP under its own name, and touches no other call.
LEMMA RequestCallInv ==
    ASSUME TypeOK, CallInv, NEW q \in OTPRequests, RequestSteps(q)
    PROVE  CallInv'
<1>1. UNCHANGED <<ver, ref>>
    BY DEF RequestSteps
<1>2. CASE UNCHANGED otp
    BY <1>1, <1>2 DEF CallInv
<1>3. ASSUME NEW p, NEW e, PutOTP(p, q, e)
      PROVE  CallInv'
    BY <1>1, <1>3 DEF CallInv, PutOTP, TypeOK, OTPTypeOK
<1> QED
    BY ZenonT(60), <1>2, <1>3 DEF RequestSteps, RequestStep, RequestArrives, CheckRequestPhone,
        CheckRequestIP, CreateOTP, ReturnExistingOTP, SendSMS

\* The locals of calls are set where they are used, initially.
LEMMA CallInit == Init => CallInv
<1> SUFFICES ASSUME Init PROVE CallInv
    OBVIOUS
<1>1. \A p \in Phones : otp[p].status # "pending"
    BY DEF Init, OTPInit, AbsentOTP
<1>2. \A r \in Verifications : ver[r].pc = "idle"
    BY DEF Init, VerifyInit, NewCall
<1>3. \A f \in Refreshes : ref[f].pc = "idle" /\ ref[f].result = "none"
    BY DEF Init, RefreshInit, NewRefresh
<1> QED
    BY <1>1, <1>2, <1>3 DEF CallInv, VerifyCallOK, RefreshCallOK, Matched, Identified

\* Types and locals are preserved by every step.
LEMMA TypeStep == TypeOK /\ CallInv /\ [Next]_vars => TypeOK' /\ CallInv'
<1> SUFFICES ASSUME TypeOK, CallInv, [Next]_vars
             PROVE  TypeOK' /\ CallInv'
    OBVIOUS
<1>1. CASE TimePasses \/ TableMaintenance
    BY <1>1, EnvironmentType
<1>2. ASSUME NEW q \in OTPRequests, RequestSteps(q)
      PROVE  TypeOK' /\ CallInv'
    BY <1>2, RequestType, RequestCallInv
<1>3. ASSUME NEW r \in Verifications, VerifySteps(r)
      PROVE  TypeOK' /\ CallInv'
    BY <1>3, VerifyType
<1>4. ASSUME NEW f \in Refreshes, RefreshSteps(f)
      PROVE  TypeOK' /\ CallInv'
    BY <1>4, RefreshType
<1>5. ASSUME NEW l \in Logouts, LogoutSteps(l)
      PROVE  TypeOK' /\ CallInv'
    BY <1>5, LogoutType
<1>6. CASE UNCHANGED vars
    BY <1>6 DEF vars, limiterVars, tableVars, userVars, sessionVars, historyVars, TypeOK,
        CallInv, LimiterTypeOK, OTPTypeOK, UserTypeOK, SessionTypeOK, HistoryTypeOK,
        RequestTypeOK, VerifyTypeOK, RefreshTypeOK, LogoutTypeOK
<1> QED
    BY ZenonT(60), <1>1, <1>2, <1>3, <1>4, <1>5, <1>6 DEF Next, Terminating

\* Every variable of the service always has its type: the stores hold only items their
\* adapters define, and each call of auth_verify_otp.go and auth_refresh.go finds set
\* what it uses (no session, user row or commit is ever written for a missing phone,
\* OTP or user).
THEOREM TypesCorrect == Spec => [](TypeOK /\ CallInv)
<1>1. Init => TypeOK /\ CallInv
    BY TypeInit, CallInit
<1> QED
    BY <1>1, TypeStep, PTL DEF Spec

-----------------------------------------------------------------------------
(***************************************************************************)
(* Accounts and one-time codes.                                            *)
(***************************************************************************)

\* IInv without its types.
AccountInv ==
    /\ OTPInv
    /\ CommitInv
    /\ UserInv
    /\ OneUserPerPhone
    /\ OTPSpentOnce
    /\ OTPOpensOwnAccount

\* Steps that leave the accounts, the OTPs and the calls that use them alone.
LEMMA AccountUnchanged ==
    ASSUME AccountInv, UNCHANGED <<otp, users, phoneIndex, commits, req, ver>>
    PROVE  AccountInv'
BY ZenonT(60) DEF AccountInv, OTPInv, CommitInv, UserInv, OneUserPerPhone, OTPSpentOnce,
       OTPOpensOwnAccount, CodesDelivered, RegisteredUsers, SentinelFree, UserIDFree

\* What a step of RequestOTP may make of the record c of its call.
Successors(c) ==
    {e \in Request : /\ e.pc # "idle"
                     /\ c.pc # "idle" => e.phone = c.phone
                     /\ e.sms # "none" => e.pc = "done"
                     /\ c.sms \in {"sent", "failed"} => e.sms \in {"sent", "failed"}}

\* Each record a step of RequestOTP builds is a successor of the call's record.
LEMMA SuccessorForms ==
    ASSUME NEW c \in Request, c.sms # "none" => c.pc = "done"
    PROVE  /\ c.pc \notin {"idle", "done"} => [c EXCEPT !.tries = @ + 1] \in Successors(c)
           /\ c.pc # "done" => \A pc \in {"ip_limit", "existing"} :
                                    [c EXCEPT !.pc = pc] \in Successors(c)
           /\ c.sms = "sending" => \A m \in {"sent", "failed"} :
                                    [c EXCEPT !.sms = m] \in Successors(c)
           /\ \A x \in RequestResults :
                [c EXCEPT !.pc = "done", !.result = x] \in Successors(c)
           /\ c.pc = "idle" => \A p \in Phones, a \in IPs :
                [c EXCEPT !.pc = "phone_limit", !.phone = p, !.ip = a] \in Successors(c)
           /\ c.pc # "done" => \A t \in Nat :
                [c EXCEPT !.pc = "create", !.at = t] \in Successors(c)
           /\ c.pc # "done" =>
                [c EXCEPT !.pc = "done", !.result = "ok", !.sms = "sending"] \in Successors(c)
           /\ {"ErrInvalidPhoneNumber", "ErrUnavailable", "ErrPhoneRateLimited",
               "ErrIPRateLimited", "ErrNotFound", "ok", "error"} \subseteq RequestResults
<1> USE DEF Request, RequestResults, Successors
<1>1. c.pc \notin {"idle", "done"} => [c EXCEPT !.tries = @ + 1] \in Successors(c)
    OBVIOUS
<1>2. c.pc # "done" =>
        \A pc \in {"ip_limit", "existing"} : [c EXCEPT !.pc = pc] \in Successors(c)
    OBVIOUS
<1>3. c.sms = "sending" =>
        \A m \in {"sent", "failed"} : [c EXCEPT !.sms = m] \in Successors(c)
    OBVIOUS
<1>4. \A x \in RequestResults : [c EXCEPT !.pc = "done", !.result = x] \in Successors(c)
    BY ZenonT(60)
<1>5. ASSUME c.pc = "idle", NEW p \in Phones, NEW a \in IPs
      PROVE  [c EXCEPT !.pc = "phone_limit", !.phone = p, !.ip = a] \in Successors(c)
    BY <1>5
<1>6. c.pc # "done" => \A t \in Nat : [c EXCEPT !.pc = "create", !.at = t] \in Successors(c)
    OBVIOUS
<1>7. c.pc # "done" =>
        [c EXCEPT !.pc = "done", !.result = "ok", !.sms = "sending"] \in Successors(c)
    OBVIOUS
<1>8. {"ErrInvalidPhoneNumber", "ErrUnavailable", "ErrPhoneRateLimited",
       "ErrIPRateLimited", "ErrNotFound", "ok", "error"} \subseteq RequestResults
    OBVIOUS
<1> HIDE DEF Request, RequestResults, Successors
<1> QED
    BY ZenonT(60), <1>1, <1>2, <1>3, <1>4, <1>5, <1>6, <1>7, <1>8

\* What a step of RequestOTP does to the record of its call, and when it writes an OTP.
LEMMA RequestEffects ==
    ASSUME TypeOK, OTPInv, NEW q \in OTPRequests, RequestSteps(q)
    PROVE  /\ \E e \in Successors(req[q]) : req' = [req EXCEPT ![q] = e]
           /\ \/ UNCHANGED otp
              \/ req[q].pc = "create" /\ \E e : PutOTP(req[q].phone, q, e)
<1>1. /\ req[q] \in Request /\ now \in Nat
      /\ req[q].sms # "none" => req[q].pc = "done"
    BY DEF OTPInv, TypeOK, RequestTypeOK
<1>2. CASE RequestArrives(q)
    BY ZenonT(60), <1>1, <1>2, SuccessorForms DEF RequestArrives, RequestReturns
<1>3. CASE CheckRequestPhone(q)
    BY ZenonT(60), <1>1, <1>3, SuccessorForms DEF CheckRequestPhone, RequestReturns, RepeatRequest
<1>4. CASE CheckRequestIP(q)
    BY ZenonT(60), <1>1, <1>4, SuccessorForms DEF CheckRequestIP, RequestReturns, RepeatRequest
<1>5. CASE CreateOTP(q)
    BY ZenonT(60), <1>1, <1>5, SuccessorForms DEF CreateOTP, RequestReturns, RepeatRequest
<1>6. CASE ReturnExistingOTP(q)
    BY ZenonT(60), <1>1, <1>6, SuccessorForms DEF ReturnExistingOTP, RequestReturns
<1>7. CASE SendSMS(q)
    BY ZenonT(60), <1>1, <1>7, SuccessorForms DEF SendSMS
<1> QED
    BY <1>2, <1>3, <1>4, <1>5, <1>6, <1>7 DEF RequestSteps, RequestStep

\* A step of RequestOTP delivers more codes at most, keeps the phones of the calls that
\* have arrived, and writes an OTP that nobody was sent.
LEMMA RequestAccounts ==
    ASSUME TypeOK, AccountInv, NEW q \in OTPRequests, RequestSteps(q)
    PROVE  AccountInv'
<1> USE DEF AccountInv
<1>1. PICK e \in Successors(req[q]) : req' = [req EXCEPT ![q] = e]
    BY RequestEffects
<1>2. UNCHANGED <<users, phoneIndex, commits, ver>>
    BY DEF RequestSteps, userVars, historyVars
<1>3. /\ \A x \in OTPRequests : x # q => req'[x] = req[x]
      /\ req'[q] = e
    BY <1>1 DEF TypeOK, RequestTypeOK
<1>4. CodesDelivered \subseteq CodesDelivered'
    BY <1>1, <1>3 DEF CodesDelivered, Successors
<1>5. \A x \in OTPRequests : req'[x].sms # "none" => req'[x].pc = "done"
    BY <1>1, <1>3 DEF OTPInv, Successors
<1>6. \A x \in OTPRequests : req[x].pc # "idle" =>
            req'[x].phone = req[x].phone /\ req'[x].pc # "idle"
    BY <1>1, <1>3 DEF Successors
<1>7. \A x \in CodesDelivered : req[x].pc # "idle"
    BY DEF CodesDelivered, OTPInv
<1>8. OTPOpensOwnAccount'
    BY <1>2, <1>6, <1>7 DEF OTPOpensOwnAccount, CommitInv, CodesDelivered
<1>9. UserInv' /\ OneUserPerPhone' /\ OTPSpentOnce'
    BY <1>2 DEF UserInv, OneUserPerPhone, OTPSpentOnce, RegisteredUsers, SentinelFree, UserIDFree
<1>10. \A r \in Verifications : ver'[r].code # None => ver'[r].code \in CodesDelivered'
    BY <1>2, <1>4 DEF OTPInv
<1>11. \A c \in commits' : c.otp \in CodesDelivered'
    BY <1>2, <1>4 DEF CommitInv
<1>12. \A p \in Phones : otp[p].mac \in OTPRequests \cup {None}
    BY DEF TypeOK, OTPTypeOK, OTPItem
<1>13. CASE UNCHANGED otp
  <2>1. OTPInv'
    BY <1>5, <1>6, <1>10, <1>12, <1>13 DEF OTPInv
  <2>2. CommitInv'
    BY <1>2, <1>11, <1>13 DEF CommitInv
  <2> QED
    BY <1>8, <1>9, <2>1, <2>2
<1>14. ASSUME req[q].pc = "create", NEW x, PutOTP(req[q].phone, q, x)
       PROVE  AccountInv'
  <2>1. \A p \in Phones :
            \/ p # req[q].phone /\ otp'[p] = otp[p]
            \/ p = req[q].phone /\ otp'[p].mac = q
    BY <1>14 DEF PutOTP, TypeOK, OTPTypeOK
  <2>2. OTPInv'
    <3>1. ASSUME NEW p \in Phones, otp'[p].mac # None
          PROVE  req'[otp'[p].mac].phone = p /\ req'[otp'[p].mac].pc # "idle"
      <4>1. CASE p = req[q].phone
        BY <1>6, <1>14, <2>1, <4>1
      <4>2. CASE p # req[q].phone
        <5>1. otp'[p].mac = otp[p].mac /\ otp[p].mac \in OTPRequests
            BY <1>12, <2>1, <3>1, <4>2
        <5>2. req[otp[p].mac].phone = p /\ req[otp[p].mac].pc # "idle"
            BY <3>1, <5>1 DEF OTPInv
        <5> QED
            BY <1>6, <5>1, <5>2
      <4> QED
        BY <4>1, <4>2
    <3> QED
        BY ZenonT(60), <1>5, <1>10, <3>1 DEF OTPInv
  <2>3. \A c \in commits : c.otp # q
    BY <1>14 DEF CommitInv, OTPInv, CodesDelivered
  <2>4. CommitInv'
    BY <1>2, <1>11, <2>1, <2>3 DEF CommitInv
  <2> QED
    BY <1>8, <1>9, <2>2, <2>4
<1> QED
    BY <1>13, <1>14, RequestEffects

\* What a step of VerifyOTP may make of the record c of its call: its code was delivered
\* or was there, and its user was found under its phone or was there.
CallSuccessors(c) ==
    {e \in VerifyCall :
        /\ e.code \in CodesDelivered \cup {None, c.code}
        /\ e.pc \in Identified =>
            /\ e.phone = c.phone
            /\ e.user \in PhoneMatches(c.phone) \/ (c.pc \in Identified /\ e.user = c.user)}

\* Each record a step of VerifyOTP builds, up to the lookup of the user, is a successor.
LEMMA CallSuccessorForms ==
    ASSUME NEW c \in VerifyCall
    PROVE  /\ [c EXCEPT !.tries = @ + 1] \in CallSuccessors(c)
           /\ \A pc \in {"lockout", "get", "set_lockout", "increment", "find_race"} :
                [c EXCEPT !.pc = pc] \in CallSuccessors(c)
           /\ \A p \in Phones, k \in CodesDelivered \cup {None}, d \in Devices :
                [c EXCEPT !.pc = "rate", !.phone = p, !.code = k, !.device = d]
                    \in CallSuccessors(c)
           /\ \A m \in OTPRequests, x \in Nat :
                [c EXCEPT !.pc = "find", !.mac = m, !.exp = x] \in CallSuccessors(c)
           /\ \A t \in Nat : [c EXCEPT !.pc = "register", !.at = t] \in CallSuccessors(c)
           /\ \A u \in PhoneMatches(c.phone), t \in Nat : u \in UserIDs =>
                [c EXCEPT !.pc = "list", !.user = u, !.at = t] \in CallSuccessors(c)
<1> USE DEF CallSuccessors, VerifyCall, Identified
<1>1. [c EXCEPT !.tries = @ + 1] \in CallSuccessors(c)
    OBVIOUS
<1>2. \A pc \in {"lockout", "get", "set_lockout", "increment", "find_race"} :
        [c EXCEPT !.pc = pc] \in CallSuccessors(c)
    OBVIOUS
<1>3. ASSUME NEW p \in Phones, NEW k \in CodesDelivered \cup {None}, NEW d \in Devices
      PROVE  [c EXCEPT !.pc = "rate", !.phone = p, !.code = k, !.device = d]
                \in CallSuccessors(c)
  <2> DEFINE e == [c EXCEPT !.pc = "rate", !.phone = p, !.code = k, !.device = d]
  <2>1. k \in OTPRequests \cup {None}
    BY DEF CodesDelivered
  <2>2. e \in VerifyCall
    BY <2>1
  <2>3. e.pc = "rate" /\ e.code = k
    OBVIOUS
  <2> HIDE DEF e
  <2>4. e \in CallSuccessors(c)
    BY <2>2, <2>3
  <2> QED
    BY <2>4 DEF e
<1>4. ASSUME NEW m \in OTPRequests, NEW x \in Nat
      PROVE  [c EXCEPT !.pc = "find", !.mac = m, !.exp = x] \in CallSuccessors(c)
  <2> DEFINE e == [c EXCEPT !.pc = "find", !.mac = m, !.exp = x]
  <2>1. e \in VerifyCall
    OBVIOUS
  <2>2. e.pc = "find" /\ e.code = c.code
    OBVIOUS
  <2> HIDE DEF e
  <2>3. e \in CallSuccessors(c)
    BY <2>1, <2>2
  <2> QED
    BY <2>3 DEF e
<1>5. \A t \in Nat : [c EXCEPT !.pc = "register", !.at = t] \in CallSuccessors(c)
    BY ZenonT(60)
<1>6. ASSUME NEW u \in PhoneMatches(c.phone), NEW t \in Nat, u \in UserIDs
      PROVE  [c EXCEPT !.pc = "list", !.user = u, !.at = t] \in CallSuccessors(c)
  <2> DEFINE e == [c EXCEPT !.pc = "list", !.user = u, !.at = t]
  <2>1. e \in VerifyCall
    BY ZenonT(60), <1>6
  <2>2. e.code = c.code /\ e.phone = c.phone /\ e.user = u
    OBVIOUS
  <2> HIDE DEF e
  <2>3. e \in CallSuccessors(c)
    BY <2>1, <2>2
  <2> QED
    BY <2>3 DEF e
<1> HIDE DEF CallSuccessors, VerifyCall, Identified
<1> QED
    BY ZenonT(60), <1>1, <1>2, <1>3, <1>4, <1>5, <1>6

\* The same for the eviction loop and for calls that return.
LEMMA LateSuccessorForms ==
    ASSUME NEW c \in VerifyCall
    PROVE  /\ c.pc \in Identified => \A todo \in SUBSET SessionItem, t \in Nat :
                [c EXCEPT !.pc = IF todo = {} THEN "login" ELSE "evict", !.todo = todo,
                          !.victim = None, !.at = t] \in CallSuccessors(c)
           /\ c.pc \in Identified => \A s \in SessionItem :
                [c EXCEPT !.pc = "revoke", !.todo = c.todo \ {s}, !.victim = s.session_id]
                    \in CallSuccessors(c)
           /\ \A x \in VerifyResults :
                [NewCall EXCEPT !.pc = "done", !.result = x] \in CallSuccessors(c)
           /\ \A t \in Nat :
                [NewCall EXCEPT !.pc = "done", !.result = "ok", !.at = t] \in CallSuccessors(c)
<1> USE DEF CallSuccessors, VerifyCall, Identified
<1>1. ASSUME c.pc \in Identified, NEW todo \in SUBSET SessionItem, NEW t \in Nat
      PROVE  [c EXCEPT !.pc = IF todo = {} THEN "login" ELSE "evict", !.todo = todo,
                       !.victim = None, !.at = t] \in CallSuccessors(c)
  <2> DEFINE pc == IF todo = {} THEN "login" ELSE "evict"
             e  == [c EXCEPT !.pc = pc, !.todo = todo, !.victim = None, !.at = t]
  <2>0. pc \in {"login", "evict"}
    OBVIOUS
  <2> HIDE DEF pc
  <2>1. e \in VerifyCall
    BY <2>0
  <2>2. e.code = c.code /\ e.phone = c.phone /\ e.user = c.user
    OBVIOUS
  <2> HIDE DEF e
  <2>3. e \in CallSuccessors(c)
    BY <1>1, <2>1, <2>2
  <2> QED
    BY ZenonT(60), <2>3 DEF e, pc
<1>2. ASSUME c.pc \in Identified, NEW s \in SessionItem
      PROVE  [c EXCEPT !.pc = "revoke", !.todo = c.todo \ {s}, !.victim = s.session_id]
                \in CallSuccessors(c)
  <2> DEFINE e == [c EXCEPT !.pc = "revoke", !.todo = c.todo \ {s}, !.victim = s.session_id]
  <2>1. s.session_id \in Verifications
    BY DEF SessionItem
  <2>2. e \in VerifyCall
    BY <2>1
  <2>3. e.pc = "revoke" /\ e.code = c.code /\ e.phone = c.phone /\ e.user = c.user
    OBVIOUS
  <2> HIDE DEF e
  <2>4. e \in CallSuccessors(c)
    BY <1>2, <2>2, <2>3
  <2> QED
    BY <2>4 DEF e
<1>3. ASSUME NEW x \in VerifyResults
      PROVE  [NewCall EXCEPT !.pc = "done", !.result = x] \in CallSuccessors(c)
  <2> DEFINE e == [NewCall EXCEPT !.pc = "done", !.result = x]
  <2>1. e \in VerifyCall
    BY DEF NewCall
  <2>2. e.pc = "done" /\ e.code = None
    BY DEF NewCall
  <2> HIDE DEF e
  <2>3. e \in CallSuccessors(c)
    BY <2>1, <2>2
  <2> QED
    BY <2>3 DEF e
<1>4. ASSUME NEW t \in Nat
      PROVE  [NewCall EXCEPT !.pc = "done", !.result = "ok", !.at = t] \in CallSuccessors(c)
  <2> DEFINE e == [NewCall EXCEPT !.pc = "done", !.result = "ok", !.at = t]
  <2>0. "ok" \in VerifyResults
    BY DEF VerifyResults
  <2>1. e \in VerifyCall
    BY <2>0 DEF NewCall
  <2>2. e.pc = "done" /\ e.code = None
    BY DEF NewCall
  <2> HIDE DEF e
  <2>3. e \in CallSuccessors(c)
    BY <2>1, <2>2
  <2> QED
    BY <2>3 DEF e
<1> HIDE DEF CallSuccessors, VerifyCall, Identified
<1> QED
    BY ZenonT(60), <1>1, <1>2, <1>3, <1>4

\* A step of VerifyOTP changes its own call only, to a successor of its record.
LEMMA VerifyLocals ==
    ASSUME TypeOK, CallInv, NEW r \in Verifications, VerifySteps(r)
    PROVE  \E e \in CallSuccessors(ver[r]) : ver' = [ver EXCEPT ![r] = e]
<1>1. ver[r] \in VerifyCall /\ now \in Nat
    BY DEF TypeOK, VerifyTypeOK
<1> USE <1>1, CallSuccessorForms, LateSuccessorForms, ReturnForms DEF VerifyReturns
<1>2. CASE VerifyArrives(r)
    BY ZenonT(60), <1>2 DEF VerifyArrives
<1>3. CASE CheckVerifyRate(r)
    BY ZenonT(60), <1>3 DEF CheckVerifyRate, Goto, RepeatVerify
<1>4. CASE CheckVerifyLockout(r)
    BY ZenonT(60), <1>4 DEF CheckVerifyLockout, Goto
<1>5. CASE ValidateOTPRecord(r)
  <2>1. ver[r].phone \in Phones
    BY ZenonT(60), <1>5 DEF ValidateOTPRecord, VerifyOTPMAC, CallInv, VerifyCallOK
  <2>2. /\ otp[ver[r].phone].expires_at \in Nat
        /\ otp[ver[r].phone].status = "pending" => otp[ver[r].phone].mac \in OTPRequests
    BY ZenonT(60), <2>1 DEF TypeOK, OTPTypeOK, OTPItem, CallInv
  <2> QED
    BY ZenonT(60), <1>5, <2>2 DEF ValidateOTPRecord, VerifyOTPMAC, Goto
<1>6. CASE LockOut(r) \/ CountAttempt(r)
    BY ZenonT(60), <1>6 DEF LockOut, CountAttempt, RepeatVerify
<1>7. PhoneMatches(ver[r].phone) \subseteq UserIDs
    BY ZenonT(60) DEF TypeOK, UserTypeOK, UserRow, PhoneMatches
<1>8. CASE FindUser(r)
    BY ZenonT(60), <1>7, <1>8 DEF FindUser, FindByPhone
<1>9. CASE RegisterUser(r)
    BY ZenonT(60), <1>9 DEF RegisterUser, Committed, Goto
<1>10. CASE FindUserAfterRace(r)
    BY ZenonT(60), <1>7, <1>10 DEF FindUserAfterRace, FindByPhone
<1>11. CASE ListSessions(r)
  <2>1. ver[r].pc \in Identified
    BY ZenonT(60), <1>11 DEF ListSessions, Identified
  <2>2. ListByUser(ver[r].user, RFC3339(ver[r].at)) \subseteq SessionItem
    BY ZenonT(60) DEF TypeOK, SessionTypeOK, ListByUser
  <2> QED
    BY ZenonT(60), <1>11, <2>1, <2>2 DEF ListSessions, EvictNext
<1>12. ver[r].todo \subseteq SessionItem
    BY ZenonT(60) DEF VerifyCall
<1>13. CASE EvictSession(r)
  <2>1. ver[r].pc \in Identified
    BY ZenonT(60), <1>13 DEF EvictSession, Identified
  <2>2. NextVictims(ver[r].todo, ver[r].device) \subseteq SessionItem
    BY ZenonT(60), <1>12 DEF NextVictims
  <2> QED
    BY ZenonT(60), <1>13, <2>1, <2>2 DEF EvictSession
<1>14. CASE RevokeSession(r)
  <2>1. ver[r].pc \in Identified
    BY ZenonT(60), <1>14 DEF RevokeSession, Identified
  <2> QED
    BY ZenonT(60), <1>12, <1>14, <2>1 DEF RevokeSession, EvictNext
<1>15. CASE CreateLoginSession(r)
    BY ZenonT(60), <1>15 DEF CreateLoginSession, Committed
<1> QED
    BY ZenonT(60), <1>2, <1>3, <1>4, <1>5, <1>6, <1>8, <1>9, <1>10, <1>11, <1>13, <1>14, <1>15
    DEF VerifySteps, VerifyStep

\* A user found under a phone is in the table with that phone.
LEMMA MatchIsRow ==
    ASSUME TypeOK, UserInv, NEW p, NEW u \in PhoneMatches(p)
    PROVE  [user_id |-> u, phone_number |-> p] \in users
<1>1. PICK row \in users : row.phone_number = p /\ row.user_id = u
    BY ZenonT(60) DEF PhoneMatches, UserInv
<1>2. row = [user_id |-> u, phone_number |-> p]
    BY <1>1 DEF TypeOK, UserTypeOK, UserRow
<1> QED
    BY <1>2

\* A step of VerifyOTP spends an OTP in a transaction, or touches neither the users nor
\* the MAC of any OTP.
LEMMA VerifyStores ==
    ASSUME TypeOK, CallInv, NEW r \in Verifications, VerifySteps(r)
    PROVE  /\ UNCHANGED <<req, phoneIndex>>
           /\ \/ /\ UNCHANGED <<users, commits>>
                 /\ UNCHANGED otp \/ \E p : IncrementAttempts(p)
              \/ ver[r].pc = "register" /\ VerifyOTPAndCreateUser(
                   r, ver[r].phone, ver[r].mac, ver[r].exp, ver[r].device, ver[r].at)
              \/ ver[r].pc = "login" /\ VerifyOTPAndCreateSession(
                   r, ver[r].phone, ver[r].mac, ver[r].exp, ver[r].user, ver[r].device,
                   ver[r].at)
<1> USE DEF tableVars, userVars, historyVars
<1>1. UNCHANGED <<req, phoneIndex>> /\ VerifyStep(r)
    BY VerifyEffects DEF VerifySteps
<1>2. CASE VerifyArrives(r) \/ FindUser(r) \/ FindUserAfterRace(r) \/ ListSessions(r)
           \/ CheckVerifyLockout(r)
    BY ZenonT(60), <1>1, <1>2
    DEF VerifyArrives, FindUser, FindUserAfterRace, ListSessions, CheckVerifyLockout
<1>3. CASE CheckVerifyRate(r) \/ LockOut(r)
    BY ZenonT(60), <1>1, <1>3 DEF CheckVerifyRate, LockOut
<1>4. CASE ValidateOTPRecord(r) \/ CountAttempt(r)
    BY <1>1, <1>4 DEF ValidateOTPRecord, CountAttempt
<1>5. CASE EvictSession(r) \/ RevokeSession(r)
    BY ZenonT(60), <1>1, <1>5 DEF EvictSession, RevokeSession
<1>6. CASE RegisterUser(r)
    BY ZenonT(60), <1>1, <1>6 DEF RegisterUser
<1>7. CASE CreateLoginSession(r)
    BY ZenonT(60), <1>1, <1>7 DEF CreateLoginSession
<1> QED
    BY ZenonT(60), <1>1, <1>2, <1>3, <1>4, <1>5, <1>6, <1>7 DEF VerifyStep

\* What every step of VerifyOTP preserves: it adds users at most, and OTPs keep their MACs.
LEMMA VerifyOTPInv ==
    ASSUME TypeOK, CallInv, AccountInv, NEW r \in Verifications, VerifySteps(r)
    PROVE  /\ OTPInv'
           /\ \A c \in commits : c.otp \in CodesDelivered'
           /\ \A c \in commits, p \in Phones : otp'[p].mac = c.otp => otp'[p].status # "pending"
           /\ users \subseteq users' =>
                \A x \in Verifications : ver'[x].pc \in Identified =>
                    [user_id |-> ver'[x].user, phone_number |-> ver'[x].phone] \in users'
<1> USE DEF AccountInv
<1>1. PICK e \in CallSuccessors(ver[r]) : ver' = [ver EXCEPT ![r] = e]
    BY VerifyLocals
<1>2. ver'[r] = e /\ \A x \in Verifications : x # r => ver'[x] = ver[x]
    BY <1>1 DEF TypeOK, VerifyTypeOK
<1>3. UNCHANGED req /\ CodesDelivered' = CodesDelivered
    BY ZenonT(60), VerifyStores DEF CodesDelivered
<1>4. \A p \in Phones : otp'[p].mac = otp[p].mac /\ otp'[p].status \in {otp[p].status, "verified"}
  <2>1. CASE UNCHANGED otp
    BY <2>1
  <2>2. ASSUME NEW p, MarkVerified(p) \/ IncrementAttempts(p)
        PROVE  \A x \in Phones : /\ otp'[x].mac = otp[x].mac
                                 /\ otp'[x].status \in {otp[x].status, "verified"}
    BY <2>2, OTPUpdateType DEF TypeOK
  <2> QED
    BY <2>1, <2>2, VerifyEffects
<1>5. \A x \in Verifications : ver'[x].code # None => ver'[x].code \in CodesDelivered
  <2>1. e.code \in CodesDelivered \cup {None, ver[r].code}
    BY <1>1 DEF CallSuccessors
  <2>2. \A x \in Verifications : ver[x].code # None => ver[x].code \in CodesDelivered
    BY DEF OTPInv
  <2> QED
    BY <1>2, <2>1, <2>2
<1>6. OTPInv'
  <2>1. \A q \in OTPRequests : req'[q].sms # "none" => req'[q].pc = "done"
    BY <1>3 DEF OTPInv
  <2>2. ASSUME NEW p \in Phones, otp'[p].mac # None
        PROVE  req'[otp'[p].mac].phone = p /\ req'[otp'[p].mac].pc # "idle"
    <3>1. otp'[p].mac = otp[p].mac /\ req' = req
        BY <1>3, <1>4
    <3>2. req[otp[p].mac].phone = p /\ req[otp[p].mac].pc # "idle"
        BY <2>2, <3>1 DEF OTPInv
    <3> QED
        BY ZenonT(60), <3>1, <3>2
  <2> QED
    BY ZenonT(60), <1>3, <1>5, <2>1, <2>2 DEF OTPInv
<1>7. ASSUME users \subseteq users', NEW x \in Verifications, ver'[x].pc \in Identified
      PROVE  [user_id |-> ver'[x].user, phone_number |-> ver'[x].phone] \in users'
  <2>1. CASE x = r
    BY <1>1, <1>2, <1>7, <2>1, MatchIsRow DEF CallSuccessors, UserInv
  <2>2. CASE x # r
    BY ZenonT(60), <1>2, <1>7, <2>2 DEF UserInv
  <2> QED
    BY <2>1, <2>2
<1> QED
    BY ZenonT(60), <1>3, <1>4, <1>6, <1>7 DEF CommitInv

\* The commit of a call with its OTP keeps the account invariants.
LEMMA SpendOTP ==
    ASSUME TypeOK, CallInv, AccountInv, NEW r \in Verifications, VerifySteps(r),
           ver[r].pc \in Matched, NEW u,
           OTPVerifyCond(ver[r].phone, ver[r].mac, ver[r].exp), MarkVerified(ver[r].phone),
           commits' = commits \cup {[otp |-> ver[r].mac, session |-> r, user |-> u]},
           users \subseteq users',
           [user_id |-> u, phone_number |-> ver[r].phone] \in users'
    PROVE  CommitInv' /\ OTPSpentOnce' /\ OTPOpensOwnAccount'
<1> DEFINE p == ver[r].phone
           q == ver[r].mac
           d == [otp |-> q, session |-> r, user |-> u]
<1>1. p \in Phones /\ q \in OTPRequests /\ q = ver[r].code
    BY ZenonT(60) DEF CallInv, VerifyCallOK, Matched
<1>2. q # None
    BY ZenonT(60), <1>1, IdentityAssumption
<1>3. UNCHANGED req /\ CodesDelivered' = CodesDelivered
    BY ZenonT(60), VerifyStores DEF CodesDelivered
<1>4. q \in CodesDelivered
    BY ZenonT(60), <1>1, <1>2 DEF AccountInv, OTPInv
<1>5. otp[p].status = "pending" /\ otp[p].mac = q
    BY ZenonT(60) DEF OTPVerifyCond
<1>6. req[q].phone = p
    BY ZenonT(60), <1>1, <1>2, <1>5 DEF AccountInv, OTPInv
<1>7. \A x \in Phones : otp'[x].mac = q => otp'[x].status # "pending"
  <2>1. SUFFICES ASSUME NEW x \in Phones, otp'[x].mac = q
                 PROVE  otp'[x].status # "pending"
    BY ZenonT(60)
  <2>2. otp[x].mac = q
    BY ZenonT(60), <2>1, OTPUpdateType DEF TypeOK
  <2>3. x = p
    BY ZenonT(60), <1>2, <1>6, <2>2 DEF AccountInv, OTPInv
  <2> QED
    BY <1>1, <2>3 DEF MarkVerified, TypeOK, OTPTypeOK, OTPItem
<1>8. \A c \in commits : c.otp # q
    BY ZenonT(60), <1>1, <1>5 DEF AccountInv, CommitInv
<1>9. commits' = commits \cup {d} /\ d.otp = q /\ d.user = u
    OBVIOUS
<1> HIDE DEF d, p, q
<1>10. CommitInv'
    BY ZenonT(60), <1>3, <1>4, <1>7, <1>9, VerifyOTPInv DEF CommitInv
<1>11. OTPSpentOnce'
    BY <1>8, <1>9 DEF OTPSpentOnce, AccountInv
<1>12. OTPOpensOwnAccount'
    BY <1>3, <1>6, <1>9 DEF OTPOpensOwnAccount, AccountInv, p
<1> QED
    BY <1>10, <1>11, <1>12

\* VerifyOTP keeps the account invariants; only its two transactions can endanger them.
LEMMA VerifyAccounts ==
    ASSUME TypeOK, CallInv, AccountInv, NEW r \in Verifications, VerifySteps(r)
    PROVE  AccountInv'
<1> DEFINE p == ver[r].phone
           q == ver[r].mac
           exp == ver[r].exp
           d == ver[r].device
           at == ver[r].at
<1>1. UNCHANGED <<req, phoneIndex>>
    BY VerifyStores
<1>2. CASE UNCHANGED <<users, commits>>
    BY ZenonT(60), <1>1, <1>2, VerifyOTPInv DEF AccountInv, CommitInv, UserInv, OneUserPerPhone,
        OTPSpentOnce, OTPOpensOwnAccount, RegisteredUsers, SentinelFree, UserIDFree
<1>3. CASE ver[r].pc = "register" /\ VerifyOTPAndCreateUser(r, p, q, exp, d, at)
  <2> DEFINE new == [user_id |-> NewUserID(r), phone_number |-> p]
             mark == [user_id |-> SentinelID(p), phone_number |-> p]
  <2>1. /\ users' = users \cup {new, mark}
        /\ new.phone_number = p /\ new.user_id = NewUserID(r)
        /\ mark.user_id = SentinelID(p)
        /\ \A x \in Verifications : mark.user_id # NewUserID(x)
    BY ZenonT(60), <1>3 DEF VerifyOTPAndCreateUser, NewUserID, SentinelID
  <2>2. CommitInv' /\ OTPSpentOnce' /\ OTPOpensOwnAccount'
    BY ZenonT(60), <1>3, <2>1, SpendOTP DEF VerifyOTPAndCreateUser, CreateUserCond, Matched
  <2>3. \A row \in RegisteredUsers : row.phone_number # p
    BY ZenonT(60), <1>3 DEF VerifyOTPAndCreateUser, CreateUserCond, AccountInv, UserInv
  <2> HIDE DEF new, mark, p
  <2>4. RegisteredUsers' \subseteq RegisteredUsers \cup {new}
    BY <2>1 DEF RegisteredUsers
  <2>5. OneUserPerPhone'
    BY <2>1, <2>3, <2>4 DEF OneUserPerPhone, AccountInv
  <2>6. UserInv'
    BY ZenonT(60), <1>1, <2>1, <2>4, VerifyOTPInv
    DEF UserInv, AccountInv, SentinelFree, UserIDFree
  <2> QED
    BY ZenonT(60), <2>2, <2>5, <2>6, VerifyOTPInv DEF AccountInv
<1>4. CASE ver[r].pc = "login" /\ VerifyOTPAndCreateSession(r, p, q, exp, ver[r].user, d, at)
  <2>1. UNCHANGED users /\ [user_id |-> ver[r].user, phone_number |-> p] \in users
    BY ZenonT(60), <1>4 DEF VerifyOTPAndCreateSession, AccountInv, UserInv, Identified
  <2>2. CommitInv' /\ OTPSpentOnce' /\ OTPOpensOwnAccount'
    BY ZenonT(60), <1>4, <2>1, SpendOTP DEF VerifyOTPAndCreateSession, CreateSessionCond, Matched,
        Identified
  <2>3. OneUserPerPhone' /\ UserInv'
    BY ZenonT(60), <1>1, <2>1, VerifyOTPInv
    DEF OneUserPerPhone, UserInv, AccountInv, RegisteredUsers,
        SentinelFree, UserIDFree
  <2> QED
    BY ZenonT(60), <2>2, <2>3, VerifyOTPInv DEF AccountInv
<1> QED
    BY ZenonT(60), <1>2, <1>3, <1>4, VerifyStores

\* Refresh and logout touch no account, no OTP and no commit.
LEMMA SessionCallAccounts ==
    ASSUME AccountInv,
           (\E f \in Refreshes : RefreshSteps(f)) \/ (\E l \in Logouts : LogoutSteps(l))
    PROVE  AccountInv'
<1> USE DEF limiterVars, tableVars, userVars, sessionVars, historyVars
<1>1. ASSUME NEW f \in Refreshes, RefreshSteps(f)
      PROVE  UNCHANGED <<otp, users, phoneIndex, commits, req, ver>>
    BY ZenonT(60), <1>1 DEF RefreshSteps, RefreshStep, RefreshArrives, CheckSession, RotateToken,
        DeleteReused, RevokeReused
<1>2. ASSUME NEW l \in Logouts, LogoutSteps(l)
      PROVE  UNCHANGED <<otp, users, phoneIndex, commits, req, ver>>
    BY ZenonT(60), <1>2 DEF LogoutSteps, LogoutStep, LogoutArrives, LogoutDeletes, LogoutRevokes
<1> QED
    BY <1>1, <1>2, AccountUnchanged

\* Neither do time, expiring items and index propagation: an OTP may go, and an index
\* entry may appear for a row of the table.
LEMMA EnvironmentAccounts ==
    ASSUME TypeOK, CallInv, AccountInv, TimePasses \/ TableMaintenance
    PROVE  AccountInv'
<1> USE DEF limiterVars, tableVars, userVars, sessionVars, historyVars
<1>1. UNCHANGED <<users, commits, req, ver>> /\ CodesDelivered' = CodesDelivered
    BY DEF TimePasses, TableMaintenance, ExpireSessionItem, PropagateUser, PropagateSession,
           CodesDelivered
<1>2. phoneIndex' \subseteq users'
    BY DEF TimePasses, TableMaintenance, PropagateUser, AccountInv, UserInv
<1>3. \A x \in Phones : \/ otp'[x] = otp[x]
                        \/ otp'[x].mac = None /\ otp'[x].status = "absent"
  <2>1. CASE UNCHANGED otp
    BY <2>1
  <2>2. ASSUME NEW p \in Phones, ExpireOTPItem(p)
        PROVE  \A x \in Phones : \/ otp'[x] = otp[x]
                                 \/ otp'[x].mac = None /\ otp'[x].status = "absent"
    BY <2>2 DEF ExpireOTPItem, AbsentOTP, TypeOK, OTPTypeOK
  <2> QED
    BY <2>1, <2>2 DEF TimePasses, TableMaintenance
<1>4. OTPInv'
  <2>1. \A p \in Phones : otp'[p].mac # None => otp'[p].mac = otp[p].mac
    BY <1>3
  <2>2. \A p \in Phones : otp'[p].mac # None =>
            req'[otp'[p].mac].phone = p /\ req'[otp'[p].mac].pc # "idle"
    BY <1>1, <2>1 DEF AccountInv, OTPInv
  <2> QED
    BY ZenonT(60), <1>1, <2>2 DEF AccountInv, OTPInv
<1>5. CommitInv'
  <2>1. \A c \in commits, p \in Phones : otp'[p].mac = c.otp => otp'[p].status # "pending"
    BY <1>3 DEF AccountInv, CommitInv
  <2> QED
    BY <1>1, <2>1 DEF AccountInv, CommitInv
<1>6. UserInv' /\ OneUserPerPhone' /\ OTPSpentOnce' /\ OTPOpensOwnAccount'
    BY <1>1, <1>2 DEF AccountInv, UserInv, OneUserPerPhone, OTPSpentOnce, OTPOpensOwnAccount,
        RegisteredUsers, SentinelFree, UserIDFree
<1> QED
    BY <1>4, <1>5, <1>6 DEF AccountInv

\* Empty tables satisfy the account invariants.
LEMMA AccountInit == Init => AccountInv
<1> SUFFICES ASSUME Init PROVE AccountInv
    OBVIOUS
<1>1. /\ commits = {} /\ users = {} /\ phoneIndex = {}
      /\ \A p \in Phones : otp[p].mac = None
    BY DEF Init, OTPInit, AbsentOTP, UserInit, HistoryInit
<1>2. /\ \A q \in OTPRequests : req[q].sms = "none"
      /\ \A r \in Verifications : ver[r].pc = "idle" /\ ver[r].code = None
    BY ZenonT(60) DEF Init, RequestInit, VerifyInit, NewCall
<1>3. OTPInv /\ CommitInv
    BY <1>1, <1>2 DEF OTPInv, CommitInv
<1>4. UserInv /\ OneUserPerPhone /\ OTPSpentOnce /\ OTPOpensOwnAccount
    BY <1>1, <1>2 DEF UserInv, OneUserPerPhone, OTPSpentOnce, OTPOpensOwnAccount,
        RegisteredUsers, Identified
<1> QED
    BY <1>3, <1>4 DEF AccountInv

\* IInv is inductive.
LEMMA AccountStep == TypeOK /\ CallInv /\ AccountInv /\ [Next]_vars => AccountInv'
<1> SUFFICES ASSUME TypeOK, CallInv, AccountInv, [Next]_vars
             PROVE  AccountInv'
    OBVIOUS
<1>1. CASE TimePasses \/ TableMaintenance
    BY <1>1, EnvironmentAccounts
<1>2. CASE \E q \in OTPRequests : RequestSteps(q)
    BY <1>2, RequestAccounts
<1>3. CASE \E r \in Verifications : VerifySteps(r)
    BY <1>3, VerifyAccounts
<1>4. CASE (\E f \in Refreshes : RefreshSteps(f)) \/ (\E l \in Logouts : LogoutSteps(l))
    BY <1>4, SessionCallAccounts
<1>5. CASE UNCHANGED vars
    BY <1>5, AccountUnchanged DEF vars, tableVars, userVars, historyVars
<1> QED
    BY <1>1, <1>2, <1>3, <1>4, <1>5 DEF Next, Terminating

\* The inductive invariant holds: the calls of auth_verify_otp.go, the OTPs of
\* dynamo_otp.go and the rows dynamo_tx.go writes always agree with one another.
THEOREM InductiveInvariant == Spec => []IInv
<1>1. Init => TypeOK /\ CallInv /\ AccountInv
    BY TypeInit, CallInit, AccountInit
<1>2. TypeOK /\ CallInv /\ AccountInv => IInv
    BY DEF IInv, AccountInv
<1> QED
    BY <1>1, <1>2, TypeStep, AccountStep, PTL DEF Spec

\* However many registrations of a phone race through VerifyOTPAndCreateUser, and however
\* stale the index they looked the phone up in, the phone has one user.
THEOREM PhoneUniqueness == Spec => []OneUserPerPhone
<1>1. IInv => OneUserPerPhone
    BY DEF IInv
<1> QED
    BY <1>1, InductiveInvariant, PTL

\* However many calls present an OTP, one at most opens a session with it, for any number
\* of calls, faults and repeated requests.
THEOREM SingleConsumption == Spec => []OTPSpentOnce
<1>1. IInv => OTPSpentOnce
    BY DEF IInv
<1> QED
    BY <1>1, InductiveInvariant, PTL

\* The session an OTP opens is one of the account of the phone it was requested for.
THEOREM OwnAccount == Spec => []OTPOpensOwnAccount
<1>1. IInv => OTPOpensOwnAccount
    BY DEF IInv
<1> QED
    BY <1>1, InductiveInvariant, PTL

-----------------------------------------------------------------------------
(***************************************************************************)
(* How a step changes the clock, the OTPs and the calls.                   *)
(***************************************************************************)

\* The second of a tick: not after the tick, and less than a second before it.
LEMMA SecondBounds ==
    ASSUME NEW t \in Nat
    PROVE  /\ RFC3339(t) \in Nat
           /\ RFC3339(t) * TicksPerSecond <= t
           /\ t < (RFC3339(t) + 1) * TicksPerSecond
BY ClockAssumption DEF RFC3339

\* A common factor can be cancelled.
LEMMA CancelFactor ==
    ASSUME NEW a \in Nat, NEW b \in Nat, NEW c \in Nat, c >= 1, a * c < b * c
    PROVE  a < b
OBVIOUS

\* Dropping the fraction keeps the order of two readings.
LEMMA SecondMonotone ==
    ASSUME NEW s \in Nat, NEW t \in Nat, s <= t
    PROVE  RFC3339(s) <= RFC3339(t)
<1>1. RFC3339(s) * TicksPerSecond < (RFC3339(t) + 1) * TicksPerSecond
    BY SecondBounds, ClockAssumption
<1> QED
    BY <1>1, SecondBounds, CancelFactor, ClockAssumption

\* What is not After a stored second is not in a later second.
LEMMA NotAfterSecond ==
    ASSUME NEW t \in Nat, NEW s \in Nat, ~After(t, s)
    PROVE  RFC3339(t) <= s
<1>1. RFC3339(t) * TicksPerSecond < (s + 1) * TicksPerSecond
    BY SMTT(90), SecondBounds, ClockAssumption DEF After
<1> QED
    BY <1>1, SecondBounds, CancelFactor, ClockAssumption

-----------------------------------------------------------------------------

\* The records of calls of VerifyOTP that go on where c was, other than to count an
\* attempt, and of those that returned no tokens.
Onward(c) == {e \in VerifyCall : e.pc \notin {"done", "increment"} /\ e.result = c.result}
Ended     == {e \in VerifyCall : e.pc = "done" /\ e.result \notin {"none", "ok"}}

\* Each record a step of VerifyOTP builds before the eviction loop, but for the attempt
\* it counts, goes on.
LEMMA OnwardForms ==
    ASSUME NEW c \in VerifyCall
    PROVE  /\ c.pc \notin {"done", "increment"} => [c EXCEPT !.tries = @ + 1] \in Onward(c)
           /\ \A pc \in {"lockout", "get", "set_lockout", "find_race"} :
                [c EXCEPT !.pc = pc] \in Onward(c)
           /\ \A p \in Phones, k \in CodesDelivered \cup {None}, d \in Devices :
                [c EXCEPT !.pc = "rate", !.phone = p, !.code = k, !.device = d] \in Onward(c)
           /\ \A m \in OTPRequests, x \in Nat :
                [c EXCEPT !.pc = "find", !.mac = m, !.exp = x] \in Onward(c)
           /\ \A t \in Nat : [c EXCEPT !.pc = "register", !.at = t] \in Onward(c)
           /\ \A u \in UserIDs, t \in Nat :
                [c EXCEPT !.pc = "list", !.user = u, !.at = t] \in Onward(c)
<1> USE DEF Onward, VerifyCall
<1>1. c.pc \notin {"done", "increment"} => [c EXCEPT !.tries = @ + 1] \in Onward(c)
    OBVIOUS
<1>2. \A pc \in {"lockout", "get", "set_lockout", "find_race"} :
        [c EXCEPT !.pc = pc] \in Onward(c)
    OBVIOUS
<1>3. ASSUME NEW p \in Phones, NEW k \in CodesDelivered \cup {None}, NEW d \in Devices
      PROVE  [c EXCEPT !.pc = "rate", !.phone = p, !.code = k, !.device = d] \in Onward(c)
  <2> DEFINE e == [c EXCEPT !.pc = "rate", !.phone = p, !.code = k, !.device = d]
  <2>1. k \in OTPRequests \cup {None}
    BY DEF CodesDelivered
  <2>2. e \in VerifyCall
    BY ZenonT(30), <2>1
  <2>3. e.pc = "rate" /\ e.result = c.result
    OBVIOUS
  <2> HIDE DEF e
  <2>4. e \in Onward(c)
    BY <2>2, <2>3
  <2> QED
    BY <2>4 DEF e
<1>4. ASSUME NEW m \in OTPRequests, NEW x \in Nat
      PROVE  [c EXCEPT !.pc = "find", !.mac = m, !.exp = x] \in Onward(c)
  <2> DEFINE e == [c EXCEPT !.pc = "find", !.mac = m, !.exp = x]
  <2>1. e \in VerifyCall
    BY ZenonT(30)
  <2>2. e.pc = "find" /\ e.result = c.result
    OBVIOUS
  <2> HIDE DEF e
  <2>3. e \in Onward(c)
    BY <2>1, <2>2
  <2> QED
    BY <2>3 DEF e
<1>5. \A t \in Nat : [c EXCEPT !.pc = "register", !.at = t] \in Onward(c)
    BY ZenonT(30)
<1>6. ASSUME NEW u \in UserIDs, NEW t \in Nat
      PROVE  [c EXCEPT !.pc = "list", !.user = u, !.at = t] \in Onward(c)
  <2> DEFINE e == [c EXCEPT !.pc = "list", !.user = u, !.at = t]
  <2>1. e \in VerifyCall
    BY ZenonT(30)
  <2>2. e.pc = "list" /\ e.result = c.result
    OBVIOUS
  <2> HIDE DEF e
  <2>3. e \in Onward(c)
    BY <2>1, <2>2
  <2> QED
    BY <2>3 DEF e
<1> HIDE DEF Onward, VerifyCall
<1> QED
    BY ZenonT(30), <1>1, <1>2, <1>3, <1>4, <1>5, <1>6

\* The same for the eviction loop; and a call that returns an error has ended.
LEMMA EndForms ==
    ASSUME NEW c \in VerifyCall
    PROVE  /\ \A todo \in SUBSET SessionItem, t \in Nat :
                [c EXCEPT !.pc = IF todo = {} THEN "login" ELSE "evict", !.todo = todo,
                          !.victim = None, !.at = t] \in Onward(c)
           /\ \A s \in SessionItem :
                [c EXCEPT !.pc = "revoke", !.todo = c.todo \ {s}, !.victim = s.session_id]
                    \in Onward(c)
           /\ \A x \in VerifyResults \ {"none", "ok"} :
                [NewCall EXCEPT !.pc = "done", !.result = x] \in Ended
           /\ {"ErrInvalidPhoneNumber", "ErrInvalidInput", "ErrRateLimited", "ErrUnavailable",
               "ErrInvalidOTP", "error", "ErrNotFound", "ErrAlreadyExists"}
                    \subseteq VerifyResults \ {"none", "ok"}
<1> USE DEF Onward, VerifyCall
<1>1. ASSUME NEW todo \in SUBSET SessionItem, NEW t \in Nat
      PROVE  [c EXCEPT !.pc = IF todo = {} THEN "login" ELSE "evict", !.todo = todo,
                       !.victim = None, !.at = t] \in Onward(c)
  <2> DEFINE e == [c EXCEPT !.pc = IF todo = {} THEN "login" ELSE "evict", !.todo = todo,
                            !.victim = None, !.at = t]
  <2> DEFINE next == IF todo = {} THEN "login" ELSE "evict"
  <2>0. next \in {"login", "evict"}
    OBVIOUS
  <2> HIDE DEF next
  <2>1. [c EXCEPT !.pc = next, !.todo = todo, !.victim = None, !.at = t] \in VerifyCall
    BY ZenonT(30), <2>0
  <2>2. e.pc = next /\ e.result = c.result
    BY DEF next
  <2>3. e \in VerifyCall
    BY ZenonT(30), <2>1 DEF next
  <2> HIDE DEF e
  <2>4. e \in Onward(c)
    BY <2>0, <2>2, <2>3
  <2> QED
    BY ZenonT(30), <2>4 DEF e
<1>2. ASSUME NEW s \in SessionItem
      PROVE  [c EXCEPT !.pc = "revoke", !.todo = c.todo \ {s}, !.victim = s.session_id]
                \in Onward(c)
  <2> DEFINE e == [c EXCEPT !.pc = "revoke", !.todo = c.todo \ {s}, !.victim = s.session_id]
  <2>1. s.session_id \in Verifications /\ c.todo \ {s} \in SUBSET SessionItem
    BY DEF SessionItem
  <2>2. e \in VerifyCall
    BY ZenonT(30), <2>1
  <2>3. e.pc = "revoke" /\ e.result = c.result
    OBVIOUS
  <2> HIDE DEF e
  <2>4. e \in Onward(c)
    BY <2>2, <2>3
  <2> QED
    BY <2>4 DEF e
<1>3. ASSUME NEW x \in VerifyResults \ {"none", "ok"}
      PROVE  [NewCall EXCEPT !.pc = "done", !.result = x] \in Ended
    BY ZenonT(30) DEF Ended, NewCall
<1>4. {"ErrInvalidPhoneNumber", "ErrInvalidInput", "ErrRateLimited", "ErrUnavailable",
       "ErrInvalidOTP", "error", "ErrNotFound", "ErrAlreadyExists"}
            \subseteq VerifyResults \ {"none", "ok"}
    BY DEF VerifyResults
<1> HIDE DEF Onward, VerifyCall
<1> QED
    BY ZenonT(30), <1>1, <1>2, <1>3, <1>4

\* The call goes on or returns without tokens, and touches no OTP.
VerifyMovesOn(r) ==
    /\ ver[r].pc # "increment"
    /\ \E e \in Onward(ver[r]) \cup Ended : ver' = [ver EXCEPT ![r] = e]
    /\ UNCHANGED <<otp, commits, guesses>>

\* The call compares a wrong code with the pending OTP of its phone.
VerifyGuesses(r) ==
    /\ ver[r].pc = "get" /\ ver[r].phone \in Phones
    /\ otp[ver[r].phone].status = "pending"
    /\ ver' = [ver EXCEPT ![r].pc = "increment"]
    /\ guesses' = [guesses EXCEPT ![otp[ver[r].phone].mac] = @ + 1]
    /\ UNCHANGED <<otp, commits>>

\* The call spends the OTP of its phone.
VerifyCommits(r) ==
    /\ ver[r].pc \in {"register", "login"}
    /\ OTPVerifyCond(ver[r].phone, ver[r].mac, ver[r].exp)
    /\ MarkVerified(ver[r].phone)
    /\ \E u : commits' = commits \cup {[otp |-> ver[r].mac, session |-> r, user |-> u]}
    /\ UNCHANGED guesses
    /\ Committed(r)

\* What a step of VerifyOTP does to its call, the OTPs and their history.
LEMMA VerifyMoves ==
    ASSUME TypeOK, CallInv, NEW r \in Verifications, VerifySteps(r)
    PROVE  VerifyMovesOn(r) \/ VerifyGuesses(r) \/ CountAttempt(r) \/ VerifyCommits(r)
<1>1. ver[r] \in VerifyCall /\ now \in Nat
    BY DEF TypeOK, VerifyTypeOK
<1>2. VerifyStep(r)
    BY DEF VerifySteps
<1>3. ASSUME NEW x \in {"ErrInvalidPhoneNumber", "ErrInvalidInput", "ErrRateLimited",
                 "ErrUnavailable", "ErrInvalidOTP", "error", "ErrNotFound", "ErrAlreadyExists"},
             VerifyReturns(r, x)
      PROVE  \E e \in Ended : ver' = [ver EXCEPT ![r] = e]
    BY ZenonT(30), <1>1, <1>3, EndForms DEF VerifyReturns
<1> USE DEF tableVars, historyVars
<1>4. CASE VerifyArrives(r)
    BY ZenonT(30), <1>1, <1>3, <1>4, OnwardForms DEF VerifyArrives, VerifyMovesOn
<1>5. CASE CheckVerifyRate(r)
    BY ZenonT(30), <1>1, <1>3, <1>5, OnwardForms
    DEF CheckVerifyRate, Goto, RepeatVerify, VerifyMovesOn
<1>6. CASE CheckVerifyLockout(r)
    BY ZenonT(30), <1>1, <1>3, <1>6, OnwardForms DEF CheckVerifyLockout, Goto, VerifyMovesOn
<1>7. CASE ValidateOTPRecord(r)
  <2>1. ver[r].phone \in Phones /\ ver[r].pc = "get"
    BY ZenonT(30), <1>7 DEF ValidateOTPRecord, VerifyOTPMAC, CallInv, VerifyCallOK
  <2>2. /\ otp[ver[r].phone].expires_at \in Nat
        /\ otp[ver[r].phone].status = "pending" => otp[ver[r].phone].mac \in OTPRequests
    BY ZenonT(60), <2>1 DEF TypeOK, OTPTypeOK, OTPItem, CallInv
  <2>3. CASE UNCHANGED guesses
    BY ZenonT(30), <1>1, <1>3, <1>7, <2>1, <2>2, <2>3, OnwardForms
    DEF ValidateOTPRecord, VerifyOTPMAC, Goto, VerifyMovesOn, VerifyGuesses
  <2>4. CASE guesses' = [guesses EXCEPT ![otp[ver[r].phone].mac] = @ + 1]
    BY ZenonT(30), <1>1, <1>3, <1>7, <2>1, <2>2, <2>4, OnwardForms
    DEF ValidateOTPRecord, VerifyOTPMAC, Goto, VerifyMovesOn, VerifyGuesses
  <2> QED
    BY ZenonT(30), <1>7, <2>3, <2>4 DEF ValidateOTPRecord
<1>8. CASE LockOut(r)
    BY ZenonT(30), <1>1, <1>3, <1>8, OnwardForms DEF LockOut, VerifyMovesOn
<1>9. PhoneMatches(ver[r].phone) \subseteq UserIDs
    BY DEF TypeOK, UserTypeOK, UserRow, PhoneMatches
<1>10. CASE FindUser(r)
    BY ZenonT(30), <1>1, <1>3, <1>9, <1>10, OnwardForms DEF FindUser, FindByPhone, VerifyMovesOn
<1>11. CASE FindUserAfterRace(r)
    BY ZenonT(30), <1>1, <1>3, <1>9, <1>11, OnwardForms
    DEF FindUserAfterRace, FindByPhone, VerifyMovesOn
<1>12. CASE RegisterUser(r)
  <2>1. CASE (Goto(r, "find_race") \/ VerifyReturns(r, "error")) /\ UNCHANGED tableVars
    <3>1. ver[r].pc = "register"
        BY ZenonT(60), <1>12 DEF RegisterUser
    <3> QED
        BY ZenonT(30), <1>1, <1>3, <2>1, <3>1, OnwardForms DEF Goto, VerifyMovesOn
  <2>2. CASE VerifyOTPAndCreateUser(r, ver[r].phone, ver[r].mac, ver[r].exp, ver[r].device,
                ver[r].at) /\ Committed(r)
    BY ZenonT(30), <1>12, <2>2
    DEF RegisterUser, VerifyOTPAndCreateUser, CreateUserCond, VerifyCommits
  <2> QED
    BY ZenonT(60), <1>12, <2>1, <2>2 DEF RegisterUser
<1>13. CASE ListSessions(r)
  <2>1. ListByUser(ver[r].user, RFC3339(ver[r].at)) \subseteq SessionItem
    BY DEF TypeOK, SessionTypeOK, ListByUser
  <2> QED
    BY ZenonT(30), <1>1, <1>3, <1>13, <2>1, EndForms DEF ListSessions, EvictNext, VerifyMovesOn
<1>14. ver[r].todo \subseteq SessionItem
    BY ZenonT(60), <1>1 DEF VerifyCall
<1>15. CASE EvictSession(r)
  <2>1. NextVictims(ver[r].todo, ver[r].device) \subseteq SessionItem
    BY <1>14 DEF NextVictims
  <2> QED
    BY ZenonT(30), <1>1, <1>3, <1>15, <2>1, EndForms DEF EvictSession, VerifyMovesOn
<1>16. CASE RevokeSession(r)
    BY ZenonT(30), <1>1, <1>3, <1>14, <1>16, EndForms
    DEF RevokeSession, EvictNext, VerifyMovesOn
<1>17. CASE CreateLoginSession(r)
  <2>1. CASE /\ VerifyReturns(r, "ErrAlreadyExists") \/ VerifyReturns(r, "error")
             /\ UNCHANGED tableVars
    <3>1. ver[r].pc = "login"
        BY <1>17 DEF CreateLoginSession
    <3> QED
        BY <1>1, <1>3, <2>1, <3>1 DEF VerifyMovesOn
  <2>2. CASE VerifyOTPAndCreateSession(r, ver[r].phone, ver[r].mac, ver[r].exp, ver[r].user,
                ver[r].device, ver[r].at) /\ Committed(r)
    BY ZenonT(60), <1>17, <2>2
    DEF CreateLoginSession, VerifyOTPAndCreateSession, CreateSessionCond, VerifyCommits
  <2> QED
    BY ZenonT(60), <1>17, <2>1, <2>2 DEF CreateLoginSession
<1> QED
    BY <1>2, <1>4, <1>5, <1>6, <1>7, <1>8, <1>10, <1>11, <1>12, <1>13, <1>15, <1>16, <1>17
    DEF VerifyStep

-----------------------------------------------------------------------------

\* What a step of RequestOTP does to the clock reading of its call; and it returns with
\* the put of its OTP, unless a reply of DynamoDB is lost.
LEMMA RequestLife ==
    ASSUME TypeOK, NEW q \in OTPRequests, RequestSteps(q)
    PROVE  /\ UNCHANGED <<now, ver, guesses, commits>>
           /\ req'[q].at \in {req[q].at, now}
           /\ req[q].pc = "done" => req'[q].pc = "done"
           /\ \/ UNCHANGED otp
              \/ /\ req[q].pc = "create"
                 /\ OTPReplaceable(otp[req[q].phone], RFC3339(req[q].at))
                 /\ PutOTP(req[q].phone, q, RFC3339(req[q].at + OTPValidityDuration))
                 /\ "dynamo" \in Faults \/ req'[q].pc = "done"
<1>1. req[q] \in Request /\ now \in Nat
    BY DEF TypeOK, RequestTypeOK
<1>2. UNCHANGED <<now, ver, guesses, commits>> /\ RequestStep(q)
    BY ZenonT(60)
    DEF RequestSteps, RequestStep, RequestArrives, CheckRequestPhone, CheckRequestIP,
        CreateOTP, ReturnExistingOTP, SendSMS, historyVars
<1>3. ASSUME NEW e, req' = [req EXCEPT ![q] = e]
      PROVE  req'[q] = e
    BY <1>3 DEF TypeOK, RequestTypeOK
<1>4. /\ \A x : LET e == [req[q] EXCEPT !.pc = "done", !.result = x] IN
                e.at = req[q].at /\ e.pc = "done"
      /\ LET e == [req[q] EXCEPT !.tries = @ + 1] IN e.at = req[q].at /\ e.pc = req[q].pc
      /\ \A x : LET e == [req[q] EXCEPT !.pc = x] IN e.at = req[q].at
      /\ \A x : LET e == [req[q] EXCEPT !.sms = x] IN e.at = req[q].at /\ e.pc = req[q].pc
    BY <1>1 DEF Request
<1>5. ASSUME NEW x, RequestReturns(q, x)
      PROVE  req'[q].at = req[q].at /\ req'[q].pc = "done"
    BY ZenonT(60), <1>3, <1>4, <1>5 DEF RequestReturns
<1>6. ASSUME NEW x, RepeatRequest(q, x)
      PROVE  req'[q].at = req[q].at /\ x \in Faults
    BY <1>3, <1>4, <1>6 DEF RepeatRequest, ReplyLost
<1>7. CASE RequestArrives(q)
  <2>1. ASSUME NEW p \in Phones, NEW a \in IPs,
               req' = [req EXCEPT ![q] = [@ EXCEPT !.pc = "phone_limit", !.phone = p, !.ip = a]]
        PROVE  req'[q].at = req[q].at
    BY <1>1, <1>3, <2>1 DEF Request
  <2> QED
    BY ZenonT(60), <1>2, <1>5, <1>7, <2>1 DEF RequestArrives
<1>8. CASE CheckRequestPhone(q)
  <2>1. req' = [req EXCEPT ![q].pc = "ip_limit"] => req'[q].at = req[q].at
    BY <1>3, <1>4
  <2> QED
    BY <1>2, <1>5, <1>6, <1>8, <2>1 DEF CheckRequestPhone
<1>9. CASE CheckRequestIP(q)
  <2>1. req' = [req EXCEPT ![q] = [@ EXCEPT !.pc = "create", !.at = now]]
            => req'[q].at = now
    BY ZenonT(60), <1>1, <1>3 DEF Request
  <2> QED
    BY <1>2, <1>5, <1>6, <1>9, <2>1 DEF CheckRequestIP
<1>10. CASE CreateOTP(q)
  <2>1. req' = [req EXCEPT ![q] = [@ EXCEPT !.pc = "done", !.result = "ok", !.sms = "sending"]]
            => req'[q].at = req[q].at /\ req'[q].pc = "done"
    BY ZenonT(60), <1>1, <1>3 DEF Request
  <2>2. req' = [req EXCEPT ![q].pc = "existing"] => req'[q].at = req[q].at
    BY <1>3, <1>4
  <2> QED
    BY <1>2, <1>5, <1>6, <1>10, <2>1, <2>2 DEF CreateOTP
<1>11. CASE ReturnExistingOTP(q)
    BY ZenonT(60), <1>2, <1>5, <1>11 DEF ReturnExistingOTP
<1>12. CASE SendSMS(q)
  <2>1. \A x : req' = [req EXCEPT ![q].sms = x]
            => req'[q].at = req[q].at /\ req'[q].pc = req[q].pc
    BY <1>3, <1>4
  <2> QED
    BY <1>2, <1>12, <2>1 DEF SendSMS
<1> QED
    BY ZenonT(60), <1>2, <1>7, <1>8, <1>9, <1>10, <1>11, <1>12 DEF RequestStep

\* The steps of no login call at most let time pass and delete expired OTPs.
LEMMA OtherSteps ==
    ASSUME TypeOK, CallInv,
           \/ TimePasses \/ TableMaintenance \/ UNCHANGED vars
           \/ \E f \in Refreshes : RefreshSteps(f)
           \/ \E l \in Logouts : LogoutSteps(l)
    PROVE  /\ UNCHANGED <<req, ver, users, commits, guesses>>
           /\ now' \in Nat /\ now <= now'
           /\ \A p \in Phones :
                \/ otp'[p] = otp[p]
                \/ otp'[p] = AbsentOTP /\ otp[p].expires_at < RFC3339(now)
<1> USE DEF limiterVars, tableVars, userVars, sessionVars, historyVars
<1>0. now \in Nat /\ now <= now
    BY DEF TypeOK
<1>1. ASSUME UNCHANGED <<req, ver, users, commits, guesses, now, otp>>
      PROVE  /\ UNCHANGED <<req, ver, users, commits, guesses>>
             /\ now' \in Nat /\ now <= now'
             /\ \A p \in Phones : otp'[p] = otp[p]
    BY <1>0, <1>1
<1>2. CASE TimePasses
  <2>1. UNCHANGED <<req, ver, users, commits, guesses, otp>> /\ now' = now + 1
    BY ZenonT(60), <1>2 DEF TimePasses, Tick
  <2>2. now' \in Nat /\ now <= now'
    BY <1>0, <2>1
  <2>3. \A p \in Phones : otp'[p] = otp[p]
    BY <2>1
  <2> QED
    BY ZenonT(60), <2>1, <2>2, <2>3
<1>3. CASE UNCHANGED vars
  <2>1. UNCHANGED <<req, ver, users, commits, guesses, now, otp>>
    BY ZenonT(60), <1>3 DEF vars
  <2> QED
    BY ZenonT(60), <1>1, <2>1
<1>4. CASE TableMaintenance
  <2>1. UNCHANGED <<req, ver, users, commits, guesses, now>>
    BY ZenonT(60), <1>4
    DEF TableMaintenance, ExpireSessionItem, PropagateUser, PropagateSession
  <2>2. ASSUME NEW p \in Phones, ExpireOTPItem(p)
        PROVE  \A x \in Phones : \/ otp'[x] = otp[x]
                                 \/ otp'[x] = AbsentOTP /\ otp[x].expires_at < RFC3339(now)
    BY <2>2 DEF ExpireOTPItem, TypeOK, OTPTypeOK
  <2>3. \A x \in Phones : \/ otp'[x] = otp[x]
                          \/ otp'[x] = AbsentOTP /\ otp[x].expires_at < RFC3339(now)
    BY ZenonT(60), <1>4, <2>2 DEF TableMaintenance
  <2>4. now' \in Nat /\ now <= now'
    BY <1>0, <2>1
  <2> QED
    BY ZenonT(60), <2>1, <2>3, <2>4
<1>5. ASSUME NEW f \in Refreshes, RefreshSteps(f)
      PROVE  UNCHANGED <<req, ver, users, commits, guesses, now, otp>>
    BY ZenonT(60), <1>5
    DEF RefreshSteps, RefreshStep, RefreshArrives, CheckSession, RotateToken,
        DeleteReused, RevokeReused
<1>6. ASSUME NEW l \in Logouts, LogoutSteps(l)
      PROVE  UNCHANGED <<req, ver, users, commits, guesses, now, otp>>
    BY ZenonT(60), <1>6 DEF LogoutSteps, LogoutStep, LogoutArrives, LogoutDeletes, LogoutRevokes
<1> QED
    BY ZenonT(60), <1>1, <1>2, <1>3, <1>4, <1>5, <1>6

-----------------------------------------------------------------------------
(***************************************************************************)
(* Every step of AuthService maps to a step of the abstract login, or to a *)
(* stuttering step.                                                        *)
(***************************************************************************)

\* In a table with one row per user_id, the account of a user is the phone of its row.
LEMMA AccountDetermined ==
    ASSUME NEW S, \A a, b \in S : a.user_id = b.user_id => a = b,
           NEW u, NEW p \in Phones, [user_id |-> u, phone_number |-> p] \in S
    PROVE  (CHOOSE x \in Phones : [user_id |-> u, phone_number |-> x] \in S) = p
<1>1. \A x \in Phones : [user_id |-> u, phone_number |-> x] \in S => x = p
  <2>1. SUFFICES ASSUME NEW x \in Phones, [user_id |-> u, phone_number |-> x] \in S
                 PROVE  x = p
    OBVIOUS
  <2>2. [user_id |-> u, phone_number |-> x].user_id = [user_id |-> u, phone_number |-> p].user_id
    OBVIOUS
  <2>3. [user_id |-> u, phone_number |-> x] = [user_id |-> u, phone_number |-> p]
    BY <2>1, <2>2
  <2> QED
    BY <2>3
<1> QED
    BY <1>1

\* Only the arrival of a call gives it a phone, and only a call that has one writes an OTP.
LEMMA RequestPhones ==
    ASSUME TypeOK, OTPInv, LoginInv, NEW q \in OTPRequests, RequestSteps(q)
    PROVE  /\ req'[q].pc # "idle"
           /\ req'[q].pc # "done" => req'[q].phone \in Phones
           /\ \/ req'[q].phone = req[q].phone
              \/ req[q].phone = None /\ req'[q].phone \in Phones /\ UNCHANGED otp
           /\ \A x \in OTPRequests : x # q => req'[x] = req[x]
<1>1. PICK e \in Successors(req[q]) : req' = [req EXCEPT ![q] = e]
    BY RequestEffects
<1>2. req'[q] = e /\ \A x \in OTPRequests : x # q => req'[x] = req[x]
    BY <1>1 DEF TypeOK, RequestTypeOK
<1>3. CASE RequestArrives(q)
  <2>1. req[q].phone = None /\ UNCHANGED otp /\ req[q] \in Request
    BY ZenonT(60), <1>3 DEF RequestArrives, LoginInv, TypeOK, RequestTypeOK
  <2>2. \/ e.pc = "phone_limit" /\ e.phone \in Phones
        \/ e.pc = "done" /\ e.phone = None
    <3>1. CASE RequestReturns(q, "ErrInvalidPhoneNumber")
        BY ZenonT(60), <1>2, <2>1, <3>1 DEF RequestReturns, TypeOK, RequestTypeOK, Request
    <3>2. ASSUME NEW p \in Phones, NEW a \in IPs,
                 req' = [req EXCEPT ![q] = [@ EXCEPT !.pc = "phone_limit", !.phone = p, !.ip = a]]
          PROVE  e.pc = "phone_limit" /\ e.phone \in Phones
      <4>1. e = [req[q] EXCEPT !.pc = "phone_limit", !.phone = p, !.ip = a]
        BY <1>2, <3>2 DEF TypeOK, RequestTypeOK
      <4> QED
        BY <2>1, <4>1 DEF Request
    <3> QED
        BY ZenonT(60), <1>3, <3>1, <3>2 DEF RequestArrives
  <2> QED
    BY <1>2, <2>1, <2>2
<1>4. CASE req[q].pc # "idle"
  <2>1. e.phone = req[q].phone /\ e.pc # "idle"
    BY <1>1, <1>4 DEF Successors
  <2>2. CASE req[q].pc # "done"
    BY <1>2, <1>4, <2>1, <2>2 DEF LoginInv
  <2>3. CASE req[q].pc = "done"
    <3>1. SendSMS(q)
        BY <2>3 DEF RequestSteps, RequestStep, RequestArrives, CheckRequestPhone,
            CheckRequestIP, CreateOTP, ReturnExistingOTP
    <3>2. e.pc = "done"
        BY <1>2, <2>3, <3>1 DEF SendSMS, TypeOK, RequestTypeOK, Request
    <3> QED
        BY <1>2, <2>1, <3>2
  <2> QED
    BY <2>2, <2>3
<1>5. req[q].pc = "idle" => RequestArrives(q)
    BY DEF RequestSteps, RequestStep, CheckRequestPhone, CheckRequestIP, CreateOTP,
        ReturnExistingOTP, SendSMS, OTPInv
<1> QED
    BY <1>3, <1>4, <1>5

\* A call of VerifyOTP takes no step after it has returned, and returns with its commit.
LEMMA CommitReturns ==
    ASSUME TypeOK, NEW r \in Verifications, VerifySteps(r)
    PROVE  /\ ver[r].pc # "done"
           /\ UNCHANGED commits \/ ver'[r].pc = "done"
<1>1. ASSUME NEW x, VerifyReturns(r, x) PROVE ver'[r].pc = "done"
    BY <1>1 DEF VerifyReturns, NewCall, TypeOK, VerifyTypeOK
<1>2. Committed(r) => ver'[r].pc = "done"
    BY ZenonT(60), <1>1 DEF Committed, NewCall, TypeOK, VerifyTypeOK
<1> USE DEF tableVars, historyVars
<1>3. CASE VerifyArrives(r) \/ CheckVerifyRate(r) \/ CheckVerifyLockout(r)
    BY ZenonT(60), <1>3 DEF VerifyArrives, CheckVerifyRate, CheckVerifyLockout
<1>4. CASE ValidateOTPRecord(r) \/ LockOut(r) \/ CountAttempt(r)
    BY <1>4 DEF ValidateOTPRecord, LockOut, CountAttempt
<1>5. CASE FindUser(r) \/ FindUserAfterRace(r) \/ ListSessions(r)
    BY <1>5 DEF FindUser, FindUserAfterRace, ListSessions
<1>6. CASE EvictSession(r) \/ RevokeSession(r)
    BY ZenonT(60), <1>6 DEF EvictSession, RevokeSession
<1>7. CASE RegisterUser(r)
    BY <1>2, <1>7 DEF RegisterUser
<1>8. CASE CreateLoginSession(r)
    BY <1>2, <1>8 DEF CreateLoginSession
<1> QED
    BY <1>3, <1>4, <1>5, <1>6, <1>7, <1>8 DEF VerifySteps, VerifyStep

\* Steps that leave the requests, the calls, the users and the commits alone.
LEMMA LoginUnchanged ==
    ASSUME LoginInv, UNCHANGED <<req, ver, users, commits>>
    PROVE  LoginInv'
BY DEF LoginInv, RegisteredUsers

\* A transaction of VerifyOTP keeps one row per user_id and brings the user with the row
\* that reserves the phone.
LEMMA VerifyLogin ==
    ASSUME TypeOK, CallInv, AccountInv, LoginInv, NEW r \in Verifications, VerifySteps(r)
    PROVE  LoginInv'
<1>1. /\ UNCHANGED req
      /\ \A x \in Verifications : x # r => ver'[x] = ver[x]
    BY VerifyStores, VerifyLocals DEF TypeOK, VerifyTypeOK
<1>2. \A c \in commits' : ver'[c.session].pc = "done"
  <2>1. \A c \in commits : c.session \in Verifications /\ c.session # r
    BY CommitReturns DEF LoginInv, TypeOK, HistoryTypeOK, Commit
  <2>2. commits' = commits \/ \E d : d.session = r /\ commits' = commits \cup {d}
    <3>1. ASSUME NEW m, NEW u, NEW d, d = [otp |-> m, session |-> r, user |-> u]
          PROVE  d.session = r
        BY <3>1
    <3> QED
        BY <3>1, VerifyStores DEF VerifyOTPAndCreateUser, VerifyOTPAndCreateSession
  <2>3. \A c \in commits : ver'[c.session].pc = "done"
    <3>1. \A c \in commits : ver[c.session].pc = "done"
        BY DEF LoginInv
    <3> QED
        BY ZenonT(60), <1>1, <2>1, <3>1
  <2>4. UNCHANGED commits \/ ver'[r].pc = "done"
    BY CommitReturns
  <2> QED
    BY ZenonT(60), <2>2, <2>3, <2>4
<1>3. CASE UNCHANGED users
    BY <1>1, <1>2, <1>3 DEF LoginInv, RegisteredUsers
<1>4. CASE ver[r].pc = "register" /\ VerifyOTPAndCreateUser(
                r, ver[r].phone, ver[r].mac, ver[r].exp, ver[r].device, ver[r].at)
  <2> DEFINE p == ver[r].phone
             new == [user_id |-> NewUserID(r), phone_number |-> p]
             mark == [user_id |-> SentinelID(p), phone_number |-> p]
  <2>1. /\ users' = users \cup {new, mark}
        /\ new.phone_number = p /\ new.user_id = NewUserID(r)
        /\ mark.phone_number = p /\ mark.user_id = SentinelID(p)
        /\ NewUserID(r) # SentinelID(p)
        /\ \A row \in users : row.user_id # NewUserID(r) /\ row.user_id # SentinelID(p)
    BY <1>4 DEF VerifyOTPAndCreateUser, CreateUserCond, SentinelFree, UserIDFree, NewUserID,
        SentinelID
  <2> HIDE DEF p, new, mark
  <2>2. \A a, b \in users' : a.user_id = b.user_id => a = b
    BY <2>1 DEF LoginInv
  <2>3. new \in RegisteredUsers' /\ RegisteredUsers \subseteq RegisteredUsers'
    BY <2>1 DEF RegisteredUsers
  <2>4. \A row \in users' : \E reg \in RegisteredUsers' : reg.phone_number = row.phone_number
    BY <2>1, <2>3 DEF LoginInv
  <2> QED
    BY <1>1, <1>2, <2>2, <2>4 DEF LoginInv
<1> QED
    BY <1>3, <1>4, VerifyStores DEF VerifyOTPAndCreateSession

\* LoginInv is preserved, given the inductive invariant of the accounts.
LEMMA LoginStep == TypeOK /\ CallInv /\ AccountInv /\ LoginInv /\ [Next]_vars => LoginInv'
<1> SUFFICES ASSUME TypeOK, CallInv, AccountInv, LoginInv, [Next]_vars
             PROVE  LoginInv'
    OBVIOUS
<1> USE DEF limiterVars, tableVars, userVars, sessionVars, historyVars
<1>1. CASE TimePasses \/ TableMaintenance
    BY <1>1, LoginUnchanged DEF TimePasses, TableMaintenance, PropagateUser
<1>2. ASSUME NEW q \in OTPRequests, RequestSteps(q)
      PROVE  LoginInv'
  <2>1. UNCHANGED <<users, commits, ver>>
    BY <1>2 DEF RequestSteps
  <2>2. \A x \in OTPRequests :
            /\ req'[x].pc = "idle" => req'[x].phone = None
            /\ req'[x].pc \notin {"idle", "done"} => req'[x].phone \in Phones
    BY <1>2, RequestPhones DEF LoginInv, AccountInv
  <2> QED
    BY <2>1, <2>2 DEF LoginInv, RegisteredUsers
<1>3. CASE \E r \in Verifications : VerifySteps(r)
    BY <1>3, VerifyLogin
<1>4. ASSUME NEW f \in Refreshes, RefreshSteps(f)
      PROVE  UNCHANGED <<req, ver, users, commits>>
    BY ZenonT(60), <1>4
    DEF RefreshSteps, RefreshStep, RefreshArrives, CheckSession, RotateToken,
        DeleteReused, RevokeReused
<1>5. ASSUME NEW l \in Logouts, LogoutSteps(l)
      PROVE  UNCHANGED <<req, ver, users, commits>>
    BY ZenonT(60), <1>5 DEF LogoutSteps, LogoutStep, LogoutArrives, LogoutDeletes, LogoutRevokes
<1>6. CASE UNCHANGED vars
    BY <1>6, LoginUnchanged DEF vars
<1> QED
    BY <1>1, <1>2, <1>3, <1>4, <1>5, <1>6, LoginUnchanged DEF Next, Terminating

\* Nothing has arrived and nothing is stored.
LEMMA LoginInvInit == Init => LoginInv
<1> SUFFICES ASSUME Init PROVE LoginInv
    OBVIOUS
<1>1. users = {} /\ commits = {} /\ \A q \in OTPRequests : req[q].pc = "idle" /\ req[q].phone = None
    BY DEF Init, UserInit, HistoryInit, RequestInit
<1> QED
    BY <1>1 DEF LoginInv

\* LoginInv holds of the service: it is inductive together with IInv.
THEOREM LoginInvariant == Spec => []LoginInv
<1>1. Init => TypeOK /\ CallInv /\ AccountInv /\ LoginInv
    BY TypeInit, CallInit, AccountInit, LoginInvInit
<1> QED
    BY <1>1, TypeStep, AccountStep, LoginStep, PTL DEF Spec

-----------------------------------------------------------------------------

\* The four components of the abstract state.
RequestedPhones == [q \in OTPRequests |-> req[q].phone]
PendingCodes == [p \in Phones |-> IF otp[p].status = "pending" THEN otp[p].mac ELSE None]
PhoneUsers == [p \in Phones |-> {row.user_id : row \in
                  {x \in RegisteredUsers : x.phone_number = p}}]
OpenedSessions == {[code |-> c.otp, login |-> c.session, account |-> AccountOf(c.user)] :
                      c \in commits}

\* They are what the refinement mapping substitutes, so a step that leaves them alone
\* maps to a stuttering step.
LEMMA Stutters ==
    ASSUME UNCHANGED <<RequestedPhones, PendingCodes, PhoneUsers, OpenedSessions>>
    PROVE  UNCHANGED Abstract!loginVars
BY ZenonT(60) DEF Abstract!loginVars, RequestedPhones, PendingCodes, PhoneUsers, OpenedSessions

\* When the users and the commits stay, so do the abstract users and sessions.
LEMMA AccountsStay ==
    ASSUME UNCHANGED <<users, commits>>
    PROVE  UNCHANGED <<PhoneUsers, OpenedSessions>>
BY DEF PhoneUsers, OpenedSessions, RegisteredUsers, AccountOf

\* When no OTP changes its status or its MAC, the pending codes stay.
LEMMA CodesStay ==
    ASSUME \A p \in Phones : otp'[p].mac = otp[p].mac /\ otp'[p].status = otp[p].status
    PROVE  UNCHANGED PendingCodes
BY DEF PendingCodes

\* Empty tables are the initial state of the abstract login.
LEMMA InitMaps == Init => Abstract!LoginInit
<1> SUFFICES ASSUME Init PROVE Abstract!LoginInit
    OBVIOUS
<1>1. RequestedPhones = [q \in OTPRequests |-> None]
    BY DEF Init, RequestInit, RequestedPhones
<1>2. PendingCodes = [p \in Phones |-> None]
    BY DEF Init, OTPInit, AbsentOTP, PendingCodes
<1>3. PhoneUsers = [p \in Phones |-> {}]
    BY DEF Init, UserInit, RegisteredUsers, PhoneUsers
<1>4. OpenedSessions = {}
    BY DEF Init, HistoryInit, OpenedSessions
<1> QED
    BY <1>1, <1>2, <1>3, <1>4
    DEF Abstract!LoginInit, RequestedPhones, PendingCodes, PhoneUsers, OpenedSessions

\* RequestOTP: the arrival is Request, the conditional put is Issue, the rest stutters.
LEMMA RequestMaps ==
    ASSUME TypeOK, AccountInv, LoginInv, NEW q \in OTPRequests, RequestSteps(q)
    PROVE  Abstract!LoginNext \/ UNCHANGED Abstract!loginVars
<1>1. UNCHANGED <<PhoneUsers, OpenedSessions>>
    BY AccountsStay DEF RequestSteps, userVars, historyVars
<1>2. CASE UNCHANGED otp /\ req'[q].phone = req[q].phone
  <2>1. UNCHANGED RequestedPhones
    BY <1>2, RequestPhones DEF RequestedPhones, AccountInv
  <2>2. UNCHANGED PendingCodes
    BY <1>2, CodesStay
  <2> QED
    BY <1>1, <2>1, <2>2, Stutters
<1>3. ASSUME UNCHANGED otp, req[q].phone = None, NEW p \in Phones, req'[q].phone = p
      PROVE  Abstract!LoginNext
  <2>1. RequestedPhones' = [RequestedPhones EXCEPT ![q] = p]
    BY ZenonT(60), <1>3, RequestPhones DEF RequestedPhones, AccountInv
  <2>2. RequestedPhones[q] = None
    BY <1>3 DEF RequestedPhones
  <2>3. UNCHANGED PendingCodes
    BY <1>3, CodesStay
  <2>4. Abstract!Request(q, p)
    BY ZenonT(60), <1>1, <2>1, <2>2, <2>3
    DEF Abstract!Request, RequestedPhones, PendingCodes, PhoneUsers, OpenedSessions
  <2> QED
    BY <2>4 DEF Abstract!LoginNext
<1>4. ASSUME req[q].pc = "create", NEW e, PutOTP(req[q].phone, q, e), ~UNCHANGED otp,
             NEW p, p = req[q].phone
      PROVE  Abstract!LoginNext
  <2>1. p \in Phones
    BY <1>4 DEF LoginInv
  <2>2. UNCHANGED RequestedPhones /\ RequestedPhones[q] = p
    BY <1>4, RequestPhones DEF RequestedPhones, AccountInv
  <2>3. PendingCodes' = [PendingCodes EXCEPT ![p] = q]
    BY ZenonT(60), <1>4, <2>1 DEF PendingCodes, PutOTP, TypeOK, OTPTypeOK
  <2>4. \A c \in commits : c.otp # q
    BY <1>4 DEF AccountInv, CommitInv, OTPInv, CodesDelivered
  <2>5. ASSUME NEW o \in OpenedSessions PROVE o.code # q
    <3>1. PICK c \in commits :
            o = [code |-> c.otp, login |-> c.session, account |-> AccountOf(c.user)]
        BY ZenonT(60) DEF OpenedSessions
    <3>2. o.code = c.otp
        BY <3>1
    <3> QED
        BY <2>4, <3>2
  <2>6. Abstract!Issue(q, p)
    BY ZenonT(60), <1>1, <2>2, <2>3, <2>5
    DEF Abstract!Issue, RequestedPhones, PendingCodes, PhoneUsers, OpenedSessions
  <2> QED
    BY <2>1, <2>6 DEF Abstract!LoginNext
<1> QED
    BY <1>2, <1>3, <1>4, RequestEffects, RequestPhones DEF AccountInv

\* The accounts of sessions that are open never change: the table only gains rows.
LEMMA OpenedGrow ==
    ASSUME TypeOK, TypeOK', AccountInv, LoginInv, LoginInv', users \subseteq users',
           NEW d \in Commit, commits' = commits \cup {d},
           NEW p \in Phones, [user_id |-> d.user, phone_number |-> p] \in users'
    PROVE  OpenedSessions' =
             OpenedSessions \cup {[code |-> d.otp, login |-> d.session, account |-> p]}
<1>1. ASSUME NEW c \in commits
      PROVE  AccountOf(c.user)' = AccountOf(c.user)
  <2> DEFINE a == req[c.otp].phone
  <2>1. [user_id |-> c.user, phone_number |-> a] \in users
    BY DEF AccountInv, OTPOpensOwnAccount
  <2>2. a \in Phones
    BY <2>1 DEF TypeOK, UserTypeOK, UserRow
  <2> HIDE DEF a
  <2>3. AccountOf(c.user) = a
    BY <2>1, <2>2, AccountDetermined DEF AccountOf, LoginInv
  <2>4. (CHOOSE x \in Phones : [user_id |-> c.user, phone_number |-> x] \in users') = a
    BY <2>1, <2>2, AccountDetermined DEF LoginInv
  <2>5. AccountOf(c.user)' = a
    BY <2>4 DEF AccountOf
  <2> QED
    BY <2>3, <2>5
<1>2. (CHOOSE x \in Phones : [user_id |-> d.user, phone_number |-> x] \in users') = p
    BY AccountDetermined DEF LoginInv
<1>3. AccountOf(d.user)' = p
    BY <1>2 DEF AccountOf
<1> QED
    BY <1>1, <1>3 DEF OpenedSessions

\* The transaction that spends the OTP of p in call r is Spend.
LEMMA SpendMaps ==
    ASSUME TypeOK, TypeOK', CallInv, AccountInv, LoginInv, LoginInv',
           NEW r \in Verifications, VerifySteps(r), ver[r].pc \in Matched,
           NEW p, p = ver[r].phone, NEW u, UNCHANGED req,
           OTPVerifyCond(p, ver[r].mac, ver[r].exp), MarkVerified(p),
           commits' = commits \cup {[otp |-> ver[r].mac, session |-> r, user |-> u]},
           users \subseteq users', [user_id |-> u, phone_number |-> p] \in users'
    PROVE  p \in Phones /\ Abstract!Spend(p, r)
<1> DEFINE m == ver[r].mac
           d == [otp |-> m, session |-> r, user |-> u]
<1>1. p \in Phones /\ m \in OTPRequests /\ m # None
    BY ZenonT(60), IdentityAssumption DEF CallInv, VerifyCallOK, Matched
<1>2. otp[p].status = "pending" /\ otp[p].mac = m
    BY DEF OTPVerifyCond
<1>3. PendingCodes[p] = m
    BY <1>1, <1>2 DEF PendingCodes
<1>4. PendingCodes' = [PendingCodes EXCEPT ![p] = None]
  <2>1. \A x \in Phones : x # p => otp'[x] = otp[x]
    BY DEF MarkVerified, TypeOK, OTPTypeOK
  <2>2. otp'[p].status = "verified"
    BY <1>1 DEF MarkVerified, TypeOK, OTPTypeOK, OTPItem
  <2> QED
    BY ZenonT(60), <1>1, <2>1, <2>2 DEF PendingCodes
<1>5. d.otp = m /\ d.session = r /\ d.user = u /\ commits' = commits \cup {d}
    OBVIOUS
<1>6. d \in Commit
  <2>1. d \in commits'
    BY <1>5
  <2> QED
    BY <2>1 DEF TypeOK, HistoryTypeOK
<1> HIDE DEF d, m
<1>7. OpenedSessions' = OpenedSessions \cup {[code |-> m, login |-> r, account |-> p]}
    BY <1>1, <1>5, <1>6, OpenedGrow
<1>8. \A c \in commits : c.session # r
    BY CommitReturns DEF LoginInv
<1>9. \A o \in OpenedSessions : o.login # r
  <2>1. ASSUME NEW o \in OpenedSessions PROVE \E c \in commits : o.login = c.session
    <3>1. PICK c \in commits :
            o = [code |-> c.otp, login |-> c.session, account |-> AccountOf(c.user)]
        BY ZenonT(60) DEF OpenedSessions
    <3> QED
        BY <3>1
  <2> QED
    BY ZenonT(60), <1>8, <2>1
<1>10. UNCHANGED RequestedPhones
    BY DEF RequestedPhones
<1> QED
    BY ZenonT(60), <1>1, <1>3, <1>4, <1>7, <1>9, <1>10
    DEF Abstract!Spend, RequestedPhones, PendingCodes, PhoneUsers, OpenedSessions

\* VerifyOTP: verifyOTPNewUser is Register, createLoginSession is Login, the rest stutters.
LEMMA VerifyMaps ==
    ASSUME TypeOK, TypeOK', CallInv, AccountInv, LoginInv, LoginInv',
           NEW r \in Verifications, VerifySteps(r)
    PROVE  Abstract!LoginNext \/ UNCHANGED Abstract!loginVars
<1>1. UNCHANGED req
    BY VerifyStores
<1>2. PICK p : p = ver[r].phone
    OBVIOUS
<1>3. CASE /\ UNCHANGED <<users, commits>>
           /\ UNCHANGED otp \/ \E x : IncrementAttempts(x)
  <2>1. \A x \in Phones : otp'[x].mac = otp[x].mac /\ otp'[x].status = otp[x].status
    BY <1>3 DEF IncrementAttempts, TypeOK, OTPTypeOK, OTPItem
  <2>2. UNCHANGED RequestedPhones
    BY <1>1 DEF RequestedPhones
  <2> QED
    BY <1>3, <2>1, <2>2, AccountsStay, CodesStay, Stutters
<1>4. CASE ver[r].pc = "register" /\ VerifyOTPAndCreateUser(
                r, ver[r].phone, ver[r].mac, ver[r].exp, ver[r].device, ver[r].at)
  <2> DEFINE u == NewUserID(r)
             new == [user_id |-> u, phone_number |-> p]
             mark == [user_id |-> SentinelID(p), phone_number |-> p]
  <2>1. /\ OTPVerifyCond(p, ver[r].mac, ver[r].exp) /\ MarkVerified(p)
        /\ commits' = commits \cup {[otp |-> ver[r].mac, session |-> r, user |-> u]}
        /\ users' = users \cup {new, mark}
        /\ UserIDFree(u) /\ SentinelFree(p)
    BY ZenonT(60), <1>2, <1>4 DEF VerifyOTPAndCreateUser, CreateUserCond
  <2>2. p \in Phones /\ Abstract!Spend(p, r)
    BY ZenonT(60), <1>1, <1>2, <1>4, <2>1, SpendMaps DEF Matched
  <2>3. \A row \in RegisteredUsers : row.phone_number # p
    BY ZenonT(60), <2>1 DEF AccountInv, UserInv
  <2>4. \A row \in users : row.user_id # u
    BY <2>1 DEF UserIDFree
  <2>5. /\ new.user_id = u /\ new.phone_number = p
        /\ \A x \in Verifications : mark.user_id # NewUserID(x)
    BY DEF NewUserID, SentinelID
  <2>6. u \in UserIDs
    BY DEF UserIDs, NewUserID
  <2>7. \A row : row \in RegisteredUsers' <=> (row \in RegisteredUsers \/ row = new)
    BY <2>1, <2>5 DEF RegisteredUsers
  <2> HIDE DEF u, new, mark
  <2>8. PhoneUsers[p] = {} /\ \A x \in Phones : u \notin PhoneUsers[x]
    BY <2>2, <2>3, <2>4 DEF PhoneUsers, RegisteredUsers
  <2>9. PhoneUsers' = [PhoneUsers EXCEPT ![p] = {u}]
    <3>1. \A x \in Phones : x # p =>
            {row \in RegisteredUsers' : row.phone_number = x}
                = {row \in RegisteredUsers : row.phone_number = x}
        BY <2>5, <2>7
    <3>2. {row \in RegisteredUsers' : row.phone_number = p} = {new}
        BY <2>3, <2>5, <2>7
    <3>3. {row.user_id : row \in {new}} = {u}
        BY <2>5
    <3> QED
        BY ZenonT(60), <2>2, <3>1, <3>2, <3>3 DEF PhoneUsers
  <2>10. Abstract!Register(p, r, u)
    BY <2>2, <2>8, <2>9 DEF Abstract!Register, PhoneUsers
  <2> QED
    BY <2>2, <2>6, <2>10 DEF Abstract!LoginNext, u, NewUserID
<1>5. CASE ver[r].pc = "login" /\ VerifyOTPAndCreateSession(
                r, ver[r].phone, ver[r].mac, ver[r].exp, ver[r].user, ver[r].device, ver[r].at)
  <2> DEFINE row == [user_id |-> ver[r].user, phone_number |-> p]
  <2>1. /\ OTPVerifyCond(p, ver[r].mac, ver[r].exp) /\ MarkVerified(p)
        /\ commits' = commits \cup {[otp |-> ver[r].mac, session |-> r, user |-> ver[r].user]}
        /\ UNCHANGED users
    BY <1>2, <1>5 DEF VerifyOTPAndCreateSession, CreateSessionCond
  <2>2. row \in users /\ row.phone_number = p
    BY <1>2, <1>5 DEF AccountInv, UserInv, Identified
  <2>3. p \in Phones /\ Abstract!Spend(p, r)
    BY ZenonT(60), <1>1, <1>2, <1>5, <2>1, <2>2, SpendMaps DEF Matched
  <2> HIDE DEF row
  <2>4. PhoneUsers[p] # {}
    <3>1. PICK reg \in RegisteredUsers : reg.phone_number = p
        BY ZenonT(60), <2>2 DEF LoginInv
    <3>2. reg.user_id \in PhoneUsers[p]
        BY ZenonT(60), <2>3, <3>1 DEF PhoneUsers
    <3> QED
        BY <3>2
  <2>5. UNCHANGED PhoneUsers
    BY <2>1 DEF PhoneUsers, RegisteredUsers
  <2>6. Abstract!Login(p, r)
    BY <2>3, <2>4, <2>5 DEF Abstract!Login, PhoneUsers
  <2> QED
    BY <2>3, <2>6 DEF Abstract!LoginNext
<1> QED
    BY <1>3, <1>4, <1>5, VerifyStores

\* The TTL deletion of an OTP is Lapse; nothing else the tables do by themselves shows.
LEMMA EnvironmentMaps ==
    ASSUME TypeOK, TimePasses \/ TableMaintenance
    PROVE  Abstract!LoginNext \/ UNCHANGED Abstract!loginVars
<1>1. UNCHANGED <<users, commits, req>>
    BY DEF TimePasses, TableMaintenance, ExpireSessionItem, PropagateUser, PropagateSession,
        tableVars, userVars, sessionVars, historyVars
<1>2. UNCHANGED <<RequestedPhones, PhoneUsers, OpenedSessions>>
    BY <1>1, AccountsStay DEF RequestedPhones
<1>3. CASE UNCHANGED otp
    BY <1>2, <1>3, CodesStay, Stutters
<1>4. CASE \E p \in Phones : ExpireOTPItem(p)
  <2>1. PICK p \in Phones : ExpireOTPItem(p)
    BY <1>4
  <2>2. PendingCodes' = [PendingCodes EXCEPT ![p] = None]
    <3>1. \A x \in Phones : x # p => otp'[x] = otp[x]
        BY <2>1 DEF ExpireOTPItem, TypeOK, OTPTypeOK
    <3>2. otp'[p].status # "pending"
        BY <2>1 DEF ExpireOTPItem, TypeOK, OTPTypeOK, AbsentOTP
    <3> QED
        BY ZenonT(60), <3>1, <3>2 DEF PendingCodes
  <2>3. Abstract!Lapse(p)
    BY ZenonT(60), <1>2, <2>2
    DEF Abstract!Lapse, RequestedPhones, PendingCodes, PhoneUsers, OpenedSessions
  <2> QED
    BY <2>3 DEF Abstract!LoginNext
<1> QED
    BY <1>3, <1>4 DEF TimePasses, TableMaintenance, tableVars

\* RefreshTokens and Logout change nothing the abstract login shows.
LEMMA SessionCallMaps ==
    ASSUME UNCHANGED <<otp, users, commits, req>>
    PROVE  UNCHANGED Abstract!loginVars
BY AccountsStay, CodesStay, Stutters DEF RequestedPhones

\* Every step of the service is a step of the abstract login, or changes nothing of it.
LEMMA StepMaps ==
    TypeOK /\ TypeOK' /\ CallInv /\ AccountInv /\ LoginInv /\ LoginInv' /\ [Next]_vars
        => [Abstract!LoginNext]_(Abstract!loginVars)
<1> SUFFICES ASSUME TypeOK, TypeOK', CallInv, AccountInv, LoginInv, LoginInv', [Next]_vars
             PROVE  Abstract!LoginNext \/ UNCHANGED Abstract!loginVars
    OBVIOUS
<1>1. CASE TimePasses \/ TableMaintenance
    BY <1>1, EnvironmentMaps
<1>2. ASSUME NEW q \in OTPRequests, RequestSteps(q)
      PROVE  Abstract!LoginNext \/ UNCHANGED Abstract!loginVars
    BY <1>2, RequestMaps
<1>3. ASSUME NEW r \in Verifications, VerifySteps(r)
      PROVE  Abstract!LoginNext \/ UNCHANGED Abstract!loginVars
    BY <1>3, VerifyMaps
<1>4. ASSUME NEW f \in Refreshes, RefreshSteps(f)
      PROVE  UNCHANGED Abstract!loginVars
  <2>1. UNCHANGED <<otp, users, commits, req>>
    BY ZenonT(60), <1>4
    DEF RefreshSteps, RefreshStep, RefreshArrives, CheckSession, RotateToken,
        DeleteReused, RevokeReused, tableVars, userVars, sessionVars, historyVars, limiterVars
  <2> QED
    BY <2>1, SessionCallMaps
<1>5. ASSUME NEW l \in Logouts, LogoutSteps(l)
      PROVE  UNCHANGED Abstract!loginVars
  <2>1. UNCHANGED <<otp, users, commits, req>>
    BY ZenonT(60), <1>5
    DEF LogoutSteps, LogoutStep, LogoutArrives, LogoutDeletes, LogoutRevokes,
        tableVars, userVars, sessionVars, historyVars, limiterVars
  <2> QED
    BY <2>1, SessionCallMaps
<1>6. CASE UNCHANGED vars
    BY <1>6, SessionCallMaps DEF vars, tableVars, userVars, historyVars
<1> QED
    BY <1>1, <1>2, <1>3, <1>4, <1>5, <1>6 DEF Next, Terminating

\* RequestOTP and VerifyOTP implement the abstract login for any number of phones, calls
\* and faults: a code is pending on one phone, and is spent in one step that opens one
\* session of that phone's account.
THEOREM Refinement == Spec => ImplementsOneTimeLogin
<1>1. IInv => TypeOK /\ CallInv /\ AccountInv
    BY DEF IInv, AccountInv
<1>2. TypeOK /\ CallInv /\ AccountInv /\ LoginInv
        /\ (TypeOK /\ CallInv /\ AccountInv /\ LoginInv)' /\ [Next]_vars
        => [Abstract!LoginNext]_(Abstract!loginVars)
    BY StepMaps
<1> QED
    BY <1>1, <1>2, InitMaps, InductiveInvariant, LoginInvariant, PTL
    DEF Spec, ImplementsOneTimeLogin, Abstract!LoginSpec
=============================================================================
