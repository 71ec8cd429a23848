----------------------------- MODULE RequestOTP -----------------------------
(***************************************************************************)
(* AuthService.RequestOTP (app/auth_request_otp.go) and the background SMS *)
(* send it starts.  Each element of OTPRequests is one call.  A step is    *)
(* one call to a store together with the local code that follows it, up to *)
(* and including the arguments (and the clock readings) of the next call.  *)
(***************************************************************************)
EXTENDS RateLimiter, OTPStore

VARIABLE req     \* per call: where it is, its arguments, its clock reading, its result

RequestResults ==
    {"none", "ok", "error", "ErrInvalidPhoneNumber", "ErrUnavailable",
     "ErrPhoneRateLimited", "ErrIPRateLimited", "ErrNotFound"}

Request == [pc     : {"idle", "phone_limit", "ip_limit", "create", "existing", "done"},
            phone  : Phones \cup {None},
            ip     : IPs \cup {None},
            at     : Nat,
            tries  : Nat,
            result : RequestResults,
            sms    : {"none", "sending", "sent", "failed"}]

RequestTypeOK == req \in [OTPRequests -> Request]

RequestInit ==
    req = [q \in OTPRequests |-> [pc |-> "idle", phone |-> None, ip |-> None,
                                  at |-> 0, tries |-> 0, result |-> "none", sms |-> "none"]]

\* The request of this step is repeated: see ReplyLost.
RepeatRequest(q, fault) ==
    ReplyLost(fault, req[q].tries) /\ req' = [req EXCEPT ![q].tries = @ + 1]

RequestReturns(q, result) ==
    req' = [req EXCEPT ![q] = [@ EXCEPT !.pc = "done", !.result = result]]

\* Lines 22-36: the call arrives; a malformed number is refused at once.
RequestArrives(q) ==
    /\ req[q].pc = "idle"
    /\ \/ \E p \in Phones, a \in IPs :
            req' = [req EXCEPT ![q] =
                [@ EXCEPT !.pc = "phone_limit", !.phone = p, !.ip = a]]
       \/ RequestReturns(q, "ErrInvalidPhoneNumber")
    /\ UNCHANGED <<now, limiterVars, otp>>

\* Lines 38-57: the limit per phone.  A Redis error refuses the call, whether
\* or not the script ran.
CheckRequestPhone(q) ==
    LET k == RequestKey(req[q].phone) IN
    /\ req[q].pc = "phone_limit"
    /\ \/ /\ CheckAndIncrement(k)
          /\ \/ /\ Allowed(k, OTPRequestRateLimitPerPhone)
                /\ req' = [req EXCEPT ![q].pc = "ip_limit"]
             \/ /\ ~Allowed(k, OTPRequestRateLimitPerPhone)
                /\ RequestReturns(q, "ErrPhoneRateLimited")
             \/ RepeatRequest(q, "redis")
       \/ LimiterFails(k) /\ RequestReturns(q, "ErrUnavailable")
    /\ UNCHANGED <<now, lockout, otp>>

\* Lines 59-100: the limit per address; a Redis error lets the call pass.  The
\* OTP and its expiry are computed from the clock read here.
CheckRequestIP(q) ==
    LET k    == IPKey(req[q].ip)
        pass == req' = [req EXCEPT ![q] = [@ EXCEPT !.pc = "create", !.at = now]]
    IN
    /\ req[q].pc = "ip_limit"
    /\ \/ /\ CheckAndIncrement(k)
          /\ \/ Allowed(k, OTPRequestRateLimitPerIP) /\ pass
             \/ /\ ~Allowed(k, OTPRequestRateLimitPerIP)
                /\ RequestReturns(q, "ErrIPRateLimited")
             \/ RepeatRequest(q, "redis")
       \/ LimiterFails(k) /\ pass
    /\ UNCHANGED <<now, lockout, otp>>

\* Mutant: the call reads the item back before it sends it.
CreateOTPReadsBack(q) ==
    LET p == req[q].phone IN
    /\ req[q].pc = "create"
    /\ IF OTPReplaceable(otp[p], RFC3339(req[q].at))
         THEN PutOTP(p, q, RFC3339(req[q].at + OTPValidityDuration))
         ELSE UNCHANGED otp
    /\ req' = [req EXCEPT ![q].pc = "existing"]
    /\ UNCHANGED <<now, limiterVars>>

\* Lines 102-148: the conditional put, whose :now is the reading of the previous
\* step.  When it succeeds the SMS goroutine starts and the call returns; when an
\* OTP is active the call goes on to read it.  A DynamoDB error ends the call with
\* the item written or not.  A put that is repeated may find the item of its first
\* execution, and the call then takes its own OTP for an active one.
CreateOTP(q) ==
    LET p   == req[q].phone
        can == OTPReplaceable(otp[p], RFC3339(req[q].at))
        put == can /\ PutOTP(p, q, RFC3339(req[q].at + OTPValidityDuration))
    IN
    /\ req[q].pc = "create"
    /\ \/ /\ put
          /\ \/ req' = [req EXCEPT ![q] =
                    [@ EXCEPT !.pc = "done", !.result = "ok", !.sms = "sending"]]
             \/ RepeatRequest(q, "dynamo")
       \/ /\ ~can
          /\ req' = [req EXCEPT ![q].pc = "existing"]
          /\ UNCHANGED otp
       \/ /\ "dynamo" \in Faults
          /\ UNCHANGED otp \/ put
          /\ RequestReturns(q, "error")
    /\ UNCHANGED <<now, limiterVars>>

\* Lines 104-122: the expiry of the item found is returned, nothing is sent.
\* The item may have been deleted since the put was refused.
ReturnExistingOTP(q) ==
    /\ req[q].pc = "existing"
    /\ \/ otp[req[q].phone].status # "absent" /\ RequestReturns(q, "ok")
       \/ otp[req[q].phone].status = "absent" /\ RequestReturns(q, "ErrNotFound")
       \/ "dynamo" \in Faults /\ RequestReturns(q, "error")
    /\ UNCHANGED <<now, limiterVars, otp>>

\* Lines 134-140: the goroutine; a failed send is only logged.
SendSMS(q) ==
    /\ req[q].sms = "sending"
    /\ \/ req' = [req EXCEPT ![q].sms = "sent"]
       \/ "sms" \in Faults /\ req' = [req EXCEPT ![q].sms = "failed"]
    /\ UNCHANGED <<now, limiterVars, otp>>

RequestStep(q) ==
    \/ RequestArrives(q)
    \/ CheckRequestPhone(q)
    \/ CheckRequestIP(q)
    \/ CreateOTP(q)
    \/ ReturnExistingOTP(q)
    \/ SendSMS(q)

\* The codes that reached a phone: a send that failed may have delivered all the same.
CodesDelivered == {q \in OTPRequests : req[q].sms \in {"sent", "failed"}}

RequestDone(q) == req[q].pc = "done" /\ req[q].sms # "sending"
=============================================================================
