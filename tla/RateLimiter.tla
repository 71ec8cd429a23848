---------------------------- MODULE RateLimiter ----------------------------
(***************************************************************************)
(* The fixed-window counters and the lockout keys kept in Redis            *)
(* (adapter/redis_ratelimit.go).  A key carries its expiry; once that is   *)
(* reached the key is gone and the next INCR opens a new window.           *)
(***************************************************************************)
EXTENDS AuthDomain

VARIABLES
    counter,   \* per key, the count and the tick at which the key expires
    lockout    \* per phone, the tick at which its lockout key expires

limiterVars == <<counter, lockout>>

\* "otp_req:phone:" + hash, "otp_verify:phone:" + hash, "otp_req:ip:" + address
RequestKey(p) == <<"otp_req:phone", p>>
VerifyKey(p)  == <<"otp_verify:phone", p>>
IPKey(a)      == <<"otp_req:ip", a>>

RateKeys ==
    ({"otp_req:phone", "otp_verify:phone"} \X Phones) \cup ({"otp_req:ip"} \X IPs)

LimiterTypeOK ==
    /\ counter \in [RateKeys -> [n : Nat, until : Nat]]
    /\ lockout \in [Phones -> Nat]

LimiterInit ==
    /\ counter = [k \in RateKeys |-> [n |-> 0, until |-> 0]]
    /\ lockout = [p \in Phones |-> 0]

\* What INCR returns: one more than a live counter, 1 for a missing or expired key.
Incr(k) == IF now < counter[k].until THEN counter[k].n + 1 ELSE 1

\* Mutant: every call renews the EXPIRE.
CheckAndIncrementSlides(k) ==
    counter' = [counter EXCEPT ![k] = [n |-> Incr(k), until |-> now + OTPRateLimitWindow]]

\* rateLimitScript: INCR, and EXPIRE only when the count is 1.
CheckAndIncrement(k) ==
    counter' = [counter EXCEPT ![k] =
        [n     |-> Incr(k),
         until |-> IF Incr(k) = 1 THEN now + OTPRateLimitWindow ELSE @.until]]

\* Mutant: the count before the increment is compared.
AllowedOneMore(k, limit) == Incr(k) - 1 <= limit

\* count <= limit, for the count the increment returns
Allowed(k, limit) == Incr(k) <= limit

\* Redis answers with an error, whether or not the script ran.
LimiterFails(k) ==
    /\ "redis" \in Faults
    /\ UNCHANGED counter \/ CheckAndIncrement(k)

\* EXISTS otp_lockout:phone:hash
CheckLockout(p) == now < lockout[p]

\* SET otp_lockout:phone:hash with a TTL, whether or not the key exists
SetLockout(p) == lockout' = [lockout EXCEPT ![p] = now + OTPLockoutDuration]
=============================================================================
