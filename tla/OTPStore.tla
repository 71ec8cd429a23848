------------------------------ MODULE OTPStore ------------------------------
(***************************************************************************)
(* The otp_requests table (adapter/dynamo_otp.go): one item per phone.     *)
(* The MAC of an OTP is represented by the RequestOTP call that generated  *)
(* it: HMAC over the code, the phone and the expiry, so two OTPs of one    *)
(* phone have different MACs (a repeated six-digit code in the same second *)
(* is ignored).                                                            *)
(***************************************************************************)
EXTENDS AuthDomain

VARIABLE otp       \* the item of each phone

OTPItem == [mac           : OTPRequests \cup {None},
            status        : {"absent", "pending", "verified"},
            expires_at    : Nat,
            attempt_count : Nat]

AbsentOTP ==
    [mac |-> None, status |-> "absent", expires_at |-> 0, attempt_count |-> 0]

OTPTypeOK == otp \in [Phones -> OTPItem]
OTPInit   == otp = [p \in Phones |-> AbsentOTP]

\* Mutant: an OTP may be replaced in the second in which it expires.
OTPReplaceableInLastSecond(item, s) ==
    item.status \in {"absent", "verified"} \/ item.expires_at <= s

\* The condition of CreateOTP: attribute_not_exists(phone_hash) OR
\* #st = :verified OR #ea < :now.  The second s is :now.
OTPReplaceable(item, s) ==
    \/ item.status = "absent"
    \/ item.status = "verified"
    \/ item.expires_at < s

\* The put of CreateOTP: a pending item with no attempts against it.
PutOTP(p, mac, expiresAt) ==
    otp' = [otp EXCEPT ![p] =
        [mac |-> mac, status |-> "pending", expires_at |-> expiresAt, attempt_count |-> 0]]

\* VerifyOTPMAC: the MAC computed from the candidate, the phone and the stored expiry is
\* the stored one, which only the code that was generated for the item achieves.
VerifyOTPMAC(item, code) == code = item.mac

\* Mutant: SET attempt_count = :one.
AttemptsSetToOne(p) ==
    otp' = [otp EXCEPT ![p].attempt_count = 1]

\* SET attempt_count = attempt_count + :one, unconditional: it counts against
\* whatever item the phone has by now, and is rejected when there is none.
IncrementAttempts(p) ==
    otp' = IF otp[p].status = "absent"
             THEN otp
             ELSE [otp EXCEPT ![p].attempt_count = @ + 1]

\* DynamoDB TTL: an item whose ttl (the second of expires_at) has passed is
\* deleted at some later moment.
ExpireOTPItem(p) ==
    /\ otp[p].status # "absent"
    /\ otp[p].expires_at < RFC3339(now)
    /\ otp' = [otp EXCEPT ![p] = AbsentOTP]
=============================================================================
