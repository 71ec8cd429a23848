------------------------------ MODULE MCLogin ------------------------------
(***************************************************************************)
(* Logins to an account that exists: a phone registered by r1 with the OTP *)
(* q1, on device d1 at second 0, for which the OTP q2 was requested at     *)
(* second 1 and, perhaps, used by r2 on device d2.  The index of the users *)
(* has caught up.                                                          *)
(***************************************************************************)
EXTENDS AuthHandler, TLC

CONSTANTS p1, a1, d1, d2, q1, q2, r1, r2

\* The account, when the calls in logins have used it: r1, or r1 and r2.
Account(logins) ==
    LET user    == NewUserID(r1)
        at(x)   == IF x \in {q1, r1} THEN 0 ELSE TicksPerSecond
        sent(q) == [pc |-> "done", phone |-> p1, ip |-> a1, at |-> at(q), tries |-> 0,
                    result |-> "ok", sms |-> "sent"]
    IN
    /\ now = TicksPerSecond
    /\ counter = [k \in RateKeys |->
                    [n |-> IF k = VerifyKey(p1) THEN Cardinality(logins) ELSE 2,
                     until |-> OTPRateLimitWindow]]
    /\ lockout = [p \in Phones |-> 0]
    /\ otp = [p \in Phones |->
                [mac |-> q2, status |-> IF r2 \in logins THEN "verified" ELSE "pending",
                 attempt_count |-> 0, expires_at |-> RFC3339(TicksPerSecond + OTPValidityDuration)]]
    /\ users = {[user_id |-> user, phone_number |-> p1],
                [user_id |-> SentinelID(p1), phone_number |-> p1]}
    /\ phoneIndex = users
    /\ sessions = {NewSession(r, user, IF r = r1 THEN d1 ELSE d2, at(r)) : r \in logins}
    /\ revoked = [k \in RevocationKeys |-> 0]
    /\ commits = {[otp |-> IF r = r1 THEN q1 ELSE q2, session |-> r, user |-> user] : r \in logins}
    /\ guesses = [q \in OTPRequests |-> 0]
    /\ req = [q \in OTPRequests |->
                IF q \in {q1, q2} THEN sent(q)
                ELSE [pc |-> "idle", phone |-> None, ip |-> None, at |-> 0, tries |-> 0,
                      result |-> "none", sms |-> "none"]]
    /\ ver = [r \in Verifications |->
                IF r \in logins THEN [NewCall EXCEPT !.pc = "done", !.result = "ok", !.at = at(r)]
                ELSE NewCall]
    /\ ref = [f \in Refreshes |-> NewRefresh]
    /\ out = [l \in Logouts |-> NewLogout]

\* Both have, and the index of the sessions has caught up too.
LoginInit     == Account({r1, r2}) /\ sessionIndex = sessions
LoginSpec     == LoginInit /\ [][Next]_vars
LoginFairSpec == LoginSpec /\ Fairness

NewCallSymmetry ==
    UNION {Permutations(S) : S \in {OTPRequests \ {q1, q2}, Verifications \ {r1, r2}, Refreshes, Logouts}}
=============================================================================
