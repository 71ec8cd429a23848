----------------------------- MODULE AuthDomain -----------------------------
(***************************************************************************)
(* What every part of the auth service shares: the limits and durations of *)
(* domain/constants.go, the identities that occur, and the wall clock      *)
(* (domain.Clock).  The clock runs in ticks, several to a second: a        *)
(* time.Time keeps the fraction of a second, a stored RFC 3339 string does *)
(* not.  Durations are in ticks.                                           *)
(***************************************************************************)
EXTENDS Naturals

CONSTANTS
    Phones,          \* phone numbers; a phone and its hash are one thing
    IPs,             \* client addresses
    Devices,         \* non-empty device IDs
    OTPRequests,     \* calls of RequestOTP; a call also names the OTP it generates
    Verifications,   \* calls of VerifyOTP; a call also names the user, the session and
                     \* the tokens it generates (random UUIDs and tokens)
    Refreshes,       \* calls of RefreshTokens; a call also names the tokens it generates
    Logouts,         \* calls of Logout
    None,            \* the absent value
    Faults,          \* which dependencies may fail: a subset of AllFaults
    MaxRetries       \* bound: how many requests of a call its client libraries repeat

CONSTANTS
    OTPRequestRateLimitPerPhone, OTPRequestRateLimitPerIP, OTPRateLimitWindow,
    OTPValidityDuration, MaxOTPVerifyAttempts, OTPLockoutDuration,
    AccessTokenLifetime, RefreshTokenLifetime, MaxSessionsPerUser

CONSTANTS
    TicksPerSecond,  \* resolution of time.Time below the stored second
    MaxTime          \* bound: the last tick of a behaviour

AllFaults == {"redis", "dynamo", "mint", "sms"}

ASSUME IdentityAssumption ==
    /\ None \notin Phones \cup Devices \cup OTPRequests \cup Verifications \cup Refreshes
    /\ Verifications \cap Refreshes = {}
    /\ Faults \subseteq AllFaults
    /\ MaxRetries \in Nat

ASSUME LimitAssumption ==
    /\ OTPRequestRateLimitPerPhone \in Nat \ {0}
    /\ OTPRequestRateLimitPerIP \in Nat \ {0}
    /\ OTPRateLimitWindow \in Nat \ {0}
    /\ OTPValidityDuration \in Nat \ {0}
    /\ MaxOTPVerifyAttempts \in Nat \ {0}
    /\ OTPLockoutDuration \in Nat \ {0}
    /\ AccessTokenLifetime \in Nat \ {0}
    /\ RefreshTokenLifetime \in Nat \ {0}
    /\ MaxSessionsPerUser \in Nat \ {0}

ASSUME ClockAssumption ==
    /\ TicksPerSecond \in Nat \ {0}
    /\ MaxTime \in Nat

\* Tokens are named by the call that generates them.
TokenIDs == Verifications \cup Refreshes

\* A request was executed, its reply was lost, and the client library (the AWS SDK,
\* go-redis) sends it again: the call has repeated tries requests before this one.
ReplyLost(fault, tries) == fault \in Faults /\ tries < MaxRetries

VARIABLE now         \* the current tick

\* t.Format(time.RFC3339) and t.Unix(): the second of a tick, its fraction
\* dropped.  Stored strings of this form compare like the numbers.
RFC3339(t) == t \div TicksPerSecond

\* now.After(time.Parse(time.RFC3339, s)): a reading t lies strictly after the
\* first instant of the stored second s.
After(t, s) == t > s * TicksPerSecond

ClockInit == now = 0

Tick ==
    /\ now < MaxTime
    /\ now' = now + 1
=============================================================================
