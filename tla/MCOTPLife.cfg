CONSTANTS
    Phones = {p1}
    IPs = {a1}
    Devices = {d1}
    OTPRequests = {q1, q2}
    Verifications = {r1, r2}
    Refreshes = {}
    Logouts = {}
    None = None
    Faults = {}
    MaxRetries = 1
    IndexLag = FALSE
    OTPRequestRateLimitPerPhone = 1
    OTPRequestRateLimitPerIP = 2
    OTPRateLimitWindow = 2
    OTPValidityDuration = 2
    MaxOTPVerifyAttempts = 1
    OTPLockoutDuration = 2
    AccessTokenLifetime = 1
    RefreshTokenLifetime = 1
    MaxSessionsPerUser = 1
    TicksPerSecond = 2
    MaxTime = 5
SPECIFICATION Spec
SYMMETRY CallSymmetry
INVARIANTS OTPLifeInv EveryGuessCounted
PROPERTIES AcceptableOTPKept ImplementsOneTimeLogin
