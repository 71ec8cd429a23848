CONSTANTS
    Phones = {p1}
    IPs = {a1}
    Devices = {d1, d2}
    OTPRequests = {q1, q2, q3}
    Verifications = {r1, r2, r3}
    Refreshes = {f1}
    Logouts = {}
    None = None
    Faults = {}
    MaxRetries = 1
    IndexLag = TRUE
    OTPRequestRateLimitPerPhone = 4
    OTPRequestRateLimitPerIP = 4
    OTPRateLimitWindow = 4
    OTPValidityDuration = 1
    MaxOTPVerifyAttempts = 4
    OTPLockoutDuration = 4
    AccessTokenLifetime = 1
    RefreshTokenLifetime = 1
    MaxSessionsPerUser = 1
    TicksPerSecond = 1
    MaxTime = 1
    p1 = p1
    a1 = a1
    d1 = d1
    d2 = d2
    q1 = q1
    q2 = q2
    r1 = r1
    r2 = r2
SPECIFICATION CountLoginSpec
SYMMETRY LaterCallSymmetry
INVARIANTS EvictionInv SessionLimit OneSessionPerDevice
