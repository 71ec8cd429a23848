CONSTANTS
    Phones = {p1}
    IPs = {a1}
    Devices = {d1, d2}
    OTPRequests = {q1, q2, q3}
    Verifications = {r1, r2, r3}
    Refreshes = {f1}
    Logouts = {l1}
    None = None
    Faults = {}
    MaxRetries = 1
    IndexLag = FALSE
    OTPRequestRateLimitPerPhone = 4
    OTPRequestRateLimitPerIP = 4
    OTPRateLimitWindow = 4
    OTPValidityDuration = 2
    MaxOTPVerifyAttempts = 4
    OTPLockoutDuration = 4
    AccessTokenLifetime = 1
    RefreshTokenLifetime = 6
    MaxSessionsPerUser = 2
    TicksPerSecond = 1
    MaxTime = 1
    p1 = p1
    a1 = a1
    d1 = d1
    d2 = d2
    q1 = q1
    q2 = q2
    r1 = r1
    r2 = r2
SPECIFICATION LoginFairSpec
PROPERTIES CallsReturn
