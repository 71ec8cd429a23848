CONSTANTS
    Phones = {p1}
    IPs = {a1}
    Devices = {d1, d2}
    OTPRequests = {q1, q2}
    Verifications = {r1, r2}
    Refreshes = {f1, f2}
    Logouts = {l1}
    None = None
    Faults = {"redis", "dynamo", "mint"}
    MaxRetries = 1
    IndexLag = FALSE
    OTPRequestRateLimitPerPhone = 2
    OTPRequestRateLimitPerIP = 2
    OTPRateLimitWindow = 4
    OTPValidityDuration = 2
    MaxOTPVerifyAttempts = 2
    OTPLockoutDuration = 4
    AccessTokenLifetime = 2
    RefreshTokenLifetime = 2
    MaxSessionsPerUser = 2
    TicksPerSecond = 1
    MaxTime = 3
    p1 = p1
    a1 = a1
    d1 = d1
    d2 = d2
    q1 = q1
    q2 = q2
    r1 = r1
    r2 = r2
SPECIFICATION LoginSpec
SYMMETRY NewCallSymmetry
INVARIANTS SessionInv OwnerInv LogoutOutlivesToken
PROPERTIES ExchangedTokenRefused GoneForGood EndedByOwner
