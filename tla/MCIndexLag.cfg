CONSTANTS
    Phones = {p1, p2}
    IPs = {a1}
    Devices = {d1}
    OTPRequests = {q1, q2}
    Verifications = {r1, r2}
    Refreshes = {}
    Logouts = {}
    None = None
    Faults = {"dynamo", "mint", "sms"}
    MaxRetries = 1
    IndexLag = TRUE
    OTPRequestRateLimitPerPhone = 2
    OTPRequestRateLimitPerIP = 2
    OTPRateLimitWindow = 4
    OTPValidityDuration = 2
    MaxOTPVerifyAttempts = 2
    OTPLockoutDuration = 4
    AccessTokenLifetime = 1
    RefreshTokenLifetime = 6
    MaxSessionsPerUser = 1
    TicksPerSecond = 1
    MaxTime = 0
SPECIFICATION Spec
SYMMETRY CallSymmetry
INVARIANTS OneUserPerPhone OTPOpensOwnAccount IInv LoginInv OwnerInv
PROPERTIES ImplementsOneTimeLogin EndedByOwner
