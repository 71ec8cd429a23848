CONSTANTS
    Phones = {}
    IPs = {a1}
    Devices = {d1}
    OTPRequests = {}
    Verifications = {}
    Refreshes = {}
    Logouts = {}
    None = None
    Faults = {"redis"}
    MaxRetries = 0
    OTPRequestRateLimitPerPhone = 2
    OTPRequestRateLimitPerIP = 2
    OTPRateLimitWindow = 3
    OTPValidityDuration = 1
    MaxOTPVerifyAttempts = 1
    OTPLockoutDuration = 1
    AccessTokenLifetime = 1
    RefreshTokenLifetime = 1
    MaxSessionsPerUser = 1
    TicksPerSecond = 1
    MaxTime = 8
    MaxCalls = 6
SPECIFICATION CallsSpec
INVARIANTS WindowInv AdmittedInAnySpan DenialJustified
