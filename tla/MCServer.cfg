CONSTANTS
    Requests = {c1, c2}
    ShutdownDrainDelay = 1
    ShutdownHTTPTimeout = 1
    ShutdownOTELTimeout = 1
    HandlerTime = 2
    SendTime = 2
SPECIFICATION ServerFairSpec
INVARIANTS ServerIInv OnlyStragglersLoseRedis SMSNotAbandoned BoundedShutdown
PROPERTIES RefusedAfterDrain RunReturns
