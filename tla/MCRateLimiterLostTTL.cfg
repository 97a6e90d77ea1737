\* A failed INCR or EXPIRE leaves a counter that never expires.
CONSTANTS
    r1 = r1  r2 = r2  r3 = r3  r4 = r4  r5 = r5
    a1 = a1
    Requests <- MCRequests4
    IPs = {a1}
    Tokens <- MCTokens
    NoToken = NoToken
    TokenRateLimits <- MCTokenRateLimits
    IPRateLimit <- MCIPRateLimit
    IPBlockTime <- MCIPBlockTime
    MaxFailures = 1
SPECIFICATION Spec
INVARIANTS CounterHasTTL
