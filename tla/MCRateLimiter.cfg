\* Concurrent requests on an address key and a token key; reliable store.
CONSTANTS
    r1 = r1  r2 = r2  r3 = r3  r4 = r4  r5 = r5
    a1 = a1
    Requests <- MCRequests4
    IPs = {a1}
    Tokens <- MCTokens
    NoToken = NoToken
    TokenRateLimits <- MCTokenRateLimits
    IPRateLimit <- MCIPRateLimit
    IPBlockTime <- MCIPBlockTime
    MaxFailures = 0
SPECIFICATION Spec
INVARIANTS TypeOK AdmittedPerWindow CounterHasTTL
PROPERTIES KeyEventuallyFresh
