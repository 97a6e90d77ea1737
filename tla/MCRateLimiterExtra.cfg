\* Five requests in flight on one address: admissions while it is blocked.
CONSTANTS
    r1 = r1  r2 = r2  r3 = r3  r4 = r4  r5 = r5
    a1 = a1
    Requests <- MCRequests5
    IPs = {a1}
    Tokens = {}
    NoToken = NoToken
    TokenRateLimits <- MCNoTokenRateLimits
    IPRateLimit <- MCIPRateLimit
    IPBlockTime <- MCIPBlockTime
    MaxFailures = 0
SPECIFICATION Spec
INVARIANTS AtMostOneExtraAdmission
