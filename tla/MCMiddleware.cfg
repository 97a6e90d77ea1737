\* Two clients behind their own addresses, headers not forged; up to two
\* store calls fail, each either applied or not before the error returns.
CONSTANTS
    r1 = r1  r2 = r2  r3 = r3  r4 = r4
    a1 = a1  a2 = a2  t1 = t1
    Requests <- MCRequests3
    IPs = {a1, a2}
    Clients = {a1, a2}
    Tokens = {t1}
    NoToken = NoToken
    NoHeader = NoHeader
    TokenRateLimits <- MCTokenRateLimits
    IPRateLimit = 1
    IPBlockTime = 2
    MaxFailures = 2
    XFFValues <- MCNoXFF
    XRealIPValues = {NoHeader}
SPECIFICATION MSpec
INVARIANTS ClientBudgetPerSecond
