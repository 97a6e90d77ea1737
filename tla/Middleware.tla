----------------------------- MODULE Middleware -----------------------------
(***************************************************************************)
(* RateLimiterMiddleware.Middleware (internal/middleware/ratelimiter.go)   *)
(* around the admission engine: each request's address comes from          *)
(* extractIP over the caller's headers, its token from API_KEY, and its    *)
(* response from the engine's result.  The engine's steps are those of     *)
(* RateLimiter; this module adds the HTTP side.                            *)
(*                                                                         *)
(* Callers are clients at a TCP address (RemoteAddr) that wait for each    *)
(* response before sending the next request.                               *)
(***************************************************************************)
EXTENDS RateLimiter, Sequences

CONSTANTS
    Clients,        \* TCP peer addresses (the host part of RemoteAddr)
    XFFValues,      \* X-Forwarded-For values a caller may send, split at ","; <<>> if absent
    XRealIPValues,  \* X-Real-IP values a caller may send
    NoHeader        \* an absent X-Real-IP

ASSUME Clients \subseteq IPs
ASSUME \A v \in XFFValues : v \in Seq(IPs)
ASSUME XRealIPValues \subseteq IPs \cup {NoHeader}

VARIABLES
    client,     \* the client that sent each request
    status,     \* HTTP status written for it, 0 before the response
    remHeader,  \* X-RateLimit-Remaining as a sequence of code points, <<>> if unset
    sinceTick   \* history: IP-limited admissions of each client since the last second began

mvars == <<client, status, remHeader, sinceTick>>
allVars == <<vars, mvars>>

\* extractIP: the first X-Forwarded-For entry, else X-Real-IP, else the host
\* of RemoteAddr (which net/http always sets as host:port).
ExtractIP(xff, xRealIP, remote) ==
    IF xff # <<>> THEN Head(xff)
    ELSE IF xRealIP # NoHeader THEN xRealIP
    ELSE remote

\* The request's Remaining: limit - count.
Remaining(r) == Policy(key[r]).RPS - count[r]

\* string(rune(n)): the one-character string whose code point is n.
RuneString(n) == <<n>>

\* strconv.Itoa(n) for n >= 0, as the code points of its decimal digits.
RECURSIVE Decimal(_)
Decimal(n) ==
    IF n < 10 THEN <<48 + n>>
    ELSE Decimal(n \div 10) \o <<48 + (n % 10)>>

InFlight(q) == pc[q] # "idle" /\ status[q] = 0

MInit ==
    /\ Init
    /\ client = [r \in Requests |-> CHOOSE c \in Clients : TRUE]
    /\ status = [r \in Requests |-> 0]
    /\ remHeader = [r \in Requests |-> <<>>]
    /\ sinceTick = [c \in Clients |-> 0]

\* A client sends a request: extractIP, r.Header.Get("API_KEY"), then Allow.
\* The context is context.Background(): nothing cancels the store calls.
ServeHTTP(r) ==
    \E c \in Clients, xff \in XFFValues, xRealIP \in XRealIPValues,
      token \in Tokens \cup {NoToken} :
        /\ ~\E q \in Requests : client[q] = c /\ InFlight(q)
        /\ CheckBlocked(r, ExtractIP(xff, xRealIP, c), token)
        /\ client' = [client EXCEPT ![r] = c]
        /\ UNCHANGED <<status, remHeader, sinceTick>>

\* A step of checkLimit; an admission by the IP policy is counted for the
\* client.
EngineStep(r) ==
    /\ Step(r)
    /\ sinceTick' =
         IF verdict'[r] = "allowed" /\ key[r][1] = "ip"
         THEN [sinceTick EXCEPT ![client[r]] = @ + 1]
         ELSE sinceTick
    /\ UNCHANGED <<client, status, remHeader>>

\* Allow has returned: error -> 500, denied -> 429 with the message,
\* allowed -> X-RateLimit-Remaining set, then the next handler answers 200.
Respond(r) ==
    /\ pc[r] = "done"
    /\ status[r] = 0
    /\ status' = [status EXCEPT ![r] =
                    CASE verdict[r] = "error"   -> 500
                      [] verdict[r] = "denied"  -> 429
                      [] verdict[r] = "allowed" -> 200]
    /\ remHeader' = [remHeader EXCEPT ![r] =
                       IF verdict[r] = "allowed" THEN RuneString(Remaining(r)) ELSE <<>>]
    /\ UNCHANGED <<vars, client, sinceTick>>

\* A second passes on the Redis server.
MTick ==
    /\ Tick
    /\ sinceTick' = [c \in Clients |-> 0]
    /\ UNCHANGED <<client, status, remHeader>>

MNext ==
    \/ \E r \in Requests : ServeHTTP(r) \/ EngineStep(r) \/ Respond(r)
    \/ MTick

MSpec ==
    /\ MInit /\ [][MNext]_allVars
    /\ \A r \in Requests : WF_allVars(EngineStep(r)) /\ WF_allVars(Respond(r))
    /\ WF_allVars(MTick)

-----------------------------------------------------------------------------
(* Properties.                                                             *)

\* A client that sends no configured token and waits for each response is
\* admitted by the IP policy at most IPRateLimit times within one second:
\* the address the middleware limits is the client's own.
ClientBudgetPerSecond ==
    \A c \in Clients : sinceTick[c] <= IPRateLimit

\* The X-RateLimit-Remaining header of an admitted request carries the
\* remaining budget as a decimal number.
HeaderIsDecimal ==
    \A r \in Requests :
        status[r] = 200 => remHeader[r] = Decimal(Remaining(r))
=============================================================================
