----------------------------- MODULE RateLimiter -----------------------------
(***************************************************************************)
(* The admission engine of src/RateLimiter: RateLimiter.Allow and          *)
(* checkLimit (internal/limiter/limiter.go) executed by concurrent request *)
(* goroutines against the Redis store of internal/storage/redis.go.        *)
(*                                                                         *)
(* Every Redis command is one atomic step; the steps of one checkLimit run *)
(* in the code's order and interleave freely with the steps of other       *)
(* requests and with the passage of time, which expires counters and      *)
(* block markers.  TTLs are kept as remaining ticks (one tick = one        *)
(* second), so the state space has no absolute clock.                      *)
(***************************************************************************)
EXTENDS Integers, FiniteSets

CONSTANTS
    Requests,         \* request goroutines; each evaluates one request
    IPs,              \* caller addresses extractIP may produce
    Tokens,           \* non-empty API_KEY values, configured or not
    NoToken,          \* the empty API_KEY header
    TokenRateLimits,  \* configured token -> [RPS |-> _, BlockTime |-> _]
    IPRateLimit,      \* RATE_LIMIT_IP_RPS
    IPBlockTime,      \* RATE_LIMIT_IP_BLOCK_TIME, in seconds
    MaxFailures       \* bound on store calls that fail

ASSUME DOMAIN TokenRateLimits \subseteq Tokens
ASSUME NoToken \notin Tokens
ASSUME MaxFailures \in Nat

\* A key that carries no expiration (Redis TTL -1).
NoTTL == -1

\* The identity keys "token:<t>" and "ip:<a>"; the prefixes keep them apart,
\* and the "block:" prefix keeps block markers apart from both.
Key == ({"token"} \X Tokens) \cup ({"ip"} \X IPs)

\* NewRateLimiter keeps the IP policy; Allow picks the token policy when the
\* token is non-empty and configured, and the IP policy otherwise.
SelectKey(ip, token) ==
    IF token # NoToken /\ token \in DOMAIN TokenRateLimits
    THEN <<"token", token>>
    ELSE <<"ip", ip>>

Policy(k) ==
    IF k[1] = "token"
    THEN TokenRateLimits[k[2]]
    ELSE [RPS |-> IPRateLimit, BlockTime |-> IPBlockTime]

VARIABLES
    ctr,       \* Redis counter value per key; 0 is an absent key
    ctrTTL,    \* its remaining TTL in ticks, NoTTL if none
    blk,       \* whether "block:<key>" exists
    blkTTL,    \* its remaining TTL, NoTTL if it never expires
    pc,        \* where each request goroutine is in checkLimit
    key,       \* the key its Allow selected
    count,     \* the value its INCR returned
    verdict,   \* "none", "allowed", "denied" or "error"
    failures,  \* store calls failed so far
    epoch,     \* history: incarnations of each key's counter so far
    incOf,     \* history: the counter incarnation a request incremented
    blkEpoch,  \* history: block periods of each key so far
    incBlk     \* history: block period live when a request's INCR ran, 0 if none

store   == <<ctr, ctrTTL, blk, blkTTL>>
local   == <<pc, key, count, verdict>>
history == <<epoch, incOf, blkEpoch, incBlk>>
vars    == <<store, local, failures, history>>

\* The longest block time any policy installs.
MaxBlockTime ==
    LET times == {IPBlockTime} \cup {TokenRateLimits[t].BlockTime : t \in DOMAIN TokenRateLimits}
    IN CHOOSE m \in times : \A b \in times : b <= m

TypeOK ==
    /\ ctr \in [Key -> Nat]
    /\ ctrTTL \in [Key -> {NoTTL, 1}]
    /\ blk \in [Key -> BOOLEAN]
    /\ blkTTL \in [Key -> {NoTTL} \cup 1..MaxBlockTime]
    /\ pc \in [Requests -> {"idle", "incr", "expire", "block", "reset", "done"}]
    /\ key \in [Requests -> Key]
    /\ count \in [Requests -> Nat]
    /\ verdict \in [Requests -> {"none", "allowed", "denied", "error"}]
    /\ failures \in 0..MaxFailures
    /\ epoch \in [Key -> Nat]
    /\ incOf \in [Requests -> Nat]
    /\ blkEpoch \in [Key -> Nat]
    /\ incBlk \in [Requests -> Nat]

Init ==
    /\ ctr = [k \in Key |-> 0]
    /\ ctrTTL = [k \in Key |-> NoTTL]
    /\ blk = [k \in Key |-> FALSE]
    /\ blkTTL = [k \in Key |-> NoTTL]
    /\ pc = [r \in Requests |-> "idle"]
    /\ key = [r \in Requests |-> CHOOSE k \in Key : TRUE]
    /\ count = [r \in Requests |-> 0]
    /\ verdict = [r \in Requests |-> "none"]
    /\ failures = 0
    /\ epoch = [k \in Key |-> 0]
    /\ incOf = [r \in Requests |-> 0]
    /\ blkEpoch = [k \in Key |-> 0]
    /\ incBlk = [r \in Requests |-> 0]

-----------------------------------------------------------------------------
(* Helpers for the request goroutines.                                     *)

\* A store call returns an error (connection loss, timeout); bounded.
StoreFails ==
    /\ failures < MaxFailures
    /\ failures' = failures + 1

\* checkLimit returns to the caller with the given outcome.
Return(r, v) ==
    /\ pc' = [pc EXCEPT ![r] = "done"]
    /\ verdict' = [verdict EXCEPT ![r] = v]

\* checkLimit returns Allowed: true.
Admit(r) == Return(r, "allowed")

Goto(r, to) == pc' = [pc EXCEPT ![r] = to]

-----------------------------------------------------------------------------
\* Mutant: EXISTS on a name Block never writes (a key prefix mismatch).
IsBlockedWrongKey(k) == FALSE

\* IsBlocked: EXISTS block:<key>.
IsBlocked(k) == blk[k]

\* checkLimit's first step for the key and policy Allow selected: IsBlocked.
CheckBlocked(r, ip, token) ==
    LET k == SelectKey(ip, token) IN
    /\ pc[r] = "idle"
    /\ key' = [key EXCEPT ![r] = k]
    /\ \/ /\ StoreFails
          /\ Return(r, "error")
       \/ /\ IsBlocked(k)
          /\ Return(r, "denied")
          /\ UNCHANGED failures
       \/ /\ ~IsBlocked(k)
          /\ Goto(r, "incr")
          /\ UNCHANGED <<verdict, failures>>
    /\ UNCHANGED <<store, count, history>>

\* Allow(ctx, ip, token) for any address and API_KEY a caller may present.
Allow(r) ==
    \E ip \in IPs, token \in Tokens \cup {NoToken} : CheckBlocked(r, ip, token)

\* INCR <key>: creates the counter at 1, without a TTL, when it is absent.
\* A failed INCR may or may not have been applied by the server (a lost
\* reply); either way checkLimit returns the error.
ApplyIncr(k) ==
    /\ ctr' = [ctr EXCEPT ![k] = @ + 1]
    /\ epoch' = IF ctr[k] = 0 THEN [epoch EXCEPT ![k] = @ + 1] ELSE epoch

\* Mutant: the limit is compared with the value read before the increment.
IncrementStaleCount(r) ==
    LET k == key[r]
        n == ctr[k] + 1
    IN
    /\ pc[r] = "incr"
    /\ ApplyIncr(k)
    /\ count' = [count EXCEPT ![r] = n]
    /\ incOf' = [incOf EXCEPT ![r] = epoch'[k]]
    /\ incBlk' = [incBlk EXCEPT ![r] = IF blk[k] THEN blkEpoch[k] ELSE 0]
    /\ \/ /\ n = 1
          /\ Goto(r, "expire")
          /\ UNCHANGED verdict
       \/ /\ n # 1
          /\ ctr[k] > Policy(k).RPS
          /\ Goto(r, "block")
          /\ UNCHANGED verdict
       \/ /\ n # 1
          /\ ctr[k] <= Policy(k).RPS
          /\ Admit(r)
    /\ UNCHANGED <<ctrTTL, blk, blkTTL, key, blkEpoch, failures>>

\* Mutant: the first INCR of a window is not followed by EXPIRE.
IncrementNoExpire(r) ==
    LET k == key[r]
        n == ctr[k] + 1
    IN
    /\ pc[r] = "incr"
    /\ ApplyIncr(k)
    /\ count' = [count EXCEPT ![r] = n]
    /\ incOf' = [incOf EXCEPT ![r] = epoch'[k]]
    /\ incBlk' = [incBlk EXCEPT ![r] = IF blk[k] THEN blkEpoch[k] ELSE 0]
    /\ \/ /\ n > Policy(k).RPS
          /\ Goto(r, "block")
          /\ UNCHANGED verdict
       \/ /\ n <= Policy(k).RPS
          /\ Admit(r)
    /\ UNCHANGED <<ctrTTL, blk, blkTTL, key, blkEpoch, failures>>

Increment(r) ==
    LET k == key[r]
        n == ctr[k] + 1
    IN
    /\ pc[r] = "incr"
    /\ \/ /\ ApplyIncr(k)
          /\ count' = [count EXCEPT ![r] = n]
          /\ incOf' = [incOf EXCEPT ![r] = epoch'[k]]
          /\ incBlk' = [incBlk EXCEPT ![r] = IF blk[k] THEN blkEpoch[k] ELSE 0]
          /\ UNCHANGED failures
          /\ \/ /\ n = 1
                /\ Goto(r, "expire")
                /\ UNCHANGED verdict
             \/ /\ n # 1
                /\ n > Policy(k).RPS
                /\ Goto(r, "block")
                /\ UNCHANGED verdict
             \/ /\ n # 1
                /\ n <= Policy(k).RPS
                /\ Admit(r)
       \/ /\ StoreFails
          /\ \/ ApplyIncr(k)
             \/ UNCHANGED <<ctr, epoch>>
          /\ Return(r, "error")
          /\ UNCHANGED <<count, incOf, incBlk>>
    /\ UNCHANGED <<ctrTTL, blk, blkTTL, key, blkEpoch>>

\* Mutant: the counter is given the block time instead of one second.
SetExpirationBlockTime(r) ==
    LET k == key[r] IN
    /\ pc[r] = "expire"
    /\ ctrTTL' = IF ctr[k] > 0 THEN [ctrTTL EXCEPT ![k] = Policy(k).BlockTime] ELSE ctrTTL
    /\ \/ /\ count[r] > Policy(k).RPS
          /\ Goto(r, "block")
          /\ UNCHANGED verdict
       \/ /\ count[r] <= Policy(k).RPS
          /\ Admit(r)
    /\ UNCHANGED <<ctr, blk, blkTTL, key, count, history, failures>>

\* EXPIRE <key> 1s, issued only after INCR returned 1.  On a key that a
\* concurrent DEL removed it is a no-op without an error.
SetExpiration(r) ==
    LET k == key[r] IN
    /\ pc[r] = "expire"
    /\ \/ /\ ctrTTL' = IF ctr[k] > 0 THEN [ctrTTL EXCEPT ![k] = 1] ELSE ctrTTL
          /\ UNCHANGED failures
          /\ \/ /\ count[r] > Policy(k).RPS
                /\ Goto(r, "block")
                /\ UNCHANGED verdict
             \/ /\ count[r] <= Policy(k).RPS
                /\ Admit(r)
       \/ /\ StoreFails
          /\ UNCHANGED ctrTTL
          /\ Return(r, "error")
    /\ UNCHANGED <<ctr, blk, blkTTL, key, count, history>>

\* Mutant: the block marker is written without an expiration.
ApplyBlockNoTTL(k) ==
    /\ blk' = [blk EXCEPT ![k] = TRUE]
    /\ blkTTL' = [blkTTL EXCEPT ![k] = NoTTL]
    /\ blkEpoch' = IF blk[k] THEN blkEpoch ELSE [blkEpoch EXCEPT ![k] = @ + 1]

\* SET block:<key> "1" with the block time as expiration.  go-redis sends
\* no expiration for a duration <= 0, so such a marker never expires.
ApplyBlock(k) ==
    /\ blk' = [blk EXCEPT ![k] = TRUE]
    /\ blkTTL' = [blkTTL EXCEPT ![k] =
                    IF Policy(k).BlockTime > 0 THEN Policy(k).BlockTime ELSE NoTTL]
    /\ blkEpoch' = IF blk[k] THEN blkEpoch ELSE [blkEpoch EXCEPT ![k] = @ + 1]

Block(r) ==
    LET k == key[r] IN
    /\ pc[r] = "block"
    /\ \/ /\ ApplyBlock(k)
          /\ Goto(r, "reset")
          /\ UNCHANGED <<verdict, failures>>
       \/ /\ StoreFails
          /\ \/ ApplyBlock(k)
             \/ UNCHANGED <<blk, blkTTL, blkEpoch>>
          /\ Return(r, "error")
    /\ UNCHANGED <<ctr, ctrTTL, key, count, epoch, incOf, incBlk>>

\* DEL <key>: the counter and its TTL are gone, whoever created them.
ApplyReset(k) ==
    /\ ctr' = [ctr EXCEPT ![k] = 0]
    /\ ctrTTL' = [ctrTTL EXCEPT ![k] = NoTTL]

Reset(r) ==
    LET k == key[r] IN
    /\ pc[r] = "reset"
    /\ \/ /\ ApplyReset(k)
          /\ Return(r, "denied")
          /\ UNCHANGED failures
       \/ /\ StoreFails
          /\ \/ ApplyReset(k)
             \/ UNCHANGED <<ctr, ctrTTL>>
          /\ Return(r, "error")
    /\ UNCHANGED <<blk, blkTTL, key, count, history>>

-----------------------------------------------------------------------------
(* Redis: one second passes; every TTL counts down and keys reaching 0     *)
(* are deleted.                                                            *)
Countdown(t) == IF t = NoTTL \/ t = 1 THEN NoTTL ELSE t - 1

Tick ==
    /\ ctr' = [k \in Key |-> IF ctrTTL[k] = 1 THEN 0 ELSE ctr[k]]
    /\ ctrTTL' = [k \in Key |-> Countdown(ctrTTL[k])]
    /\ blk' = [k \in Key |-> blk[k] /\ blkTTL[k] # 1]
    /\ blkTTL' = [k \in Key |-> Countdown(blkTTL[k])]
    /\ UNCHANGED <<local, failures, history>>

Step(r) ==
    \/ Increment(r)
    \/ SetExpiration(r)
    \/ Block(r)
    \/ Reset(r)

Next ==
    \/ \E r \in Requests : Allow(r) \/ Step(r)
    \/ Tick

\* Callers need not send requests, but a request in flight is scheduled and
\* every Redis call returns (go-redis read timeouts turn a hang into an
\* error), and time passes.
Fairness ==
    /\ \A r \in Requests : WF_vars(Step(r))
    /\ WF_vars(Tick)

Spec == Init /\ [][Next]_vars /\ Fairness

-----------------------------------------------------------------------------
(* Properties.                                                             *)

\* The fixed-window budget: of the requests whose INCR landed in the same
\* incarnation of a key's counter (from creation to expiry or DEL), at most
\* the policy's RPS are admitted.  Rests on INCR being atomic and on
\* checkLimit comparing the value INCR returned, whatever other requests,
\* blocks, resets and expiries interleave.
AdmittedPerWindow ==
    \A k \in Key : \A e \in 1..epoch[k] :
        Cardinality({r \in Requests : /\ verdict[r] = "allowed"
                                     /\ key[r] = k
                                     /\ incOf[r] = e}) <= Policy(k).RPS

\* Every live counter has the one-second TTL, unless the request whose INCR
\* created it has yet to issue its EXPIRE: a counter never outlives its
\* window, even when a concurrent DEL removes it between INCR and EXPIRE.
CounterHasTTL ==
    \A k \in Key :
        (ctr[k] > 0 /\ ctrTTL[k] = NoTTL) =>
            \E r \in Requests : pc[r] = "expire" /\ key[r] = k

\* Once requests stop, every key returns to the fresh state: its counter
\* expires and its block marker lapses, so no caller stays blocked forever.
KeyEventuallyFresh ==
    <>[](\A k \in Key : ctr[k] = 0 /\ ~blk[k])

\* Spec section 4.2: the race between "over limit" and "blocked" admits at
\* most one extra request.  Counts the requests admitted although their
\* INCR ran while a block period of their key was live.
AtMostOneExtraAdmission ==
    \A k \in Key : \A e \in 1..blkEpoch[k] :
        Cardinality({r \in Requests : /\ verdict[r] = "allowed"
                                     /\ key[r] = k
                                     /\ incBlk[r] = e}) <= 1

=============================================================================
