---------------------------- MODULE MCRateLimiter ----------------------------
(* Instantiates RateLimiter for TLC with the policies config.Load reads    *)
(* from the environment: one caller address, a configured and an          *)
(* unconfigured token, and limits small enough that they are reached and  *)
(* blocks lapse within a few requests and ticks.                           *)
EXTENDS RateLimiter, TokenConfig, TLC

CONSTANTS r1, r2, r3, r4, r5, a1

\* RATE_LIMIT_IP_RPS=1, RATE_LIMIT_IP_BLOCK_TIME=2, RATE_LIMIT_TOKENS=t:2:1.
MCEnv ==
    "RATE_LIMIT_IP_RPS" :> <<"1">> @@ "RATE_LIMIT_IP_BLOCK_TIME" :> <<"2">>
      @@ "RATE_LIMIT_TOKENS" :> <<"t", ":", "2", ":", "1">>

\* The same with RATE_LIMIT_IP_BLOCK_TIME=0, which Load accepts (the ASSUME
\* below): Block then writes a marker without TTL, the behaviour of the
\* mutant ApplyBlockNoTTL.
MCZeroBlockEnv == "RATE_LIMIT_IP_BLOCK_TIME" :> <<"0">> @@ MCEnv

\* The same with RATE_LIMIT_TOKENS unset.
MCNoTokensEnv == "RATE_LIMIT_IP_RPS" :> <<"1">> @@ "RATE_LIMIT_IP_BLOCK_TIME" :> <<"2">>

\* The values config.Load computes from these environments, written out so
\* that TLC evaluates Load once, in the ASSUMEs below.
MCTokenRateLimits == <<"t">> :> [RPS |-> 2, BlockTime |-> 1]
MCIPRateLimit == 1
MCIPBlockTime == 2
MCZeroIPBlockTime == 0
MCNoTokenRateLimits == [t \in {} |-> [RPS |-> 0, BlockTime |-> 0]]

ASSUME Load(MCEnv) = [IPRateLimit |-> MCIPRateLimit, IPBlockTime |-> MCIPBlockTime,
                      TokenRateLimits |-> MCTokenRateLimits]
ASSUME Load(MCZeroBlockEnv).IPBlockTime = MCZeroIPBlockTime
ASSUME Load(MCNoTokensEnv).TokenRateLimits = MCNoTokenRateLimits

\* Callers send the configured token "t" or the unknown token "u", which
\* falls back to the IP policy.
MCTokens == {<<"t">>, <<"u">>}

MCRequests3 == {r1, r2, r3}
MCRequests4 == {r1, r2, r3, r4}
MCRequests5 == {r1, r2, r3, r4, r5}
=============================================================================
