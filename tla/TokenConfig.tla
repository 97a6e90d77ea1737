---------------------------- MODULE TokenConfig ----------------------------
(***************************************************************************)
(* config.Load (RateLimiter/internal/config/config.go): the limiter's      *)
(* settings from the environment.  A string is a sequence of one-character *)
(* strings; an environment is a function from variable names to strings,  *)
(* a variable outside its domain being unset (os.Getenv returns "").       *)
(***************************************************************************)
EXTENDS Integers, Sequences
LOCAL INSTANCE SequencesExt

Digits == "0" :> 0 @@ "1" :> 1 @@ "2" :> 2 @@ "3" :> 3 @@ "4" :> 4
          @@ "5" :> 5 @@ "6" :> 6 @@ "7" :> 7 @@ "8" :> 8 @@ "9" :> 9

\* unicode.IsSpace over the characters the inputs use.
Space == {" ", "\t", "\n"}

RECURSIVE DecimalValue(_)
DecimalValue(ds) ==
    IF ds = <<>> THEN 0 ELSE 10 * DecimalValue(Front(ds)) + Digits[Last(ds)]

\* strconv.Atoi: an optional sign, then one or more decimal digits and
\* nothing else.
Atoi(s) ==
    LET signed == s # <<>> /\ s[1] \in {"+", "-"}
        ds == IF signed THEN Tail(s) ELSE s
        ok == ds # <<>> /\ \A i \in 1..Len(ds) : ds[i] \in DOMAIN Digits
        v == IF ok THEN DecimalValue(ds) ELSE 0
    IN [ok |-> ok, val |-> IF signed /\ s[1] = "-" THEN -v ELSE v]

\* strings.Split(s, sep) for a one-character sep: never empty, "" gives <<"">>.
RECURSIVE Split(_, _)
Split(s, sep) ==
    LET i == SelectInSeq(s, LAMBDA c : c = sep)
    IN IF i = 0 THEN <<s>>
       ELSE <<SubSeq(s, 1, i - 1)>> \o Split(SubSeq(s, i + 1, Len(s)), sep)

\* strings.TrimSpace.
TrimSpace(s) ==
    LET first == SelectInSeq(s, LAMBDA c : c \notin Space)
        last == SelectLastInSeq(s, LAMBDA c : c \notin Space)
    IN IF first = 0 THEN <<>> ELSE SubSeq(s, first, last)

NoLimits == [name \in {} |-> [RPS |-> 0, BlockTime |-> 0]]

\* Mutant: the entry is split without TrimSpace.
AddTokenLimitNoTrim(limits, token) ==
    LET parts == Split(token, ":")
    IN IF Len(parts) # 3 \/ ~Atoi(parts[2]).ok \/ ~Atoi(parts[3]).ok THEN limits
       ELSE parts[1] :> [RPS |-> Atoi(parts[2]).val, BlockTime |-> Atoi(parts[3]).val]
              @@ limits

\* One iteration of parseTokenLimits' loop: an entry that is not three
\* ":"-separated fields with integer RPS and block time is skipped; a later
\* entry for the same token replaces an earlier one.
AddTokenLimit(limits, token) ==
    LET parts == Split(TrimSpace(token), ":")
    IN IF Len(parts) # 3 \/ ~Atoi(parts[2]).ok \/ ~Atoi(parts[3]).ok THEN limits
       ELSE parts[1] :> [RPS |-> Atoi(parts[2]).val, BlockTime |-> Atoi(parts[3]).val]
              @@ limits

\* parseTokenLimits: "token:rps:block,token:rps:block,...".
ParseTokenLimits(tokens) ==
    IF tokens = <<>> THEN NoLimits
    ELSE FoldLeft(AddTokenLimit, NoLimits, Split(tokens, ","))

\* getEnv.
GetEnv(env, key, default) ==
    IF key \in DOMAIN env /\ env[key] # <<>> THEN env[key] ELSE default

\* getEnvAsInt: the default when unset or not an integer.
GetEnvAsInt(env, key, default) ==
    IF ~(key \in DOMAIN env /\ env[key] # <<>>) THEN default
    ELSE IF Atoi(env[key]).ok THEN Atoi(env[key]).val ELSE default

\* Load, limiter part (the Redis and server settings are connection strings).
Load(env) ==
    [IPRateLimit |-> GetEnvAsInt(env, "RATE_LIMIT_IP_RPS", 5),
     IPBlockTime |-> GetEnvAsInt(env, "RATE_LIMIT_IP_BLOCK_TIME", 300),
     TokenRateLimits |-> ParseTokenLimits(GetEnv(env, "RATE_LIMIT_TOKENS", <<>>))]
=============================================================================
