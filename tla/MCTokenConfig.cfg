\* RATE_LIMIT_TOKENS values of one or two entries.
SPECIFICATION Spec
INVARIANT ParseTokenLimitsMatchesReference
