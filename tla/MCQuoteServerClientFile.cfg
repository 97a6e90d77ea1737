\* Two client runs; upstream publishes one quote, answers a JSON error body or fails; no crash.
CONSTANTS
    Clients = {c1, c2}
    Quotes = {q1}
    Upstream = {q1, "errorBody", "failure"}
    MaxCrashes = 0
    NoResponse = NoResponse
    Reset = Reset
SPECIFICATION Spec
INVARIANT FileShowsStoredQuote
