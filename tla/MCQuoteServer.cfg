\* Two concurrent client runs; upstream publishes one quote, answers with a
\* JSON error body or fails; the server process may crash once.
CONSTANTS
    Clients = {c1, c2}
    Quotes = {q1}
    Upstream = {q1, "errorBody", "failure"}
    MaxCrashes = 1
    NoResponse = NoResponse
    Reset = Reset
SPECIFICATION Spec
INVARIANTS TypeOK AnsweredIffStored
