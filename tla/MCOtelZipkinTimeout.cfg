\* One request of each valid kind and the rejected ones; the clients'
\* timeouts of the code, 5 s each; ViaCEP's current not-found body.
CONSTANTS
    Requests = {r1}
    Bodies = {"wrongMethod", "unreadable", "badJSON", "invalid", "known", "unknown"}
    TimeoutA = 5
    TimeoutViaCEP = 5
    TimeoutWeather = 5
    NotFoundForms = {"erroString"}
    UpstreamErrors = {"badStatus"}
SPECIFICATION Spec
INVARIANT KnownCEPAnswered200
