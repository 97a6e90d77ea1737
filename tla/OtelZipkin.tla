----------------------------- MODULE OtelZipkin -----------------------------
(***************************************************************************)
(* otelzipkin: service A (cmd/service-a) takes POST /zipcode, validates    *)
(* the CEP and proxies it to service B's POST /weather with an            *)
(* http.Client whose Timeout is 5 s.  Service B (cmd/service-b) asks       *)
(* ViaCEP for the city, then WeatherAPI for its temperature, each through *)
(* its own http.Client with a 5 s Timeout, both under B's r.Context().    *)
(*                                                                         *)
(* Time is a clock of whole seconds.  What an upstream API will answer,   *)
(* and after how many seconds, is chosen when the call starts; a latency  *)
(* equal to the client's Timeout stands for "not before the timeout".     *)
(* Steps other than Tick take no time, and time does not pass while one   *)
(* of them is due.  When A's client gives up it closes the connection and *)
(* B's server cancels r.Context(), which ends B's call in flight (or the  *)
(* next one, whose Do sees the cancelled context) with an error.          *)
(* The JSON bodies and the temperatures are abstracted to the kinds the   *)
(* handlers tell apart.  Tracing (otelhttp, spans) changes no state.      *)
(***************************************************************************)
EXTENDS Naturals

CONSTANTS
    Requests,        \* POST requests end clients send to A
    Bodies,          \* what a request carries: see Rejection and Valid
    TimeoutA,        \* A's http.Client Timeout, seconds
    TimeoutViaCEP,   \* the ViaCEP client's Timeout
    TimeoutWeather,  \* the WeatherAPI client's Timeout
    NotFoundForms,   \* ViaCEP's body for an unknown CEP: "erroString" {"erro": "true"}, "erroBool" {"erro": true}
    UpstreamErrors   \* non-200 answers an upstream may give: {} or {"badStatus"}

ASSUME Bodies \subseteq {"wrongMethod", "unreadable", "badJSON", "invalid", "known", "unknown"}
ASSUME NotFoundForms \subseteq {"erroString", "erroBool"}
ASSUME UpstreamErrors \subseteq {"badStatus"}

NoCall == [reply |-> "none", lat |-> 0]

\* A request whose CEP has eight digits: A proxies it, B looks it up.
Valid(b) == b \in {"known", "unknown"}

\* A's answer to a request it does not proxy (main.go 47-70): not a POST,
\* io.ReadAll failing, json.Unmarshal failing, IsValidCEP false.
Rejection(b) ==
    CASE b = "wrongMethod" -> 405
      [] b = "unreadable"  -> 400
      [] b = "badJSON"     -> 422
      [] b = "invalid"     -> 422

\* What ViaCEP answers for a CEP it knows or does not know.
ViaCEPReplies(b) ==
    (IF b = "known" THEN {"found"} ELSE NotFoundForms) \cup UpstreamErrors

WeatherReplies == {"ok"} \cup UpstreamErrors

\* LookupCity on a reply received in time: a city; ErrZipcodeNotFound when
\* Erro (a string) is set or Localidade is empty; an error when the status
\* is not 200 or the body does not decode into viaCEPResponse (a boolean
\* erro does not decode into its string field).
LookupCity(reply) ==
    CASE reply = "found"      -> "city"
      [] reply = "erroString" -> "notFound"
      [] OTHER                -> "error"

Statuses == {0, 200, 400, 404, 405, 422, 502}

VARIABLES
    body,       \* what each request carries, "none" before it is sent
    aPc,        \* A's handler: "idle", "proxying" (client.Do running), "done"
    aStatus,    \* the status A writes to the end client, 0 before
    aClock,     \* seconds client.Do has been running
    bPc,        \* B's handler: "idle", "viacep", "weather", "done"
    bStatus,    \* the status B writes, 0 before
    cancelled,  \* B's r.Context() is cancelled: A closed the connection
    callClock,  \* seconds B's current upstream call has been running
    via,        \* the ViaCEP call: what it answers and when
    wea         \* the WeatherAPI call: what it answers and when

vars == <<body, aPc, aStatus, aClock, bPc, bStatus, cancelled, callClock, via, wea>>

TypeOK ==
    /\ body \in [Requests -> Bodies \cup {"none"}]
    /\ aPc \in [Requests -> {"idle", "proxying", "done"}]
    /\ aStatus \in [Requests -> Statuses]
    /\ aClock \in [Requests -> 0..TimeoutA]
    /\ bPc \in [Requests -> {"idle", "viacep", "weather", "done"}]
    /\ bStatus \in [Requests -> Statuses]
    /\ cancelled \in [Requests -> BOOLEAN]
    /\ callClock \in [Requests -> 0..TimeoutViaCEP + TimeoutWeather]
    /\ via \in [Requests -> [reply : ViaCEPReplies("known") \cup ViaCEPReplies("unknown") \cup {"none"},
                             lat : 0..TimeoutViaCEP]]
    /\ wea \in [Requests -> [reply : WeatherReplies \cup {"none"}, lat : 0..TimeoutWeather]]

Init ==
    /\ body = [r \in Requests |-> "none"]
    /\ aPc = [r \in Requests |-> "idle"]
    /\ aStatus = [r \in Requests |-> 0]
    /\ aClock = [r \in Requests |-> 0]
    /\ bPc = [r \in Requests |-> "idle"]
    /\ bStatus = [r \in Requests |-> 0]
    /\ cancelled = [r \in Requests |-> FALSE]
    /\ callClock = [r \in Requests |-> 0]
    /\ via = [r \in Requests |-> NoCall]
    /\ wea = [r \in Requests |-> NoCall]

-----------------------------------------------------------------------------
(* Service A.                                                              *)

\* The /zipcode handler runs until client.Do: a request it rejects is
\* answered at once; a valid CEP is marshalled again and sent to B.
ServeA(r) ==
    /\ aPc[r] = "idle"
    /\ \E b \in Bodies :
         /\ body' = [body EXCEPT ![r] = b]
         /\ IF Valid(b)
            THEN /\ aPc' = [aPc EXCEPT ![r] = "proxying"]
                 /\ UNCHANGED aStatus
            ELSE /\ aPc' = [aPc EXCEPT ![r] = "done"]
                 /\ aStatus' = [aStatus EXCEPT ![r] = Rejection(b)]
    /\ UNCHANGED <<aClock, bPc, bStatus, cancelled, callClock, via, wea>>

\* client.Do returns B's response and io.ReadAll its body: A copies the
\* headers, the status and the body.
Relay(r) ==
    /\ aPc[r] = "proxying"
    /\ bPc[r] = "done"
    /\ aPc' = [aPc EXCEPT ![r] = "done"]
    /\ aStatus' = [aStatus EXCEPT ![r] = bStatus[r]]
    /\ UNCHANGED <<body, aClock, bPc, bStatus, cancelled, callClock, via, wea>>

\* The client's 5 s Timeout passes before B's response: Do returns an
\* error, A answers 502, and the transport closes the connection to B.
TimeoutOfA(r) ==
    /\ aPc[r] = "proxying"
    /\ aClock[r] = TimeoutA
    /\ aPc' = [aPc EXCEPT ![r] = "done"]
    /\ aStatus' = [aStatus EXCEPT ![r] = 502]
    /\ cancelled' = [cancelled EXCEPT ![r] = TRUE]
    /\ UNCHANGED <<body, aClock, bPc, bStatus, callClock, via, wea>>

-----------------------------------------------------------------------------
(* Service B.                                                              *)

Finish(r, s) ==
    /\ bPc' = [bPc EXCEPT ![r] = "done"]
    /\ bStatus' = [bStatus EXCEPT ![r] = s]

\* The /weather handler decodes A's body (A marshalled it, so it decodes),
\* IsValidCEP holds (A checked it), and viaCEP.LookupCity starts.
ServeB(r) ==
    /\ aPc[r] = "proxying"
    /\ bPc[r] = "idle"
    /\ bPc' = [bPc EXCEPT ![r] = "viacep"]
    /\ callClock' = [callClock EXCEPT ![r] = 0]
    /\ \E reply \in ViaCEPReplies(body[r]), lat \in 0..TimeoutViaCEP :
         via' = [via EXCEPT ![r] = [reply |-> reply, lat |-> lat]]
    /\ UNCHANGED <<body, aPc, aStatus, aClock, bStatus, cancelled, wea>>

\* LookupCity returns: a city starts weather.GetTemperatureC;
\* ErrZipcodeNotFound is answered 404, any other error 502.
LookupCityReturns(r) ==
    /\ bPc[r] = "viacep"
    /\ ~cancelled[r]
    /\ via[r].lat < TimeoutViaCEP
    /\ callClock[r] = via[r].lat
    /\ CASE LookupCity(via[r].reply) = "city" ->
              /\ bPc' = [bPc EXCEPT ![r] = "weather"]
              /\ callClock' = [callClock EXCEPT ![r] = 0]
              /\ \E reply \in WeatherReplies, lat \in 0..TimeoutWeather :
                   wea' = [wea EXCEPT ![r] = [reply |-> reply, lat |-> lat]]
              /\ UNCHANGED bStatus
         [] LookupCity(via[r].reply) = "notFound" ->
              Finish(r, 404) /\ UNCHANGED <<callClock, wea>>
         [] OTHER ->
              Finish(r, 502) /\ UNCHANGED <<callClock, wea>>
    /\ UNCHANGED <<body, aPc, aStatus, aClock, cancelled, via>>

\* GetTemperatureC returns: a temperature is answered 200 with temp_C,
\* temp_F and temp_K; a non-200 status or a body that does not decode, 502.
GetTemperatureReturns(r) ==
    /\ bPc[r] = "weather"
    /\ ~cancelled[r]
    /\ wea[r].lat < TimeoutWeather
    /\ callClock[r] = wea[r].lat
    /\ Finish(r, IF wea[r].reply = "ok" THEN 200 ELSE 502)
    /\ UNCHANGED <<body, aPc, aStatus, aClock, cancelled, callClock, via, wea>>

CallTimeout(p) == IF p = "viacep" THEN TimeoutViaCEP ELSE TimeoutWeather

\* The upstream call fails: its client's Timeout passes, or r.Context()
\* is cancelled; B answers 502 (to a closed connection if cancelled).
CallFails(r) ==
    /\ bPc[r] \in {"viacep", "weather"}
    /\ cancelled[r] \/ callClock[r] = CallTimeout(bPc[r])
    /\ Finish(r, 502)
    /\ UNCHANGED <<body, aPc, aStatus, aClock, cancelled, callClock, via, wea>>

-----------------------------------------------------------------------------
(* Time.                                                                   *)

\* A step that happens at this instant: time cannot pass before it.
Due(r) ==
    \/ aPc[r] = "proxying" /\ (bPc[r] \in {"idle", "done"} \/ aClock[r] = TimeoutA)
    \/ bPc[r] \in {"viacep", "weather"} /\ cancelled[r]
    \/ bPc[r] = "viacep" /\ callClock[r] \in {via[r].lat, TimeoutViaCEP}
    \/ bPc[r] = "weather" /\ callClock[r] \in {wea[r].lat, TimeoutWeather}

Waiting(r) == aPc[r] = "proxying" \/ bPc[r] \in {"viacep", "weather"}

\* One second passes for every client.Do and upstream call in flight.
Tick ==
    /\ \E r \in Requests : Waiting(r)
    /\ ~\E r \in Requests : Due(r)
    /\ aClock' = [r \in Requests |-> IF aPc[r] = "proxying" THEN aClock[r] + 1 ELSE aClock[r]]
    /\ callClock' = [r \in Requests |->
                       IF bPc[r] \in {"viacep", "weather"} THEN callClock[r] + 1 ELSE callClock[r]]
    /\ UNCHANGED <<body, aPc, aStatus, bPc, bStatus, cancelled, via, wea>>

\* Every request has been answered by A and B is idle or done.
Done ==
    /\ \A r \in Requests : aPc[r] = "done" /\ bPc[r] \in {"idle", "done"}
    /\ UNCHANGED vars

Next ==
    \/ \E r \in Requests :
         \/ ServeA(r) \/ Relay(r) \/ TimeoutOfA(r)
         \/ ServeB(r) \/ LookupCityReturns(r) \/ GetTemperatureReturns(r) \/ CallFails(r)
    \/ Tick
    \/ Done

Spec == Init /\ [][Next]_vars

-----------------------------------------------------------------------------
(* Properties.                                                             *)

\* The end client of a CEP ViaCEP knows gets 200 when ViaCEP and WeatherAPI
\* both answer successfully within their clients' timeouts: B answers 200
\* then, and A relays B's status.  A's 5 s Timeout covers B's two calls
\* one after the other, each allowed 5 s.
KnownCEPAnswered200 ==
    \A r \in Requests :
        /\ aPc[r] = "done"
        /\ via[r].reply = "found" /\ via[r].lat < TimeoutViaCEP
        /\ wea[r].reply = "ok" /\ wea[r].lat < TimeoutWeather
        => aStatus[r] = 200
====
