---------------------------- MODULE StressLabGCR ----------------------------
(***************************************************************************)
(* The load tester (StressTest) pointed at labGCR's /weather?cep=...: the  *)
(* --url is fixed for the whole run, so every request asks for the same    *)
(* CEP; each GET a worker sends is served by labGCR's handler, whose       *)
(* upstream calls may each succeed or fail, or fails itself (connection   *)
(* error, or the tester's 10 s client timeout, which labGCR's two 5 s      *)
(* calls can reach).  The tester's actions are StressTest's; its Get is   *)
(* narrowed to the statuses labGCR answers.                               *)
(***************************************************************************)
EXTENDS StressTest, LabGCR

CONSTANTS
    CEPs,           \* CEPs the --url may carry
    NotFoundForms,  \* the body ViaCEP sends for an unknown CEP
    UpstreamErrors  \* failing answers of the upstream APIs

ASSUME CEPs \subseteq CEPKinds
ASSUME NotFoundForms \subseteq {"erroBool", "erroString"}
ASSUME {422, 404, 200, 500} \subseteq Codes

ViaCEPReplies(cep) ==
    (IF cep = "known" THEN {"found"} ELSE NotFoundForms) \cup UpstreamErrors

WeatherReplies == {"ok"} \cup UpstreamErrors

VARIABLES
    cep,       \* the CEP of --url
    apiKeySet  \* labGCR was started with WEATHER_API_KEY set

lvars == <<vars, cep, apiKeySet>>

LTypeOK ==
    /\ TypeOK
    /\ cep \in CEPs
    /\ apiKeySet \in BOOLEAN

\* labGCR's main reads WEATHER_API_KEY and starts even when it is empty.
LInit ==
    /\ Init
    /\ cep \in CEPs
    /\ apiKeySet \in BOOLEAN

\* client.Get(url) against labGCR: an error, or the handler's status for
\* the upstream replies this request meets.
ServerGet(w) ==
    /\ Get(w)
    /\ \/ outcome'[w] = NoResponse
       \/ \E via \in ViaCEPReplies(cep), wea \in WeatherReplies :
            outcome'[w] = ServeHTTP("GET", cep, apiKeySet, via, wea)
    /\ UNCHANGED <<cep, apiKeySet>>

Fixed == UNCHANGED <<cep, apiKeySet>>

LNext ==
    \/ (Produce \/ Close \/ Report \/ Finished) /\ Fixed
    \/ \E w \in Workers :
         \/ (Receive(w) \/ Exit(w) \/ Count(w) \/ Record(w)) /\ Fixed
         \/ ServerGet(w)

LSpec ==
    /\ LInit /\ [][LNext]_lvars
    /\ WF_lvars(Produce \/ Close)
    /\ \A w \in Workers :
         WF_lvars(Receive(w) \/ Exit(w) \/ ServerGet(w) \/ Count(w) \/ Record(w))
    /\ WF_lvars(Report)

-----------------------------------------------------------------------------
(* Properties.                                                             *)

\* Every status the tester's report prints is one labGCR can give for the
\* --url's CEP and its WEATHER_API_KEY setting: 422 for every request and
\* nothing else when the CEP is not eight digits, 404 only for a CEP ViaCEP
\* does not know, and 200 only for a known CEP with the key set (main does
\* not refuse an empty key; CurrentTempC must then fail before calling
\* WeatherAPI, and the report shows only 500s and errors).
ReportStatusesExplained ==
    mainPc = "report" =>
        LET shown == DOMAIN printed IN
        /\ ~IsValidCEP(cep) => shown \subseteq {422}
        /\ IsValidCEP(cep)  => 422 \notin shown
        /\ 404 \in shown    => cep = "unknown"
        /\ 200 \in shown    => cep = "known" /\ apiKeySet
=============================================================================
