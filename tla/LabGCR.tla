------------------------------- MODULE LabGCR -------------------------------
(***************************************************************************)
(* labGCR: GET /weather?cep=... (internal/httpapi/handler.go) validates    *)
(* the CEP and calls service.GetTemps (internal/app/service.go), which     *)
(* asks ViaCEP for the city and WeatherAPI for its temperature             *)
(* (internal/app/clients.go) through one http.Client with a 5 s Timeout.  *)
(* The handler keeps no state and one request makes its two calls one     *)
(* after the other, so its answer is a function of the request, of        *)
(* whether WEATHER_API_KEY is set, and of the two upstream replies: the    *)
(* operators below.  A reply is the kind of answer the client tells       *)
(* apart; a transport error and the 5 s timeout are "badStatus"-like      *)
(* errors.  The temperatures and the JSON bodies are not modelled.        *)
(***************************************************************************)
EXTENDS Naturals

\* Replies of ViaCEP: "found" (a Localidade), "erroBool" ({"erro": true}),
\* "erroString" ({"erro": "true"}), "badStatus" (not 200, or no answer).
ViaCEPKinds == {"found", "erroBool", "erroString", "badStatus"}

\* Replies of WeatherAPI: "ok" (current.temp_c), "badStatus".
WeatherKinds == {"ok", "badStatus"}

\* The CEP of the query: eight digits that ViaCEP knows or not, or not
\* eight digits.
CEPKinds == {"known", "unknown", "invalid"}

\* isValidCEP: eight characters, all digits.
IsValidCEP(cep) == cep \in {"known", "unknown"}

\* ViaCEPClient.LookupCity: a status other than 200 is an error; the body
\* is decoded into {Localidade string, Erro bool}, which fails for a string
\* erro; Erro or an empty Localidade is ErrCEPNotFound.
LookupCity(reply) ==
    CASE reply = "found"    -> "city"
      [] reply = "erroBool" -> "notFound"
      [] OTHER              -> "error"

\* WeatherAPIClient.CurrentTempC: ErrMissingAPIKey before any call when the
\* key is empty; a status other than 200 is an error.
CurrentTempC(apiKeySet, reply) ==
    CASE ~apiKeySet   -> "missingKey"
      [] reply = "ok" -> "temp"
      [] OTHER        -> "error"

\* Mutant: CurrentTempC's error is not checked, and the zero temperature
\* is converted and returned.
GetTempsIgnoresWeatherError(apiKeySet, via, wea) ==
    IF LookupCity(via) # "city" THEN LookupCity(via) ELSE "temps"

\* service.GetTemps: LookupCity, then CurrentTempC for the city; the first
\* error is returned; otherwise the three temperatures.
GetTemps(apiKeySet, via, wea) ==
    IF LookupCity(via) # "city" THEN LookupCity(via)
    ELSE IF CurrentTempC(apiKeySet, wea) # "temp" THEN CurrentTempC(apiKeySet, wea)
    ELSE "temps"

\* Handler.ServeHTTP: 405 for a method other than GET, 422 for an invalid
\* CEP, 404 for ErrCEPNotFound, 500 for any other error, 200 with the
\* temperatures.
ServeHTTP(method, cep, apiKeySet, via, wea) ==
    CASE method # "GET"      -> 405
      [] ~IsValidCEP(cep)    -> 422
      [] GetTemps(apiKeySet, via, wea) = "notFound" -> 404
      [] GetTemps(apiKeySet, via, wea) = "temps"    -> 200
      [] OTHER               -> 500
=============================================================================
