------------------------------ MODULE CepRace ------------------------------
(***************************************************************************)
(* desafio2/main.go: main starts buscaBrasilAPI and buscaViaCep on one     *)
(* unbuffered channel and selects on the first Resultado or the 1 s        *)
(* context deadline; the process exits when main returns.                  *)
(***************************************************************************)
EXTENDS Sequences

CONSTANTS
    Cep,           \* the CEP main looks up
    KnownCeps,     \* the CEPs the lookup services know addresses for
    APIs           \* {"BrasilAPI", "ViaCEP"}

\* The CEP each lookup asks its service for: buscaBrasilAPI formats its URL
\* as ".../cep/v1/01153000%s", so it asks for "01153000" followed by cep.
LookupCep(api) == IF api = "BrasilAPI" THEN "01153000" \o Cep ELSE Cep

\* What a service can answer: the address of a CEP it knows, a JSON error
\* body for one it does not (status 404 or 400; json.Unmarshal accepts it
\* and leaves every field empty), a body
\* that is not JSON, or a transport error.  A service may also not answer
\* before the deadline.
Replies(api) ==
    {"malformed", "netError"}
      \cup (IF LookupCep(api) \in KnownCeps THEN {"address"} ELSE {"notFound"})

VARIABLES
    lookup,     \* each goroutine: "requesting", "sending", "gone"
    result,     \* the Resultado it will send: [err, cep] (cep "" for an empty Endereco)
    expired,    \* the context deadline has passed
    printed     \* what main printed: "none", then "address", "apiError" or "timeout"

vars == <<lookup, result, expired, printed>>

Resultados == [err : BOOLEAN, cep : KnownCeps \cup {""}]

TypeOK ==
    /\ lookup \in [APIs -> {"requesting", "sending", "gone"}]
    /\ result \in [APIs -> Resultados]
    /\ expired \in BOOLEAN
    /\ printed \in {"none", "address", "apiError", "timeout"}

Init ==
    /\ lookup = [a \in APIs |-> "requesting"]
    /\ result = [a \in APIs |-> [err |-> FALSE, cep |-> ""]]
    /\ expired = FALSE
    /\ printed = "none"

Running == printed = "none"

\* http.DefaultClient.Do returns, then io.ReadAll and json.Unmarshal; the
\* status code is not checked.  After the deadline Do returns the context
\* error.
Fetch(api) ==
    /\ Running
    /\ lookup[api] = "requesting"
    /\ \E reply \in IF expired THEN {"netError"} ELSE Replies(api) :
         result' = [result EXCEPT ![api] =
                      [err |-> reply \in {"malformed", "netError"},
                       cep |-> IF reply = "address" THEN LookupCep(api) ELSE ""]]
    /\ lookup' = [lookup EXCEPT ![api] = "sending"]
    /\ UNCHANGED <<expired, printed>>

\* ch <- Resultado meets main's select: main prints the error or the address
\* and returns.
Receive(api) ==
    /\ Running
    /\ lookup[api] = "sending"
    /\ lookup' = [lookup EXCEPT ![api] = "gone"]
    /\ printed' = IF result[api].err THEN "apiError" ELSE "address"
    /\ UNCHANGED <<result, expired>>

\* The 1 s deadline of context.WithTimeout passes.
Deadline ==
    /\ Running
    /\ ~expired
    /\ expired' = TRUE
    /\ UNCHANGED <<lookup, result, printed>>

\* case <-ctx.Done(): main prints the timeout message and returns.
Timeout ==
    /\ Running
    /\ expired
    /\ printed' = "timeout"
    /\ UNCHANGED <<lookup, result, expired>>

Next ==
    \/ \E api \in APIs : Fetch(api) \/ Receive(api)
    \/ Deadline
    \/ Timeout

\* A service need not answer; everything else runs.
Spec ==
    /\ Init /\ [][Next]_vars
    /\ \A api \in APIs : WF_vars(Receive(api))
    /\ WF_vars(Deadline) /\ WF_vars(Timeout)

-----------------------------------------------------------------------------
(* Properties.                                                             *)

\* When main prints "Resposta da API" it prints the address of the CEP it
\* looked up: the winning Resultado carries that CEP's Endereco.
PrintedAddressIsRequested ==
    printed = "address" =>
        \E api \in APIs : lookup[api] = "gone" /\ result[api].cep = Cep
=============================================================================
