----------------------------- MODULE QuoteServer -----------------------------
(***************************************************************************)
(* desafio1: server.go serves GET /cotacao.  Its handler fetches the       *)
(* USD-BRL quote from economia.awesomeapi.com.br under a 200 ms context,   *)
(* then inserts it into the SQLite table cotacoes under a fresh 10 ms      *)
(* context and answers 200 with the quote's JSON, or 500 on either error.  *)
(* client.go asks for /cotacao once, decodes the body and writes           *)
(* "Dólar: {{.Bid}}" to cotacao.txt.                                       *)
(*                                                                         *)
(* Each client run makes one request and net/http serves each request on   *)
(* its own goroutine, so the handlers of concurrent clients interleave.    *)
(* The inserts share SQLite's single write lock: an insert that waits for  *)
(* it, or holds it, when its 10 ms deadline passes is interrupted and      *)
(* rolled back (database/sql checks the context before the call, and       *)
(* go-sqlite3 interrupts a statement still running at the deadline).      *)
(* The server process may crash and be started again: the table is kept,  *)
(* the requests in flight are reset.  A quote is a model value; the empty  *)
(* bid is "".                                                              *)
(***************************************************************************)
EXTENDS Naturals

CONSTANTS
    Clients,     \* client runs, one request each
    Quotes,      \* bids the upstream API may publish
    Upstream,    \* what buscaCotacao may get: quotes, "errorBody", "failure"
    MaxCrashes,  \* how many times the server process may crash
    NoResponse,  \* Do has not returned
    Reset        \* Do returned an error: the connection closed unanswered

ASSUME Upstream \subseteq Quotes \cup {"errorBody", "failure"}

NoQuote == "none"     \* a handler that has not fetched a quote
EmptyBid == ""        \* the Bid of a zero Cotacao
NoHolder == "nobody"  \* the write lock is free
NoFile == "nofile"    \* cotacao.txt does not exist

Bids == Quotes \cup {EmptyBid}

\* The columns of cotacoes the model tells apart: which request inserted
\* the row and its bid.
Rows == [req : Clients, bid : Bids]

\* buscaCotacao's decoding of a JSON body: a quote's bid, or the empty
\* USDBRL of a JSON error body.
Decoded(reply) == IF reply = "errorBody" THEN EmptyBid ELSE reply

Responses == [status : {200}, bid : Bids] \cup [status : {500}]

VARIABLES
    srv,      \* each request's handler: "idle", "fetching", "inserting", "answering", "done"
    quote,    \* the bid the handler fetched
    lock,     \* the handler whose insert holds SQLite's write lock
    table,    \* the rows of cotacoes: [req, bid]
    resp,     \* what the client's Do returned
    cli,      \* each client: "start", "waiting", "written", "panicked"
    file,     \* the bid cotacao.txt shows
    crashes

vars == <<srv, quote, lock, table, resp, cli, file, crashes>>

TypeOK ==
    /\ srv \in [Clients -> {"idle", "fetching", "inserting", "answering", "done"}]
    /\ quote \in [Clients -> Bids \cup {NoQuote}]
    /\ lock \in Clients \cup {NoHolder}
    /\ table \subseteq Rows
    /\ resp \in [Clients -> Responses \cup {NoResponse, Reset}]
    /\ cli \in [Clients -> {"start", "waiting", "written", "panicked"}]
    /\ file \in Bids \cup {NoFile}
    /\ crashes \in 0..MaxCrashes

\* main: setupCotacoesDatabase creates the empty table; no client has run.
Init ==
    /\ srv = [c \in Clients |-> "idle"]
    /\ quote = [c \in Clients |-> NoQuote]
    /\ lock = NoHolder
    /\ table = {}
    /\ resp = [c \in Clients |-> NoResponse]
    /\ cli = [c \in Clients |-> "start"]
    /\ file = NoFile
    /\ crashes = 0

\* client.go: NewRequestWithContext and http.DefaultClient.Do send the
\* request; the server's handler starts buscaCotacao.
Send(c) ==
    /\ cli[c] = "start"
    /\ cli' = [cli EXCEPT ![c] = "waiting"]
    /\ srv' = [srv EXCEPT ![c] = "fetching"]
    /\ UNCHANGED <<quote, lock, table, resp, file, crashes>>

Answer(c, r) ==
    /\ srv' = [srv EXCEPT ![c] = "done"]
    /\ resp' = [resp EXCEPT ![c] = r]

\* Mutant: no return after the 500, so the handler goes on to insert the
\* nil quote.
FetchReturnsMissingReturn(c) ==
    /\ srv[c] = "fetching"
    /\ \E reply \in Upstream :
         IF reply = "failure"
         THEN /\ srv' = [srv EXCEPT ![c] = "inserting"]
              /\ resp' = [resp EXCEPT ![c] = [status |-> 500]]
              /\ quote' = [quote EXCEPT ![c] = "nil"]
         ELSE /\ srv' = [srv EXCEPT ![c] = "inserting"]
              /\ quote' = [quote EXCEPT ![c] = Decoded(reply)]
              /\ UNCHANGED resp
    /\ UNCHANGED <<lock, table, cli, file, crashes>>

\* buscaCotacao returns.  A transport error, the 200 ms deadline or a body
\* that is not JSON is an error and the handler answers 500.  The status
\* code is not checked: an error body in JSON (a quota or unknown-coin
\* answer) decodes into a Cotacao with an empty USDBRL.
FetchReturns(c) ==
    /\ srv[c] = "fetching"
    /\ \E reply \in Upstream :
         IF reply = "failure"
         THEN Answer(c, [status |-> 500]) /\ UNCHANGED quote
         ELSE /\ srv' = [srv EXCEPT ![c] = "inserting"]
              /\ quote' = [quote EXCEPT ![c] = Decoded(reply)]
              /\ UNCHANGED resp
    /\ UNCHANGED <<lock, table, cli, file, crashes>>

\* registrarCotacao's INSERT gets SQLite's write lock.
AcquireLock(c) ==
    /\ srv[c] = "inserting"
    /\ lock = NoHolder
    /\ lock' = c
    /\ UNCHANGED <<srv, quote, table, resp, cli, file, crashes>>

\* The INSERT commits and releases the lock; ExecContext returns no error.
Commit(c) ==
    /\ srv[c] = "inserting"
    /\ lock = c
    /\ table' = table \cup {[req |-> c, bid |-> quote[c]]}
    /\ lock' = NoHolder
    /\ srv' = [srv EXCEPT ![c] = "answering"]
    /\ UNCHANGED <<quote, resp, cli, file, crashes>>

\* Mutant: the error of registrarCotacao is not checked.
InsertDeadlineIgnoresError(c) ==
    /\ srv[c] = "inserting"
    /\ lock' = IF lock = c THEN NoHolder ELSE lock
    /\ Answer(c, [status |-> 200, bid |-> quote[c]])
    /\ UNCHANGED <<quote, table, cli, file, crashes>>

\* The 10 ms context of registrarCotacao expires while the INSERT waits for
\* the lock or runs: it is rolled back, ExecContext returns the context
\* error and the handler answers 500.
InsertDeadline(c) ==
    /\ srv[c] = "inserting"
    /\ lock' = IF lock = c THEN NoHolder ELSE lock
    /\ Answer(c, [status |-> 500])
    /\ UNCHANGED <<quote, table, cli, file, crashes>>

\* The handler writes 200 and encodes cotacao.USDBRL.
Respond(c) ==
    /\ srv[c] = "answering"
    /\ Answer(c, [status |-> 200, bid |-> quote[c]])
    /\ UNCHANGED <<quote, lock, table, cli, file, crashes>>

InFlight(c) == srv[c] \in {"fetching", "inserting", "answering"}

\* The server process dies and is started again: committed rows stay in
\* cotacoes.db, an uncommitted INSERT is rolled back with its lock, and
\* every request in flight has its connection closed.
Crash ==
    /\ crashes < MaxCrashes
    /\ crashes' = crashes + 1
    /\ srv' = [c \in Clients |-> IF InFlight(c) THEN "done" ELSE srv[c]]
    /\ resp' = [c \in Clients |-> IF InFlight(c) THEN Reset ELSE resp[c]]
    /\ lock' = NoHolder
    /\ UNCHANGED <<quote, table, cli, file>>

\* client.go: Do returns.  An error panics.  Otherwise the body is read and
\* json.Unmarshal's error is ignored (a 500 has an empty body, which leaves
\* Bid empty); the status is not checked; os.Create and the template write
\* "Dólar: " and the bid to cotacao.txt.
Receive(c) ==
    /\ cli[c] = "waiting"
    /\ resp[c] # NoResponse
    /\ IF resp[c] = Reset
       THEN cli' = [cli EXCEPT ![c] = "panicked"] /\ UNCHANGED file
       ELSE /\ cli' = [cli EXCEPT ![c] = "written"]
            /\ file' = IF resp[c].status = 200 THEN resp[c].bid ELSE EmptyBid
    /\ UNCHANGED <<srv, quote, lock, table, resp, crashes>>

Done ==
    /\ \A c \in Clients : cli[c] \in {"written", "panicked"}
    /\ UNCHANGED vars

Next ==
    \/ \E c \in Clients :
         \/ Send(c) \/ FetchReturns(c) \/ AcquireLock(c) \/ Commit(c)
         \/ InsertDeadline(c) \/ Respond(c) \/ Receive(c)
    \/ Crash
    \/ Done

Spec ==
    /\ Init /\ [][Next]_vars
    /\ \A c \in Clients : WF_vars(FetchReturns(c) \/ Commit(c) \/ InsertDeadline(c) \/ Respond(c))
    /\ \A c \in Clients : WF_vars(Receive(c))

-----------------------------------------------------------------------------
(* Properties.                                                             *)

\* A request the server answered 200 has its row in cotacoes, and one it
\* answered 500 has none: registrarCotacao's 10 ms deadline, which can
\* pass while the INSERT waits behind a concurrent request's INSERT or
\* while it runs, rolls the row back exactly when the handler reports the
\* error.
AnsweredIffStored ==
    \A c \in Clients :
        resp[c] \in Responses =>
            (resp[c].status = 200 <=> \E row \in table : row.req = c)

\* cotacao.txt only ever shows a bid the upstream API published and the
\* server stored: client.go writes the file whatever the server answered.
FileShowsStoredQuote ==
    file # NoFile => file \in {row.bid : row \in table} \cap Quotes
=============================================================================
