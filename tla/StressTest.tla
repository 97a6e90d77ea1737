----------------------------- MODULE StressTest -----------------------------
(***************************************************************************)
(* runStressTest and worker (StressTest/main.go): a producer goroutine     *)
(* puts Requests tokens into a channel of capacity Concurrency and closes  *)
(* it; Concurrency workers range over the channel, issue a GET each, count *)
(* it atomically and record its status code under a mutex or count an     *)
(* error; main waits on the WaitGroup and reads the atomic total.          *)
(***************************************************************************)
EXTENDS Naturals, Functions

CONSTANTS
    Requests,     \* --requests, validated > 0
    Concurrency,  \* --concurrency, validated > 0
    Codes         \* status codes the server under test may answer

ASSUME Requests \in Nat \ {0} /\ Concurrency \in Nat \ {0}

Workers == 1..Concurrency

\* The outcome of a client.Get that returned an error (resp is nil).
NoResponse == 0

ASSUME NoResponse \notin Codes

VARIABLES
    sent,       \* the producer's loop index i
    closed,     \* close(requestChannel) has run
    buffered,   \* tokens in the channel
    wpc,        \* each worker: "recv", "get", "count", "record", "done"
    outcome,    \* the result of a worker's client.Get: a code or NoResponse
    total,      \* totalRequests, updated with atomic.AddInt64
    errors,     \* result.Errors
    statusCodes,\* result.StatusCodes
    waiting,    \* the WaitGroup counter
    mainPc,     \* "wait" in wg.Wait, "report" once it returned
    reported,   \* result.TotalRequests as main read it
    printed     \* the "Status <code>: <count>" lines printReport wrote

vars == <<sent, closed, buffered, wpc, outcome, total, errors, statusCodes,
          waiting, mainPc, reported, printed>>

TypeOK ==
    /\ sent \in 0..Requests
    /\ closed \in BOOLEAN
    /\ buffered \in 0..Concurrency
    /\ wpc \in [Workers -> {"recv", "get", "count", "record", "done"}]
    /\ outcome \in [Workers -> Codes \cup {NoResponse}]
    /\ total \in 0..Requests
    /\ errors \in 0..Requests
    /\ statusCodes \in [Codes -> 0..Requests]
    /\ waiting \in 0..Concurrency
    /\ mainPc \in {"wait", "report"}
    /\ reported \in 0..Requests
    /\ printed \in UNION {[S -> 1..Requests] : S \in SUBSET Codes}

\* main has created the WaitGroup, the channel, the Concurrency workers
\* (wg.Add(1) before each go worker) and the producer, and waits.
Init ==
    /\ sent = 0
    /\ closed = FALSE
    /\ buffered = 0
    /\ wpc = [w \in Workers |-> "recv"]
    /\ outcome = [w \in Workers |-> NoResponse]
    /\ total = 0
    /\ errors = 0
    /\ statusCodes = [c \in Codes |-> 0]
    /\ waiting = Concurrency
    /\ mainPc = "wait"
    /\ reported = 0
    /\ printed = [c \in {} |-> 0]

\* Mutant: the loop runs while i <= config.Requests.
ProduceOneMore ==
    /\ sent <= Requests /\ buffered < Concurrency
    /\ sent' = IF sent < Requests THEN sent + 1 ELSE sent
    /\ buffered' = buffered + 1
    /\ closed' = (sent = Requests)
    /\ UNCHANGED <<wpc, outcome, total, errors, statusCodes, waiting, mainPc, reported, printed>>

\* requestChannel <- struct{}{}: blocks while the buffer is full.
Produce ==
    /\ sent < Requests /\ buffered < Concurrency
    /\ sent' = sent + 1
    /\ buffered' = buffered + 1
    /\ UNCHANGED <<closed, wpc, outcome, total, errors, statusCodes, waiting, mainPc, reported, printed>>

\* close(requestChannel) after the loop.
Close ==
    /\ sent = Requests /\ ~closed
    /\ closed' = TRUE
    /\ UNCHANGED <<sent, buffered, wpc, outcome, total, errors, statusCodes, waiting, mainPc, reported, printed>>

\* for range requestChannel: take a token.
Receive(w) ==
    /\ wpc[w] = "recv" /\ buffered > 0
    /\ buffered' = buffered - 1
    /\ wpc' = [wpc EXCEPT ![w] = "get"]
    /\ UNCHANGED <<sent, closed, outcome, total, errors, statusCodes, waiting, mainPc, reported, printed>>

\* The range ends on the closed, drained channel; the deferred wg.Done runs.
Exit(w) ==
    /\ wpc[w] = "recv" /\ buffered = 0 /\ closed
    /\ wpc' = [wpc EXCEPT ![w] = "done"]
    /\ waiting' = waiting - 1
    /\ UNCHANGED <<sent, closed, buffered, outcome, total, errors, statusCodes, mainPc, reported, printed>>

\* client.Get(url): a status code, or an error (the 10 s client timeout
\* included; redirects are not followed).
Get(w) ==
    /\ wpc[w] = "get"
    /\ \E o \in Codes \cup {NoResponse} : outcome' = [outcome EXCEPT ![w] = o]
    /\ wpc' = [wpc EXCEPT ![w] = "count"]
    /\ UNCHANGED <<sent, closed, buffered, total, errors, statusCodes, waiting, mainPc, reported, printed>>

\* atomic.AddInt64(totalRequests, 1).
Count(w) ==
    /\ wpc[w] = "count"
    /\ total' = total + 1
    /\ wpc' = [wpc EXCEPT ![w] = "record"]
    /\ UNCHANGED <<sent, closed, buffered, outcome, errors, statusCodes, waiting, mainPc, reported, printed>>

\* atomic.AddInt64(&result.Errors, 1), or StatusCodes[code]++ between
\* mu.Lock and mu.Unlock (one step: the mutex excludes other writers).
Record(w) ==
    /\ wpc[w] = "record"
    /\ IF outcome[w] = NoResponse
       THEN errors' = errors + 1 /\ UNCHANGED statusCodes
       ELSE statusCodes' = [statusCodes EXCEPT ![outcome[w]] = @ + 1] /\ UNCHANGED errors
    /\ wpc' = [wpc EXCEPT ![w] = "recv"]
    /\ UNCHANGED <<sent, closed, buffered, outcome, total, waiting, mainPc, reported, printed>>

\* printReport: the Status line of 200, then one for every other code of
\* 100..599 present in the map (a Go map holds only the codes counted).
PrintedCodes(sc) ==
    LET shown == {c \in Codes : sc[c] > 0 /\ (c = 200 \/ c \in 100..599)}
    IN [c \in shown |-> sc[c]]

\* Mutant: main reads the total without waiting for the workers.
ReportWithoutWait ==
    /\ mainPc = "wait"
    /\ mainPc' = "report"
    /\ reported' = total
    /\ printed' = PrintedCodes(statusCodes)
    /\ UNCHANGED <<sent, closed, buffered, wpc, outcome, total, errors, statusCodes, waiting>>

\* wg.Wait returns; result.TotalRequests = atomic.LoadInt64(&totalRequests);
\* main passes the result to printReport.
Report ==
    /\ mainPc = "wait" /\ waiting = 0
    /\ mainPc' = "report"
    /\ reported' = total
    /\ printed' = PrintedCodes(statusCodes)
    /\ UNCHANGED <<sent, closed, buffered, wpc, outcome, total, errors, statusCodes, waiting>>

\* The process exits.
Finished == mainPc = "report" /\ UNCHANGED vars

Next ==
    \/ Produce \/ Close
    \/ \E w \in Workers : Receive(w) \/ Exit(w) \/ Get(w) \/ Count(w) \/ Record(w)
    \/ Report
    \/ Finished

\* Every goroutine that can move is scheduled, and client.Get returns
\* within the client's 10 s timeout.
Spec ==
    /\ Init /\ [][Next]_vars
    /\ WF_vars(Produce \/ Close)
    /\ \A w \in Workers :
         WF_vars(Receive(w) \/ Exit(w) \/ Get(w) \/ Count(w) \/ Record(w))
    /\ WF_vars(Report)

-----------------------------------------------------------------------------
(* Properties.                                                             *)

\* When wg.Wait has returned, the printed report counts every request
\* exactly once: TotalRequests is --requests, and the connection errors
\* and the printed status-code lines add up to it.
ReportAccountsForEveryRequest ==
    mainPc = "report" =>
        /\ reported = Requests
        /\ errors + SumFunction(printed) = reported
=============================================================================
