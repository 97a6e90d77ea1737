# TLA+ models of GOXPRTS

The repository is a set of Go exercises. One of them, `src/RateLimiter`, is
the system that `spec.md` describes: an admission engine that allows or
denies each HTTP request by a per-identity, fixed-window budget kept in
Redis. It is the only part with shared mutable state hit concurrently, and
this project models it first and most deeply. The other exercises are small
services. Each has at most one concurrent or failure-sensitive mechanism, and
the plan below gives each one a small module.

## 1. Inventory

### 1.1 Rate limiter (`src/RateLimiter`)

| Component | Source | State | Operations |
|---|---|---|---|
| Admission engine | `internal/limiter/limiter.go` | none of its own; the policies are fixed at construction (`ipRateLimit`, `ipBlockTime`, `tokenRateLimits`) | `Allow(ip, token)` selects the key and policy; `checkLimit` runs IsBlocked, INCR, EXPIRE if the count is 1, then SET block and DEL if the count is over the limit, and returns a `LimitResult` |
| Counter store | `internal/storage/storage.go`, `redis.go` | in Redis, per key: a counter `<key>` with a TTL, and a marker `block:<key>` with a TTL | `Increment` (INCR), `SetExpiration` (EXPIRE), `IsBlocked` (EXISTS), `Block` (SET with expiration), `Reset` (DEL), `Get` (unused), `Close` |
| Middleware | `internal/middleware/ratelimiter.go` | none | extracts the IP (X-Forwarded-For, X-Real-IP, RemoteAddr) and the `API_KEY` header, calls `Allow`, and maps the result: error to 500, denied to 429, allowed to the next handler with an `X-RateLimit-Remaining` header |
| Configuration | `internal/config/config.go` | the loaded `Config` | `getEnv`, `getEnvAsInt` (default if missing or not a number), `parseTokenLimits("tok:rps:block,...")` |
| Server | `cmd/server/main.go` | none | wiring: config, then Redis, then limiter, then middleware, then mux |

**How the parts interact.** Each HTTP request runs in its own goroutine, and
the middleware calls the engine. The engine has no lock. Every request of
every goroutine shares the Redis state through one client. Each Redis command
is atomic, but `checkLimit` issues up to five commands one after another, and
those of different requests interleave. Redis expires keys on its own clock,
between any two commands.

**What is hard.**
- The block check comes before the INCR. The block and the reset are two
  commands. EXPIRE is a separate command after INCR. So a request can act on
  a state that another request has already changed.
- Any call can fail after the server applied it (a lost reply). The engine
  then returns the error with part of its work done.
- Time matters: the window is the counter's TTL from its first INCR, and a
  block lasts as long as the marker's TTL.
- A zero block time in go-redis means "no expiration".

**What must hold.**
- In one counter window at most RPS requests are admitted (spec §8).
- A counter never outlives its one-second window.
- Every block lapses.
- Requests denied while blocked keep being denied (spec §8).
- The race admits at most one extra request (spec §4.2 and §9).
- A store error is never turned into a verdict (spec §4.1).

### 1.2 The other exercises

| Component | Source | State and concurrency | Correctness |
|---|---|---|---|
| Auction auto-close | `labs-auction-goexpert-master/.../auction/create_auction.go` | a Mongo document per auction (status), and one timer goroutine per auction started after insert; `closeAuctionIfActive` is a conditional update | every inserted auction is eventually Completed, also across restarts and failed updates |
| Load tester | `StressTest/main.go` | a producer goroutine, a channel of capacity `Concurrency`, `Concurrency` workers, a WaitGroup, atomic counters and a map under a mutex | termination; `TotalRequests` = requests sent = errors + sum of the status counts |
| CEP race | `desafio2/main.go` | two lookup goroutines and an unbuffered result channel; main selects on the first result or a 1 s timeout | exactly one outcome is printed; the losing goroutine's send blocks for ever |
| Quote server and client | `desafio1/server.go`, `client.go` | one handler goroutine per request: a 200 ms fetch deadline, then a 10 ms insert deadline; the inserts share SQLite's write lock | a request is answered 200 exactly when its quote was stored; the client's file shows a stored quote |
| Weather by CEP | `labGCR/...` | sequential pipeline: validate, look up the city, get the weather, convert | status mapping 422/404/500/200 |
| Traced CEP services | `otelzipkin/...` | service A validates and proxies to B under a 5 s client timeout; B calls ViaCEP, then WeatherAPI, each under its own 5 s timeout and B's request context | a known CEP whose upstreams answer in time gets 200; A relays B's status |
| Orders service | `desafio3/go-orders-service/...` | stub repository without state | nothing to check by model checking; listed as not modelled |

## 2. Plan

Modules, in order of importance. Each has an `MC` module that instantiates it.

1. **`RateLimiter`** (done in sitting 1). It models the engine and the
   Redis store together, with concurrent requests, TTL expiry and failing
   calls.
2. **`RateLimitWindow`** (open). This would be the abstract specification of
   what the engine promises: an atomic per-key automaton {counting n,
   blocked}. The concurrent engine does not implement it (finding 1 is a
   behaviour it forbids), so it could only be checked with one request in
   flight per key. `AdmittedPerWindow` states the budget the concurrent
   engine keeps.
3. **`Middleware`** (done in sitting 1). It composes `RateLimiter` with
   `extractIP`, the HTTP mapping (500/429/next) and the
   `X-RateLimit-Remaining` conversion. The verdict's `ResetTime` is never
   sent by the middleware, so it is not modelled.
4. **`TokenConfig`** (done in sitting 1). `Load`, `getEnvAsInt` and
   `parseTokenLimits` are operators over character sequences.
   `parseTokenLimits` is checked against a reference definition over
   bounded inputs, and the limiter runs take their policies from `Load`.
5. **`AuctionAutoClose`** (done in sitting 1). It models insert, the timer
   goroutine, the conditional close, failed calls and a process restart.
6. **`StressTest`** (done in sitting 1). It models the producer, the bounded
   channel, the workers and the WaitGroup, with termination and accounting
   checks.
7. **`CepRace`** (done in sitting 1). It models the channel race with a
   timeout.
8. **`QuoteServer`** (done in sitting 2). It composes the desafio1 server
   (a 200 ms fetch deadline, then a 10 ms insert deadline, concurrent
   handlers on one SQLite file, a crash and restart) with its client, which
   ignores the status and the decode error and writes `cotacao.txt`
   regardless.
9. **`AuctionSpec`** (done in sitting 2). It is the abstract auction
   lifecycle; `AuctionAutoClose` is checked to implement it through
   `INSTANCE ... WITH`.
10. **`OtelZipkin`** (done in sitting 3). It composes otelzipkin's service
    A, service B and B's two upstream clients over a clock of seconds, with
    the three 5 s client timeouts and the cancellation of B's request
    context when A gives up.
11. **`LabGCR` and `StressLabGCR`** (done in sitting 4). labGCR's handler
    keeps no state, so `LabGCR` gives its status as operators of the
    request, the `WEATHER_API_KEY` setting and the two upstream replies;
    `StressLabGCR` composes them with the load tester, which is the program
    that calls such a server.

## 3. Modules

### `RateLimiter.tla`: engine and store

**State.** Redis is `ctr`, `ctrTTL`, `blk` and `blkTTL`, per key. A counter
value of 0 stands for an absent key. TTLs are remaining seconds, and
`NoTTL` (-1) means no expiration. Each request goroutine has `pc`, `key`,
`count` and `verdict`. `failures` counts failed store calls. The history
variables `epoch`, `incOf`, `blkEpoch` and `incBlk` number the counter
incarnations and block periods of each key, so the properties can say which
window or block a request's INCR fell in.

**Actions.** Each action is one Redis command together with the Go code
around it:

| Action | Code |
|---|---|
| `Allow(r)` | `Allow` (token then IP precedence, key prefixes) and `checkLimit`'s IsBlocked step |
| `Increment(r)` | INCR, and the `count == 1` / `count > limit` branching, or admission |
| `SetExpiration(r)` | EXPIRE 1 s (a no-op on a key a concurrent DEL removed), then the limit check |
| `Block(r)` | SET `block:<key>` with the block time |
| `Reset(r)` | DEL, then the denied verdict |
| `Tick` | one second passes on the Redis server; TTLs count down and keys at 0 vanish |

Every store call may fail while `failures < MaxFailures`. A failed INCR, SET
or DEL may or may not have been applied, since the server may have executed
it before the reply was lost. `checkLimit` then returns the error.

**Fairness.** `Allow` is not fair, because callers need not send requests.
A request already in flight is weakly fair: its goroutine is scheduled, and
every Redis call returns, since go-redis read timeouts turn a hang into an
error. `Tick` is weakly fair because time passes.

### `MCRateLimiter.tla`

It has request ids `r1`..`r5` and one address `a1`. The policies are those
`Load` computes from the environment `RATE_LIMIT_IP_RPS=1`,
`RATE_LIMIT_IP_BLOCK_TIME=2`, `RATE_LIMIT_TOKENS=t:2:1`. The values are
written out and checked against `Load` by ASSUMEs, so TLC evaluates the
parser once. Callers send the configured token `"t"` (RPS 2, block 1 s) or
the unknown token `"u"`, which falls back to the IP policy (RPS 1, block
2 s).

### `TokenConfig.tla` and `MCTokenConfig.tla`: configuration

`TokenConfig` has no state. It defines `Atoi` (`strconv.Atoi`: an optional
sign and at least one digit), `Split` (`strings.Split` on one character,
RECURSIVE), `TrimSpace`, `AddTokenLimit` (one iteration of the loop of
`parseTokenLimits`), `ParseTokenLimits` (a `FoldLeft` of it), `GetEnv`,
`GetEnvAsInt` and `Load`. Strings are sequences of one-character strings.

`MCTokenConfig` builds every `RATE_LIMIT_TOKENS` value of one or two
entries. An entry has optional blanks before and after it, a name `a` or
`b`, and zero to three `:`-fields. A field is one of `1`, `-1`, `+1` and
`10`, which are integers, or one of ``, `x`, ` 1` and `-`, which are not.
There are 351056 values in all. `Reference` reads the expected limits off
the entries' structure: each name that has a valid entry gets the values of
its last valid one. A state of the run is one input.

### `Middleware.tla`: the HTTP side

It EXTENDS `RateLimiter`. The engine's first step, `CheckBlocked(r, ip,
token)`, is called by `ServeHTTP(r)` with `ip = ExtractIP(xff, xRealIP,
remote)`, so `Allow(r)` of the engine module is replaced by the middleware's
request. New state: `client[r]` (the sender's TCP address), `status[r]`
(0 before the response), `remHeader[r]` (the header as a sequence of code
points) and the history `sinceTick[c]` (IP-policy admissions of client `c`
since the last `Tick`).

| Action | Code |
|---|---|
| `ServeHTTP(r)` | `extractIP`, `Header.Get("API_KEY")`, `Allow` up to its IsBlocked step |
| `EngineStep(r)` | one of the engine's `Step(r)`, counting an IP-policy admission for the client |
| `Respond(r)` | error → 500; denied → 429; allowed → `X-RateLimit-Remaining = string(rune(Remaining))`, then the next handler (200) |
| `MTick` | `Tick`, and the per-second history restarts |

Each client waits for its response before it sends again; concurrency of
requests is already explored in `RateLimiter`, and here it would only hide
the identity question. `Decimal(n)` (RECURSIVE) is `strconv.Itoa`, the
reference the header is compared with. Fairness: `EngineStep` and `Respond`
of a request in flight are weakly fair, as is `MTick`; `ServeHTTP` is not.

`MCMiddleware.tla` has requests `r1`..`r4` (the run uses three), clients
at `a1` and `a2`, a token `t1` (RPS 1, block 1 s), the IP policy RPS 1 with
block 2 s, and the header values: none, or an X-Forwarded-For naming `a2`.
The run lets two store calls fail, so it checks the engine's window budget
under failures as well as the per-client budget.

### `AuctionAutoClose.tla`: auction auto-close

**State.** `status[a]` is the Mongo document's status (`"none"` when
absent). `closer[a]` is the goroutine's position: none, waiting on its
timer, closing, or exited. `wait[a]` is its timer. The history `age[a]`
counts ticks since the auction's `Timestamp`, saturating at `Interval`
(`getAuctionInterval`). `failures` and `restarts` count injected faults.

| Action | Code |
|---|---|
| `CreateAuction(a)` | `InsertOne`: success starts the goroutine (`TriggerAutoClose`, with `WaitDuration` = `time.Until(end)` clamped at 0); a duplicate `_id` is an error; a failed insert may have stored the document and starts nothing |
| `TimerFires(a)` | `<-timer.C` |
| `CloseAuctionIfActive(a)` | conditional `UpdateOne` Active → Completed; a failure (possibly applied) is logged and the goroutine exits |
| `Tick` | time passes: timers count down, auctions age |
| `Restart` | the process restarts; documents survive, goroutines do not |

The caller's `Timestamp` is any time from now to `Interval + 1` ticks ago,
so the clamp at 0 is exercised. Fairness: the goroutine's steps and `Tick`
are weakly fair; `CreateAuction` and `Restart` are not.

### `CepRace.tla`: the CEP lookup race (`desafio2`)

`lookup[api]` is each goroutine (requesting, sending, gone) and
`result[api]` the `Resultado` it will send (error flag and the CEP of its
address, `""` for an empty `Endereco`). `expired` is the context deadline and
`printed` main's output. `Fetch` is `Do` + `ReadAll` + `Unmarshal`, whose reply
comes from `Replies(api)`: a service knows the addresses in `KnownCeps`,
answers any other CEP with a JSON error body, and may also send garbage or
fail. `LookupCep` keeps the URL as the code builds it, so BrasilAPI asks
for `"01153000" \o Cep`. `Receive` is the rendezvous with main's select,
`Deadline` and `Timeout` the other select case. The process stops when main
returns, so the run does not check deadlock.

### `AuctionSpec.tla`: what the auction repository promises

`AuctionSpec` has only `status` and `age`. `Open(a)` stores an auction whose
`Timestamp` lies up to `Interval` ticks in the past, `Complete(a)` closes an
Active auction whose age has reached `Interval`, and `Tick` ages the stored
ones. `Liveness` is weak fairness of `Tick` and of each `Complete(a)`.
`AuctionAutoClose` defines `AbstractAuction == INSTANCE AuctionSpec WITH age
<- AbstractAge`, where `AbstractAge` is 0 for an absent auction: a failed
`InsertOne` that stored nothing changes the model's age but no abstract
state. `ImplementsAuctionSpec` is `AbstractAuction!SafetySpec`, checked as a
temporal property: every step of the repository, faults included, is a step
of `AuctionSpec` or a stutter. `FaultFreeImplementsLiveness` says that in
behaviours with no failed Mongo call and no restart the repository also
implements `Liveness`.

### `QuoteServer.tla`: the quote server and its client (`desafio1`)

`srv[c]` is the handler of client run `c`'s request (idle, fetching,
inserting, answering, done), `quote[c]` the bid it fetched, `lock` the
request whose INSERT holds SQLite's write lock, `table` the rows of
`cotacoes`, `resp[c]` what the client's `Do` returned, `cli[c]` the client
(start, waiting, written, panicked) and `file` the bid `cotacao.txt` shows.
A quote is a model value, the empty bid `""`.

| Action | Code |
|---|---|
| `Send(c)` | client: `NewRequestWithContext`, `Do` |
| `FetchReturns(c)` | handler + `buscaCotacao`: a failure (transport, 200 ms deadline, non-JSON) answers 500; a quote, or a JSON error body decoded into an empty `USDBRL` (`Decoded`), goes on to the insert |
| `AcquireLock(c)` | `registrarCotacao`'s INSERT gets the write lock |
| `Commit(c)` | the INSERT commits; `ExecContext` returns nil |
| `InsertDeadline(c)` | the 10 ms context expires while the INSERT waits or runs: rolled back, 500 |
| `Respond(c)` | 200 and the JSON of `USDBRL` |
| `Receive(c)` | client: a `Do` error panics; otherwise `ReadAll`, `Unmarshal` (error ignored) and the template write `cotacao.txt` |
| `Crash` | the server process dies and restarts: rows stay, the open INSERT rolls back, open requests are reset |

An insert interrupted at its deadline is rolled back and reports the
error; one that finished before the interrupt reports success. Both are
what database/sql and go-sqlite3 do. So the model has no "stored but 500"
outcome. This is an assumption about the driver, whose code is not in the
repository, and `AnsweredIffStored` rests on it. Fairness: the handler's steps and the client's `Receive` are
weakly fair, because every wait in the handler has a deadline. `Send`,
`AcquireLock` and `Crash` are not fair. `Done` is the state in which every
client run has ended.

### `StressTest.tla`: the load tester's worker pool

`sent`, `closed` and `buffered` are the producer's loop and the channel;
`wpc[w]` and `outcome[w]` each worker's position in its `for range` body;
`total`, `errors` and `statusCodes` the shared counters; `waiting` the
WaitGroup; `mainPc` and `reported` main after `wg.Wait`. The `Record` step
updates the map in one step because `result.mu` excludes the other
workers. A failed `client.Get` is `NoResponse`. `Report` also
models `printReport` by the status-code lines it prints (`PrintedCodes`: the
200 line, then every other code of 100..599 in the map). `Finished` is the
process having printed its report, so deadlock checking finds any state in which
some goroutine waits for ever. Every step moves a goroutine forward and the
loop is bounded by `Requests`, so with no deadlock every behaviour ends in
`Finished`.

### `LabGCR.tla` and `StressLabGCR.tla`: labGCR under the load tester

`LabGCR` has no variables. `IsValidCEP`, `LookupCity` (the status check,
the decode into `{Localidade string, Erro bool}`, then `ErrCEPNotFound` for
`Erro` or an empty `Localidade`), `CurrentTempC` (`ErrMissingAPIKey` before
any call when the key is empty), `GetTemps` (the first error wins) and
`ServeHTTP` (405, 422, 404, 500, 200) are the handler, service and clients
of `internal/`. A reply is the kind of answer a client tells apart: a
transport error and the 5 s client timeout behave as a non-200 status.

`StressLabGCR` extends `StressTest` and `LabGCR`. Its new state is the CEP
of `--url` (fixed for the run), whether labGCR was started with
`WEATHER_API_KEY` (`LInit`, from labGCR's `main`, which does not refuse an
empty key). `ServerGet(w)` is `StressTest`'s `Get(w)`
narrowed to what labGCR answers: no response (connection error, or the
tester's 10 s timeout), or `ServeHTTP` for replies of ViaCEP and WeatherAPI
chosen per request. Every other action is `StressTest`'s, leaving the new
variables alone.

### `OtelZipkin.tla`: services A and B (`otelzipkin`)

State per request: what it carries (`body`: a wrong method, an unreadable
body, bad JSON, an invalid CEP, a known or an unknown CEP), A's handler
(`aPc`, `aStatus`, and `aClock`, the seconds `client.Do` has run), B's
handler (`bPc`, `bStatus`, `callClock`), whether B's `r.Context()` is
cancelled, and what each upstream call answers and after how many seconds
(`via`, `wea`), chosen when the call starts.

| Action | Code |
|---|---|
| `ServeA` | service A's `/zipcode` handler up to `client.Do`: 405, 400, 422 (`Rejection`, `IsValidCEP` as `Valid`) or the proxy request |
| `ServeB` | service B's `/weather` handler up to `LookupCity` |
| `LookupCityReturns` | `LookupCity`'s result (`LookupCity`: the status check, the decode into `viaCEPResponse`, `Erro`/`Localidade`), then 404, 502 or the start of `GetTemperatureC` |
| `GetTemperatureReturns` | `GetTemperatureC`'s result, then 200 or 502 |
| `CallFails` | an upstream client's 5 s `Timeout`, or the cancelled request context, ending the call in flight with 502 |
| `Relay` | A copies B's status and body |
| `TimeoutOfA` | A's 5 s `Timeout` fires first: 502, and the connection to B closes |
| `Tick` | one second passes; it waits while any of the above is due |

All steps but `Tick` take no time. `Due` keeps time from passing over a
step that is due, so a timeout fires exactly when its clock reaches it and
an answer arrives exactly at its latency. `KnownCEPAnswered200` states
what the two handlers are written to do together: a known CEP whose
upstreams both answer successfully within their clients' timeouts gets
200 from A.

## 4. Runs

| Run | Config | Expect | What it shows |
|---|---|---|---|
| `limiter_reliable` | `MCRateLimiter.cfg` | pass | Four requests on two keys with a reliable store. No counter window admits more than its RPS (`AdmittedPerWindow`). A live counter always has its TTL unless its creator's EXPIRE is still to come, even when a concurrent DEL intervenes (`CounterHasTTL`). Every key eventually returns to fresh (`KeyEventuallyFresh`). |
| `limiter_lost_ttl` | `MCRateLimiterLostTTL.cfg` | violation | One failed INCR reply or EXPIRE leaves a counter without a TTL. The key then accumulates counts across windows. |
| `limiter_extra_admissions` | `MCRateLimiterExtra.cfg` | violation | With RPS 1 and four requests in flight, two requests are admitted although their INCR ran while the key was blocked. Spec §4.2 allows one. |
| `middleware_store_failures` | `MCMiddleware.cfg` | pass | Two clients, three requests through the middleware and the engine, up to two failing store calls (applied or not), no forged headers. No client is admitted by the IP policy more than `IPRateLimit` times in a second (`ClientBudgetPerSecond`). |
| `auction_refinement` | `MCAuctionAutoClose.cfg` | pass | Three auctions, interval 2, up to two failed `InsertOne`/`UpdateOne` calls (applied or not) and a restart. The repository implements `AuctionSpec`'s safety: no auction closed before its end, none reopened (`ImplementsAuctionSpec`). Without faults it implements its liveness too: every auction is completed (`FaultFreeImplementsLiveness`). |
| `auction_failed_close` | `MCAuctionAutoCloseFailedClose.cfg` | violation | A failed close is never retried. |
| `cep_race_empty_address` | `MCCepRace.cfg` | violation | BrasilAPI answers first with a decoded error body; main prints an empty address (`PrintedAddressIsRequested`). |
| `stress_accounting` | `MCStressLabGCR.cfg` (`StressLabGCR`) | pass | Five requests over two workers to labGCR, for a known, unknown or invalid CEP, with or without the API key, every mix of upstream replies and tester-side errors: no deadlock, the report counts each request once (`ReportAccountsForEveryRequest`), and every status the report prints is one labGCR can give for that CEP and key (`ReportStatusesExplained`: 422 alone for a malformed CEP, 404 only for an unknown one, 200 only for a known CEP with the key set). Both JSON forms of ViaCEP's not-found body are offered. The mutant `GetTempsIgnoresWeatherError` breaks the last. |
| `quote_server` | `MCQuoteServer.cfg` | pass | Two concurrent client runs, an upstream that publishes `q1`, sends a JSON error body or fails, and one server crash. A request is answered 200 exactly when its row was committed, even when its insert's 10 ms deadline passes while it waits for or holds the write lock (`AnsweredIffStored`). |
| `quote_client_file` | `MCQuoteServerClientFile.cfg` | violation | The fetch fails, the server answers 500, and the client writes `cotacao.txt` with an empty bid (`FileShowsStoredQuote`). |
| `otelzipkin_timeout` | `MCOtelZipkinTimeout.cfg` | violation | ViaCEP answers in 1 s and WeatherAPI in 4 s, each within its client's 5 s timeout, yet service A answers 502: its own 5 s timeout fires as B's 200 is due (`KnownCEPAnswered200`). |
| `config_token_limits` | `MCTokenConfig.cfg` | pass | `parseTokenLimits` equals the reference on every input (`ParseTokenLimitsMatchesReference`): blanks around an entry are trimmed, blanks inside a field reject it, a later entry replaces an earlier one, and negative values are accepted. |

**Bounds.**
- Load tester: five requests over two workers fill the two-slot channel,
  leave one worker with an odd request, and let both workers drain the
  channel after the close. Against labGCR, the three CEP kinds, both key
  settings and one upstream error per API give every status the handler
  answers (422, 404, 500, 200) and, per run, every mix of them.
- Auctions: an interval of 2 ticks gives a timer that is running, one
  that is already due, and a `Timestamp` past its end. With three auctions
  and two faults, a fault can hit one auction while another is closed
  normally.
- Quote server: two client runs are the fewest for which one INSERT waits
  for the other's lock. One quote suffices, because the properties compare
  bids only for equality with the empty one.
- Middleware: two failing calls let a failure hit both a breaching request
  and a later one. Three requests let one client send three in a row (admit,
  breach, blocked) while the other client is active, which is what the
  budget property needs.
- Four requests are enough for every ordering that matters here: a
  breaching request, a request between INCR and EXPIRE, and two stale
  requests after the DEL.
- RPS 1 and 2 make a breach take two or three requests.
- Block times of 1 and 2 s let a block lapse while requests are still in
  flight.
- There are no absolute clocks, so the state space is finite without a time
  bound.
- otelzipkin: one request, because requests share no state in either
  service; every request kind A rejects or proxies; the code's timeouts of
  5 s, on a clock of whole seconds, and every upstream latency from 0 s to
  the timeout. The 1 s + 4 s case is the first of the 5 s + 5 s range.
- Symmetry is not used. Most runs check liveness, and the others are small.

## 5. Findings

1. **Over-budget admissions while blocked.** This is a divergence from spec
   §4.2. The block check happens before INCR. A request already past that
   check increments after the breaching request's DEL, and it is admitted
   against a new counter while the key is blocked. There can be as many such
   admissions as there are requests in flight, up to RPS per window; the
   spec allows one.
2. **Counter left without a TTL.** This is a code bug, and spec §5 forbids
   it. If INCR's reply is lost, or EXPIRE fails after INCR returned 1, the
   counter never expires. From then on, RPS+1 requests at any spacing block
   the key.
3. **Zero block time blocks forever.** This is a code bug
   (`storage/redis.go:73`). go-redis `Set` with expiration 0 writes a key
   without a TTL. The config accepts 0 both for the IP policy and for token
   entries (an ASSUME in `MCRateLimiter` checks `Load` on it). Block then
   behaves as the mutant `ApplyBlockNoTTL`, which the check shows violating
   `KeyEventuallyFresh` under `MCRateLimiter.cfg`; it is a listed hazard
   and no run of its own.

4. **Remaining header is a control character.** This is a code bug
   (`middleware/ratelimiter.go:47`). `string(rune(n))` yields the
   character with code point `n`, not the digits of `n`. `HeaderIsDecimal`
   states the intended header. With `INVARIANT HeaderIsDecimal` in
   `MCMiddleware.cfg`, TLC reports the first admitted request. The defect is
   a single conversion, so it is a listed hazard and not a run.
5. **Identity from client-controlled headers.** This is a gap the spec
   leaves (§1 excludes address extraction). `extractIP` trusts the first
   `X-Forwarded-For` entry, so a client that varies it escapes its per-address
   budget. Setting `XFFValues <- MCSpoofXFF` in `MCMiddleware.cfg` makes TLC
   violate `ClientBudgetPerSecond`; it is a hazard, not a run.
6. **Auctions that are never closed.** A failed `UpdateOne` is not retried
   (`create_auction.go:82`, run `auction_failed_close`), so the auction
   stays Active. `TestAuctionAutoClose` expects every created auction to
   close. The same property also fails, in the same way, for a failed but
   applied `InsertOne` (line 47; `FailingCalls = {"InsertOne"}`) and for a
   restart (line 64; `MaxRestarts = 1`). Both are listed as hazards.
7. **BrasilAPI never looks up the CEP.** This is a code bug
   (`desafio2/main.go:27`). The URL prepends `01153000` to the CEP, and the
   error body that comes back is decoded without a status check (line 37)
   into an empty address. When BrasilAPI is faster, main prints it as the
   answer.

8. **The quote client saves an empty quote.** This is a code bug
   (`desafio1/client.go:36`, run `quote_client_file`). The client never
   checks the status and ignores `json.Unmarshal`'s error. After a 500 the
   body is empty, and it writes `Dólar: ` with no bid to `cotacao.txt`. The
   same property also fails through the server (`server.go:89`, a hazard):
   `buscaCotacao` does not check the upstream status either. A JSON error
   body therefore decodes into an empty quote, which is stored and answered
   with 200.

9. **Service A gives up on answers B is about to give.** This is a code
   bug (`otelzipkin/cmd/service-a/main.go:41`, run `otelzipkin_timeout`).
   A's `http.Client` allows the whole call to B 5 s, while B calls ViaCEP
   and then WeatherAPI, each allowed 5 s by its own client. With ViaCEP
   answering in 1 s and WeatherAPI in 4 s, A's timeout fires as B's 200 is
   due: A answers 502, and B's `r.Context()` is cancelled. A's handler is
   written to relay B's status and body, and B answers 200 for these
   upstream answers.

## 6. Not modelled

- Redis connection setup and `Close`, and the unused `Get`.
- Logging, JSON bodies and message texts. Only the allowed or denied
  decision and the remaining count matter to the properties.
- TTL resolution finer than a second. Redis keeps a counter for exactly one
  second after EXPIRE. In the model it lives until the next `Tick`, which
  may come at once, and several counters or blocks set at different
  instants of one second may lapse in the same `Tick`. The model's windows
  can be shorter than the real ones, but the grouping of expiries into
  whole seconds also merges orders that Redis would keep apart, so the
  model is an abstraction of the TTLs, not a superset of their behaviours.
  No property depends on the order of two expiries within one second.
- The verdict's `ResetTime`: computed by `checkLimit`, never sent by the
  middleware.
- `context.Background()` in the middleware: nothing cancels a request, so
  there is no cancellation to model.
- The orders service: its repository keeps no state.
- labGCR's temperature arithmetic (`F = C*1.8+32`, `K = C+273`), its JSON
  and plain-text bodies, and `writePlain`: no property is about the
  numbers or the wording. The `erro` field is a bool here and a string in
  otelzipkin. `StressLabGCR` offers both forms: with the string form labGCR
  answers 500 for an unknown CEP, and no run states the 404 its handler
  test expects, because no test fixes which form ViaCEP sends;
  `PROJECT.json` lists it as a hazard.
- otelzipkin's OpenTelemetry setup, spans and header propagation: they
  change no state the handlers read.
