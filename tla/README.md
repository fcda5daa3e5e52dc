# A formal model of ibkr-mcp

TLA+ modules, TLC configurations and TLAPS proofs for the read-only MCP server
of Interactive Brokers data in `src/ibkr_mcp`. The paths below are relative to
the repository.

## The system

| Component | Code | State it keeps | Operations |
|---|---|---|---|
| Connection manager | `src/ibkr_mcp/connection.py` | `_client_id`, `_account_id`, the `IB` client | `connect()` (five client ids, then give up), `disconnect()` (idempotent, swallows failures), `is_connected` |
| Session lifespan | `src/ibkr_mcp/server.py` | `AppContext`: manager, settings, `ib_lock` | one manager per session, `connect()` once, serve, `disconnect()` |
| Process | `src/ibkr_mcp/__main__.py` | none | probe connection for the banner, SIGTERM, `mcp.run` |
| Tools | `src/ibkr_mcp/tools/*.py` | none of their own; the caches of `ib_async` | fourteen handlers: check the connection, the account and the arguments, ask the gateway under `ib_lock`, answer |
| Decorators | `src/ibkr_mcp/logging_decorators.py` | none | every exception becomes an error code; `Settings()` is evaluated on every call |
| Error codes | `src/ibkr_mcp/errors.py` | none | `map_exception`, with ordered hints |
| Settings | `src/ibkr_mcp/config.py` | the environment and `.env` | validation, logging setup |
| Utilities | `src/ibkr_mcp/utils/*.py` | none | contracts, ISO 8601 durations, Black-Scholes fallback |
| Response models | `src/ibkr_mcp/models/*.py` | none | pydantic declarations |

Outside the repository, and modelled from how it uses them: IB Gateway (one API
session per client id; login, outage, restart), `ib_async` (connects or leaves
nothing behind; a closed socket fails every pending future and empties the
caches; no reconnection), `asyncio` (first come, first served lock; cancellation
inside an `await`), and the MCP clients.

**How they interact.** A session (the probe, a stdio session, each HTTP session)
makes a manager, awaits `connect()` and keeps whatever came of it. Tools read
`manager.is_connected` and `account_id`, and share the manager's socket through
`ib_lock`. Sessions of the same or of other processes share nothing but the
gateway, where their ranges of client ids overlap.

**What is hard.** Sessions racing for client ids; an attempt that fails after
the gateway registered it; a `disconnect()` that fails silently; connections
lost while a handler waits for the lock or for a reply; cancellation in every
`await`; a lock section split in two (`get_option_chain`); a gateway that never
answers; settings read again while the server runs; copies of orders and
positions that lag behind or are emptied while a handler waits; replies paired
with what was asked for by nothing but their order; a process killed between
two steps. `PROJECT.json` lists each hazard at its line.

**What makes each part correct.**

- Connection manager: the id it reports is the id the gateway has; the account it
  serves is the connection's, and the configured one; nothing stays connected
  after the session; `connect()` returns; ids that the gateway refuses are stepped
  over.
- Tools: one request at a time; the lock is never leaked; what they say about the
  connection is true; every call ends.
- Process: the probe is gone before the sessions come; the banner tells what they
  will get; a stopped server leaves nothing open, and does stop.
- Account and order tools: rows of the right account only; of this client's orders
  and of the positions, what stays true while a call lasts is in its answer, what was
  never true is not; totals that account for every line, lines that account for every
  option.
- Data tools: what the gateway is asked for is what the client asked for; a line of
  a chain is made of its own contract's ticker; an error blames its own cause.
- Flex: the query the client named; every topic asked for, or the raw report.

## The modules

| Module | What it is |
|---|---|
| `ConnectionManager` | the managers of several sessions against one gateway |
| `Session` | the contract: what a tool may rely on about the connection of its session |
| `ConnectionContract` | the refinement mapping from the first to the second |
| `Server` | one process after the other: probe, banner, sessions, signals; extends `ConnectionManager` |
| `ToolCalls` | the concurrent tool calls of one session, without their data |
| `AccountTools` | the account and order tools with their data, one call at a time |
| `Greeks` | operators: from a ticker to a line of Greeks, from the lines to the totals |
| `DataTools` | the market data, contract and Flex tools with their data, one call at a time |
| `Arguments` | operators: `build_contract`, `parse_duration`, the Flex registry, `map_exception` |
| `MCConnectionManager`, `MCServer`, `MCToolCalls`, `MCAccountTools`, `MCDataTools` | instances for TLC |
| `ConnectionManager_proofs`, `Server_proofs`, `ToolCalls_proofs`, `AccountTools_proofs`, `DataTools_proofs` | the invariants of each module, proved |
| `ConnectionContract_proofs`, `DataToolCalls_proofs` (and the end of `AccountTools_proofs`) | the refinements, proved |
| `FoldLemmas` | what folds over sequences compute |

### ConnectionManager

`client_id`, `account_id`, `connected`, `managed` are the attributes of
`ConnectionManager` and the state of its `IB` client; `attempt` is the loop
variable of `connect()` and `result` what it returned; `phase` is where the
session is in `build_lifespan`. `gateway`, `login` and `slot` belong to the
gateway. `unclosed` is a history variable: `ib.disconnect()` has failed on this
connection.

`connect()` suspends only in `ib.connectAsync`, so a step goes from one return of
`connectAsync` to the next call of it, or to the return of `connect()`:

| Action | Code |
|---|---|
| `StartConnect` | the lifespan makes a manager and awaits `connect()` |
| `GatewayAccepts` | the gateway registers the session, `connectAsync` still synchronises |
| `AttemptSucceeds` | `connectAsync` returns; account check; `RejectAccount` or `AcceptAccount` |
| `AttemptRefused` | `except ConnectionRefusedError`: return at once |
| `AttemptFails` | `except Exception`: next client id, or give up after the last |
| `CancelConnect` | cancellation inside `connectAsync` |
| `EndSession` | `finally: await manager.disconnect()` |
| `NewSession` | a new session with a new manager |
| `SocketDropped`, `LossNoticed` | the connection is lost, from either end |

An attempt is registered at the gateway before `connectAsync` returns. That is
what makes failed attempts interesting, and what an abstraction to one step per
attempt would leave out. Faults are a constant set, so an instance names what
it includes: `handshake` (an attempt fails for no reason of the gateway's),
`disconnect` (`ib.disconnect()` raises), `outage`, `drop`, `foreign` (other API
clients), `linger` (the gateway keeps a client id after its session ended),
`takeover` (a newcomer may get a client id that is in use, and the older session
ends). Without `takeover` the gateway refuses a used id, as the fallback loop of
`connect()` and `tests/test_connection.py`, line 131, expect; the documentation says
otherwise (see below), and a newcomer that then hangs is `takeover` with `handshake`.

### Session

Five statuses and three values per session. A session settles once; client id,
account and connection appear in one step and only with success; after that the
connection can only be lost. This is what lets `ToolCalls` treat the connection
as something that is there or is lost for good.

### ToolCalls

A handler suspends when it waits for `ib_lock`, when it awaits a reply, and while
a Flex report downloads in its thread. What it does in between is one step:
`Invoke` (decorator, checks, caches, first request), `Acquire` (granted the
lock, sends), `Resume` (reply arrived: answer, next request of the section, or
let go of the lock and queue again), `DownloadEnds`, `Cancel`. The tools
themselves are tables (`ImmediateAnswers`, `AnswersTo`, `ContinuesSection`,
`OpensSection`): the order of the checks and every error path are kept, the data
is abstracted to "some", "none" or "raised". `env_valid` is whether `Settings()` would
validate now: the logging decorator evaluates it on every call.

An answered call ends in `done` and `Collect` makes its slot free for another. A
slot whose cancelled request the gateway still works on is not reused, so that
`outstanding` can name requests by calls; with three slots there is always room
for the next call.

### Server

`ConnectionManager` with one of its managers as the probe of `_probe()` and the
others as the sessions that `mcp.run` serves. `stage` is where `main()` is and
`banner` what it has printed; `undisturbed` is a history variable.

| Action | Code |
|---|---|
| `ProbeConnects` | `await probe_mgr.connect()`, by the actions of `ConnectionManager` |
| `ProbeEnds` | account and id are read, `disconnect()`, the banner, the signal handler, `mcp.run` |
| `Serve` | the lifespans of the sessions |
| `Stop`, `StopSession`, `Exit` | `KeyboardInterrupt` or the end of stdin; the `finally` of each lifespan; `sys.exit(0)` |
| `Die` | killed; while the probe runs SIGTERM does that too, the handler comes later |
| `Restart` | the next process, against whatever the gateway has kept |

Between two suspensions of `connect()` nothing else of the process runs, so what
follows the probe's `connect()` is one step. The end of a process closes its
sockets; with the fault `linger` the gateway keeps their client ids registered.

### AccountTools and Greeks

`book` and `holdings` are what the gateway has; `trades` and `portfolio` are the
copies that `ib_async` keeps of them, one update behind the other, empty after a
loss. A tool's start is one action (`GetOrderStatus`, `GetLiveOrders`,
`GetPositions`, `GetPortfolioGreeks`, `GetAccountInfo`, and `Rejected` for the
checks they share); `Resume` is what follows the reply. `ever` and `always` record
what the gateway showed at some time and all the time during the call: an answer
should lie between the two. `Own` are the orders of this client id: the refresh of
`get_live_orders` brings those, and of the others whatever the gateway happens to push
(`Refreshed`). `Greeks` holds the operators from a ticker to a line: bundles in order
of priority, the last volatility, the spot, the guards of the fallback, weights. NaN is
a value there like the numbers, as `_safe_float` of `tools/account.py` does not test for
it; it wins over later bundles, passes the guards and spreads through the arithmetic.
The Black-Scholes formulas are a constant operator.

### DataTools and Arguments

`sent` is the list of requests of the call and `replies` what came back; each
handler is one action for its start (`GetMarketData`, `GetHistoricalData`,
`GetContractDetails`, `GetOptionChain`, `GetFlexQuery`, `ListFlexQueries`) and one
for each reply it goes on with (`MarketDataQualified`, `ChainReceived`, ...).
Requests may raise, and the error handler then answers by `map_exception`.
Symbols and currencies are sequences of three-letter parts, so that a currency
pair can be too long; durations are taken apart into their numbers. An argument may be
left out (`None`) or be an empty text, and the code tests some for the one and some for
truth: `Given` is the test for truth.

### How they compose

`AccountTools` and `DataTools` observe one call at a time, and the waits for the
lock and for the reply as one. Both are shown to implement `ToolCalls` with a
single call (`ImplementsToolCalls`): the codes they answer, the number of their
requests and their behaviour on a lost connection are those that `ToolCalls`,
which knows nothing of the data, allows. `ToolCalls` in turn relies on no more
of the connection than `Session`, which `ConnectionManager` implements.

## What the runs show

| Run | Instance | Shows |
|---|---|---|
| `conn_faults` | 2 sessions, bases 1 and 2, 3 attempts, 4 ids, one session with `IB_ACCOUNT`, three logins, all faults, `takeover` included | types; `RegisteredUnderReportedId`; `ServedAccount`; `NoStrayConnection`; `ImplementsSession`; `ConnectReturns` |
| `conn_busy` | 3 sessions, bases 1, 1, 2, 4 attempts, no faults: used ids are refused | `BusyIdsTolerated` |
| `tools_safety` | 3 calls of all 14 tools, symmetric | types; `OneRequestAtATime`; `LockHeldByItsUser`; `NotConnectedIsTrue`; `NoSuccessAfterLoss` |
| `tools_live` | 3 calls of `get_option_chain`, the tool with the most requests and sections | `LossUnblocksEveryone`; `EveryCallAnswered` |
| `account_tools` | 2 accounts, 2 orders (one of this client, one without an id of another), 4 positions in portfolio order (three options, a stock), at most 2 rows at a time, 5 kinds of ticker (two with NaN) or none at all, 3 logins | types; `LiveOrdersAreLive`; `LiveOrdersComplete`; `FoundUnderItsId`; `ServesTheAccount`; `PositionsComplete`; `GreeksAccounted`; `ImplementsToolCalls` |
| `data_tools` | 12 instruments (each kind, and each with what it needs missing), chain requests with each argument left out, empty, good and bad over 6 sets of chains, Flex calls with ids, names and topics left out, empty, known and unknown, durations of up to two parts, 2 registries, 5 reports, exceptions of every type and hint | types; `RequestsAsAsked`; `HistoryAsAsked`; `ChainPaired`; `GreeksFromOneBundle`; `DiscoveryNeverFetches`; `ErrorsHaveCauses`; `FlexRightQuery`; `FlexAllOrRaw`; `ImplementsToolCalls` |
| `server` | a probe and 2 sessions that want the same of 2 ids, 2 attempts, a configured account that is linked or not, outages, drops, lingering ids, failing disconnects | types; `ProbeGone`; `BannerTellsTheSession`; `ExitsClean`; `ServesAndStops` |
| `doc_account` | 1 session | `account_id` is not `None` when the gateway is unreachable (`src/ibkr_mcp/server.py`, line 45) |
| `doc_selfheals` | 1 session | a session that was connected does not reconnect after the gateway's daily restart (`docs/deployment.md`, line 273) |
| `doc_timeout` | 2 calls | a silent gateway is never given up on (`specs/spec.md`, line 853) |
| `doc_serialised` | 2 calls | a cancelled request and the next one are both at the gateway (`docs/troubleshooting.md`, line 188) |
| `doc_status` | 2 calls | `get_server_status` can fail (`docs/usage.md`, line 62) |

The five `doc_` runs check one sentence of the documentation each, and TLC refutes it.

**Slips.** Definitions commented "Slip:" are not the code's: each is a plausible
bug in the definition below it, and with it in place the run of the property it
is aimed at fails (`mutants` in `PROJECT.json`).

**Bounds.** Two sessions with overlapping, unequal ranges are the smallest
instance in which one takes the id another is about to try, before and after
it. Three attempts have a first, a middle and a last. Three logins
(two accounts, one, none) give the mismatch, the first account and no account.
`conn_busy` needs three sessions to have two of them collide with a third that
comes and goes, and four attempts so that its premise holds with one foreign
client. Three calls are one inside the section, one waiting and one that joins,
leaves or is cancelled; deeper queues only repeat the middle of the queue. The
liveness run takes the one tool whose paths include those of the others (one, two
or three requests, one section or two). `server` has as many ids as the two
sessions need, so that an id that the probe leaves behind is missed. In
`account_tools`, `MaxRows` = 2 lets two options of one account, an option and a
row of the other account, or an order and a position exist together; any two
suffice to be mixed up. A quantity is 0 or 1: what the properties compare is
whose quantity it is, and the contracts' multipliers differ. In `data_tools` two
strikes and two rights make a chain in which pairing can go wrong in either.
`TradeArrives` and the like stop while an answer waits to be collected
(`Moving`); the answer no longer changes then. No counter grows without a bound
of the code.

**Fairness.** A task that can go on does (the event loop); an attempt is answered
or times out (`connectAsync` has its own timeout); a dead socket is noticed; an
outage ends; a download ends. The gateway owes no answer: `EveryCallAnswered`
assumes one explicitly, `LossUnblocksEveryone` and `ConnectReturns` do not.
Neither the end of a session nor what other clients do is fair. `Server` needs
only that the probe and the sessions being stopped go on.

**The environment.** Taken from how the code uses `ib_async`, and as little as the
properties need: replies arrive behind the updates sent before them; a refresh of
the open orders brings all of this client id, and any of the others; tickers come one
per contract in the order asked for, or none at all; a field of a ticker may be a
number, NaN or missing; a lost connection empties the copies, fails what is
awaited, and does not come back; a request raises `ConnectionError`, or says "not
connected", only on a lost connection.

## What is proved

Every safety property of every passing run, and all three refinements, for every
value of the constants. The assumptions are named in the modules that declare the
constants, and TLC evaluates them on every run: the sentinels are distinct from the
data; sessions are finitely many, client ids are naturals and include every
attempt's, configured accounts are accounts (`ConnectionManager`); the probe is one
of the managers, all of one process configured alike (`Server`); a portfolio lists a
position once, fields of tickers are integers, NaN or missing (`AccountTools`);
arguments have the fields their schemas let through, durations are taken apart, a
message that holds one hint holds the shorter ones in it, lists of chains are finite
(`DataTools`, `Arguments`).

**`ConnectionManager_proofs`**

- `TypeCorrect`, `IdsMatch`, `RightAccount`, `NothingLeftOpen`. The three safety
  invariants are not inductive on their own: that a failed attempt leaves nothing
  open needs that nothing was open before `connect()` returned. `IInv` adds that
  part, `ConnectedOnlyAfterConnect`. Most actions give up the registrations of one
  manager and leave it unconnected, which `ReleaseStep` settles once.
- `BusyIdsAreTolerated`, of a gateway that refuses used ids: sessions that come and
  go cannot push a session past the last id it may try. A count of the ids that are
  free now is not inductive, since the others move while one tries. The argument is
  that of linear probing. Let
  `Room(x, r)` be the ids above `x` up to `r` that no foreign client has. If the
  managers configured in any upper part of the ids up to `r` are no more than its
  room (`Contains(r)`), then so are, at all times, those that are past any `x` by
  now (`Parked`): whoever goes on leaves an id that another has, so there is room
  for it (`RoomToMoveOn`). The premise of the property gives such an `r` within
  the ids a session may try (`ContainerExists`), and on the last of them there is
  nobody to fail over (`LastAttemptHolds`). `FaultFree` is the invariant; TLC
  checked it on the instance of `conn_busy` before.

**`ConnectionContract_proofs`**: `Refinement`, that `ConnectionManager` implements
`Session`. Each action maps to one step of the contract or to a stutter; the
invariant it needs is that nothing is set before `connect()` returns
(`NothingBeforeReturn`).

**`Server_proofs`**: `ServerTypeCorrect`, `SafeAcrossRestarts`, `ProbeIsGone`,
`StopsClean`, `BannerIsTrue`. The steps of a process are steps of its managers
except for its end and the next start (`ProcessSteps`), so that `IInv` carries over
and only those two are new. `SInv` adds that the probe is over before the server
serves. `BannerIsTrue` has one hypothesis, as the property's run has: no attempt
breaks in its handshake, and the gateway refuses used ids (the probe and the session
would have to see the same of either). Its invariant `NothingElse` says of the probe,
then of the one session that follows, which ids it has stepped over and why, and that
what the banner says is what is still there.

**`ToolCalls_proofs`**: `TypeCorrect`, `LockDiscipline`, `Serialised`,
`HonestAboutTheConnection`, `NoStaleSuccess`. `LockHeldByItsUser` is inductive with
the types, given three lemmas on the queue (append, tail, removal in the middle);
`LockStep` reduces every action to what it does to lock and queue. The rest needs
`Progress`: how many requests a call has made, and that a reply is lost only with
the connection.

**`AccountTools_proofs`**: one theorem for each of the seven invariants, and
`Refinement`. `AInv` says what a call knows while it waits: the account is a linked
one, resolved as asked (`Phases`); the copy of the orders has none the gateway
lacks (`Known`); what was there all the time is in the copy and what is in the copy
was there at some time, once the reply has come (`LiveFollowed`,
`PositionsFollowed`); the options whose tickers are awaited are those of the
account, each once, whatever happens to the portfolio meanwhile (`OptionsHeld`).
The refinement adds `ReplyIsThere`: a reply has come exactly if the call is told so.

**`DataTools_proofs`** and **`DataToolCalls_proofs`**: one theorem for each of the
nine invariants, and `Refinement`. `DInv` has four parts, of the call's own
variables: the arguments have the fields of the tool (`Fits`); the requests sent
are those the tool sends for its arguments and the replies it has so far (`Sends`);
each reply is one its request can have (`Replied`); and what each stage and each
answer says follows from these (`Phase`). That types come before hints in
`map_exception`, and which hint comes first, are lemmas of their own. The
refinement needs `EmptyIsEmpty` in addition: a reply is called empty exactly if
there is nothing in it.

**`FoldLemmas`**: what the folds of the two modules compute, for sequences of any
length: a sum does not depend on the order of its terms, a search finds the first
place in its set, a finite set of numbers is sorted with each number once. The library's induction
theorems take an operator and cannot be cited, so induction is stated of sets
(`SetInduction`) and the operators of a fold are passed as functions.

**Only model-checked**: the liveness properties `ConnectReturns`,
`LossUnblocksEveryone`, `EveryCallAnswered` and `ServesAndStops`, as the prover does
neither fairness nor `ENABLED`; and the five `doc_` runs, which are counterexamples.

## Where the documentation differs

The five `doc_` runs aside, these are differences met while modelling. The models
follow the code, and the properties say what is left:

- `positions` may be empty for a managed account that has some, if the portfolio
  copy holds only another account's rows: it is not empty then, and the fallback of
  `docs/usage.md`, line 146, does not happen (`tools/account.py`, line 205).
  `PositionsComplete` names this exception.
- What becomes of a client id that is in use is said in two ways. `connect()` and its
  test (`tests/test_connection.py`, lines 131-139: "ClientId already in use") take it
  that the gateway refuses the newcomer, who tries the next id.
  `docs/troubleshooting.md`, line 23, has "the gateway will boot the older connection
  and the new one will hang", and `docs/configuration.md`, line 105, "Reusing an ID
  will silently bump off the older connection". `BusyIdsTolerated` (and the theorem)
  holds of the first gateway and says nothing of the second: there is nothing to step
  over, and sessions that take ids over from one another may use up their attempts.
  The fault `takeover` is the second, and what `conn_faults` checks, the return of a
  `connect()` that hangs included, holds of both.
- `get_live_orders` refreshes the orders of its own client id only
  (`tools/orders.py`, line 222). Orders of other clients and of the TWS window are
  listed if the gateway has pushed them (`docs/troubleshooting.md`, lines 148-156:
  "usually", and an answer of nothing "despite open orders in TWS"), while
  `docs/usage.md`, line 314, has all open orders. `LiveOrdersAreLive` and
  `LiveOrdersComplete` claim the client's own orders only.
- NaN is missing data for a quote (`tools/market.py`, line 43: "ib_async returns NaN
  for missing fields; treat as None") and a number for the portfolio's Greeks
  (`tools/account.py`, lines 63-70, without that test): a bundle of NaN is chosen
  before a later good one, and the totals become NaN. `GreeksAccounted` says exactly
  when. Where no tickers come at all (line 329) there are no lines and the totals are 0.
- A Flex report without rows is answered `parsed: true` with empty topics, as
  `extract` returns an empty list and raises nothing; `docs/troubleshooting.md`, lines
  126-130, counts it among the causes of `parsed: false`. `FlexAllOrRaw`.
- An empty `queryId`, `queryName`, `topic` or `expiry` counts as left out
  (`tools/flex.py`, lines 65-70 and 161; `tools/market.py`, line 320), an empty `right`
  does not. `FlexRightQuery`, `FlexAllOrRaw`, `ChainPaired`.
- An order whose id is 0 is found under -1 only (`tools/orders.py`, line 188,
  against `docs/usage.md`, line 275). `FoundUnderItsId`.
- Without an account, `get_live_orders` lists those of all accounts under the
  session's own (`tools/orders.py`, line 238). `ServesTheAccount`.
- The totals of Greeks take the first bundle with a Greek and pass over one that
  has only a volatility; quotes take the first with any number (`docs/usage.md`,
  lines 623-631, has one rule). `GreeksAccounted`, `GreeksFromOneBundle`.
- A line is "missing" also for an expired option or one without an expiry, not only
  without a volatility (`docs/usage.md`, line 500); where the underlying's price is
  unknown the option's own price takes its place.
- Forex contracts never get the exchange IDEALPRO, as the tools pass SMART on
  (`docs/usage.md`, line 612); and a six-letter pair with the default currency
  fails an assertion of `ib_async`, answered as `VALIDATION_ERROR`.
- A `ValueError` becomes `VALIDATION_ERROR` only if no hint is in its message
  (`docs/architecture.md`, line 251, has "any").

## What is not modelled, and the plan

Of the components above everything that changes state is modelled. Left out for
good: the response models (declarations); logging, its setup and the redaction of
arguments (wording); Black-Scholes itself (over the reals); prices, volumes,
commissions and times in rows and tickers (copied from one field to another); the
HTTP transport and the command line (libraries).

What remains, in this order:

1. The part of `ConnectReturns` that is safety: a variant that falls with every
   step of `connect()`, so that only the fairness is left to TLC.
2. `BannerIsTrue` without its hypothesis: what a banner still tells when an attempt
   of the probe or of the session broke in its handshake, or one of them took over an
   id that the gateway refused to the other.
3. The two hazards without a property (`PROJECT.json` says why they have none).
