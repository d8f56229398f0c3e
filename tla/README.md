# A TLA+ verification of Token Relay

Token Relay is a relay in front of OpenAI-compatible language model providers. A
client presents an API key; the relay holds the estimated cost of the request from
the prepaid credits of the key's owner, calls a provider with one of the provider's
own keys, refunds what was not used and logs the usage. Administrators top up
credits and manage provider keys, models and prices. It is one FastAPI process
(asyncio, SQLAlchemy sessions) on SQLite or PostgreSQL.

This directory models the parts of it that are hard to test: what concurrent
requests, failures and crashes can do to the credits, what the rate limiter admits,
how a request fails over between provider keys, who may send one, what it costs while
prices change, and what those see who read the log of it while it grows.

## 1. Inventory

| Part | State | Operations | Module |
|---|---|---|---|
| Chat pipeline: `proxy_service.py`, `v1/chat.py` | uncommitted writes of the request's session | hold, call with failover, settle, log; exceptions become answers; streams run after the endpoint returned | `Billing` |
| Embeddings pipeline: `v1/embeddings.py` | the same | hold, call, refund or settle, log; exceptions leave the endpoint | `Billing` |
| Sessions: `database.py` | one transaction per HTTP request, its row locks | commit when the endpoint returns, roll back when it raises | `Billing` |
| Top-ups: `admin_service.add_credits` | a balance it read | read, write the sum, insert a transaction | `Billing` |
| Rate limiter: `security/rate_limiter.py` | buckets of times, in the process | `is_allowed`, `check_rate_limit`, `cleanup` | `RateLimiter` |
| Relay: key loop of `proxy_service.py`, `adapters/` | adapter registry in the process, keys a request read, chunks it collected | register, call, chunk, fail over, end, give up | `Relay` |
| Provider keys: `admin_service.py` | table `provider_keys` | create, delete (deactivate) | `Relay` |
| API keys: `user_service.py`, `api/deps.py` | table `api_keys` | create (at most ten), delete, authenticate | `Access`; the locks of authentication: `Billing` |
| Accounts: `auth_service.py`, `user_service.py`, `admin_service.py`, `main.py` | table `users` | register, update, disable, promote and demote, sign in, first administrator | `Access` |
| Tokens and pages: `auth_service.py`, `security/jwt.py`, `api/templates_router.py`, `api/dashboard_router.py` | none but what a token says | log in, refresh, show a page | `Sessions` |
| Pricing: cost functions and usage parsers of `proxy_service.py`, `v1/embeddings.py` | none | pure, in floating point | `Pricing` |
| Catalogue and settings: `admin_service.py`; price resolution: `proxy_service.py`, `v1/embeddings.py` | tables `model_configs`, `system_settings` | create, update, set; resolve, estimate, settle | `Catalog` |
| Statistics, logs, statements: `analytics_service.py`, `billing_service.py`, `user_service.py` | none; they read the log | dashboard of five queries; listings page by page | `Reports` |
| Browser scripts: `static/*.js` | page and filters | load, reload | not modelled |

How they interact. A proxied request passes, in this order: the API key (which writes
`last_used_at`), the rate limiter (in memory), validation, the model and its price, the
provider keys, the hold (a conditional `UPDATE` of the user's row), the adapter and
upstream, the settlement and the log (in the same transaction as the hold), and last
`get_db`'s commit, after which FastAPI 0.115 sends the answer. A stream differs: its
response object is returned at once, `get_db` commits and closes the session, and only
then the pipeline runs, on a session that begins a new transaction nobody ends.

Where it is hard, and what correctness means there:

* *Billing.* Requests and top-ups of one user interleave at every `await`; requests
  raise, crash, time out on locks and lose their clients. A balance never becomes
  negative; a request costs what its usage costs, at most what it held, or nothing;
  nobody is served for free; a statement adds up; nobody waits in a circle, and on
  SQLite requests end.
* *Rate limiter.* Tokens and windows have edges; a check takes tokens of two buckets.
  Caps hold in every window, refusals cost nobody else, the promised retry time is true.
* *Relay.* Keys come and go while requests use them; a call fails before, between or
  after chunks. Usage is that of the delivered answer, a chat has tried every key when
  it is logged as failed (an embedding tries one and an HTTP error ends a chat, section
  3), secrets go to their own provider only.
* *API keys, accounts.* Checks and writes of two requests interleave (the tenth key, the
  same address), objects are flushed long after they were read. Addresses are unique,
  nothing that was set is undone by a flush, a deleted key is refused, a disabled user is
  served by neither portal nor API, the service starts again.
* *Tokens, pages.* Two types of tokens with two lifetimes, and claims that were true at
  a login. Renewals do not go on for ever; a former administrator's pages close.
* *Catalogue, prices.* Administrators create and edit while requests are priced by two
  reads, hold at one time and settle at another, in floating point. Names stay
  unambiguous, edits are kept, a price was in force, a cost is the exact one or a cent
  more, not above what was held for usage within the estimate, and not below the cost
  prices unless the markup is negative.
* *Statistics, listings.* A dashboard is five queries, a listing two for every page, and
  rows are added in between. The numbers fit each other; rows are missed only for a
  stated reason.

`PROJECT.json` lists the hazards, each at its line with the properties that watch it.

## 2. Modules

| Module | What it is |
|---|---|
| `Account` | the promise: each request charges its user once, atomically, credits the user has |
| `Billing` | the pipelines, sessions, locks, top-ups and crashes; implements `Account` when there are no top-ups |
| `BillingProofs` | the inductive invariants of `Billing` and the theorems |
| `RateLimiter` | the sliding windows |
| `RateLimiterProofs` | its inductive invariant and the theorems |
| `Relay` | provider keys, registry, failover |
| `RelayProofs` | its inductive invariant and the theorems |
| `Access` | users and their API keys, and who may use what |
| `Sessions` | extends `Access` by logins, tokens, pages and the clock; holds the specification of both |
| `AccessProofs` | the inductive invariants of `Access` and `Sessions` and the theorems |
| `Pricing` | floats, prices, costs, estimates and usage, as functions |
| `Catalog` | extends `Pricing` by model configurations, the markup, and requests that are priced, billed and logged |
| `Reports` | extends `Catalog` by those who read the log; holds the specification of both |
| `PricingProofs` | lemmas about floats: types, that rounding keeps the order, how far it is off; theorems about costs and markups |
| `CatalogProofs` | the invariant of the tables of `Catalog` and theorems about names, edits and usage |
| `ReportsProofs` | extends both; the invariants of bills, prices and readers, and the theorems about them |
| `Sums` | lemmas about sums over finite sets, and the inductions they need |
| `MCBilling`, `MCRateLimiter`, `MCRelay`, `MCAccess`, `MCReports` | constants for TLC |

Operators whose comment begins with *Mutant* are plausible bugs, used only to see that
the properties notice them; no specification refers to them.

### Billing

A session is one HTTP request. `work[s]` holds its uncommitted writes: the version of
the balance it works with, its rows of `credit_transactions`, its row of `usage_logs`;
`credit_balance`, `transactions` and `usage_logs` are what is committed. Before it
writes a row a session owns the lock that covers the row and keeps it to its end.
`LockOf` maps rows to locks, so one module covers SQLite (one lock for all rows, and
`BusyTimeout`: a wait may end in "database is locked") and PostgreSQL (one lock per row).

| Action | Code |
|---|---|
| `Authenticate`, `Reject` | `get_user_from_api_key`; the update of `last_used_at` takes the key's row |
| `Refuse` | 429, 400, 404, 502 before the hold |
| `OpenStream`, `RefuseStream` | the `StreamingResponse` is returned and the session committed; its pipeline raises before the hold |
| `Hold`, `Decline` | the conditional update and its transaction; 402 |
| `Serve`, `FailChat`, `FailEmbedding` | the outcomes of the upstream call, with settlement and log |
| `Raise` | an exception the pipeline does not catch, after the hold |
| `Disconnect`, `Reclaim` | the client of a stream goes away; the connection of an abandoned session is collected |
| `ReadBalance`, `AddCredits` | the two halves of `add_credits` |
| `TimeOut`, `Commit`, `RollBack` | lock timeout, the exit code of `get_db` |
| `Send` | FastAPI sends the answer, which may be lost with its client |
| `Crash` | death of the process, at any of these places |

Between an endpoint's last write and its commit, between the commit and the answer, and
between hold and settlement, any other session may step, and the process may die; these are the `await`s that matter. `AfterReturn` and
`AfterRaise` hold the difference between the endpoints: a chat turns exceptions into
answers and so commits them, an embedding rolls back, a stream is left as it is.
Abstracted: prices and tokens are the costs they come to (`Estimates`, `Actuals`), so
an actual cost may exceed the estimate, as in the code. Reads see the last committed
row (read committed, and SQLite's snapshot taken when the write transaction begins).
After a wait a conditional update sees the row as it was committed meanwhile.

### RateLimiter

Only differences of times matter, so a bucket holds ages; `Tick` makes everything
older. `check_rate_limit` awaits nothing and is one step: `RefuseUser`, `RefuseAll` or
`Admit`. An admission asks the user's bucket a second time, as line 76 of the code
does. The age of a token that no comparison tells apart any more is capped at
`Horizon`. The code filters a list; tokens stand oldest first, as `TypeOK` says, so
`Younger` keeps the end of it. `passed`, `admitted` and `promise` are history
variables: how many requests got past their user's limit, and past both, at most so
many ticks ago, and what a refused user was told. The clock is assumed never to go
back, and the cleanup, every 300 seconds in the code, runs at any time.

### Relay

One variable per fact the code keeps: `stored`/`active` provider keys, `adapter` (the
registry), and per request its `candidates`, `calls`, `collected` and `sent` chunks and
the logged status. A chunk is the number of its call and whether it is an error body.
A call ends by `End`, raises in `Fail` (before any chunk, or for streams halfway), or
is answered with an HTTP error, which for a chat is one more chunk and the end
(`HttpError`), and for an embedding is a `Fail` (`raise_for_status`). A chat goes through all the keys
it read; an embedding reads them by priority and takes the first (`embeddings.py:114`),
which `Untried` says. `Restart` empties the registry and loses the requests in progress.

### Access

`users` and `keys` are the committed tables. A request signs in or presents a key, reads
(`seen` is the object in its session), and flushes what it set (`change`). The flush is
the last thing it does before its commit, so the two are one step; every read before it
is a step of its own, and in between any other request may commit. `Flushed` is what
SQLAlchemy makes of an object: only attributes that differ from what was read go into
the `UPDATE`. An object that the session holds already is not read again, which matters
to administrators who edit themselves, and to users who delete a key: their keys were
loaded at the sign-in, so `FindKey` may find a row as it was then (`Earlier`).

| Action | Code |
|---|---|
| `StartUp`, `FailToStart`, `Stop` | `lifespan` and `_ensure_admin`: an administrator is inserted if nobody has the role; the unique index may refuse that |
| `SignIn`, `Reject` | `get_current_user`, `get_current_admin` |
| `CheckEmail`, `Conflict`, `InsertUser`, `UpdateEmail`, `Collide` | `register` and `update_user`; an address that was taken in between is an `IntegrityError` |
| `ReadUser`, `EditUser` | `update_user_admin`, which sets the role or `is_active` |
| `CountKeys`, `LimitReached`, `InsertKey` | `create_user_key` |
| `FindKey`, `DeactivateKey`, `NotFound` | `delete_user_key` (and 404 of an edit) |
| `PresentKey`, `FindOwner`, `RejectOwner`, `UseKey` | `get_user_from_api_key` and the request it admits |

Abstracted: passwords. Locks are `Billing`'s subject and are left out here.

### Sessions

Nothing of a login is stored: a token is a record of user, role, type and time of
expiry, and any token that was issued may be sent at any time. `loggedIn` and
`wasAdmin` are history variables. Logins, renewals and pages read once and are one
step; their visitors are numbered like requests.

| Action | Code |
|---|---|
| `Login` | `login`: an access and a refresh token with the role of that moment |
| `Renew` | `refresh_token`: a new access token with the role of the old token; no row is read |
| `ShowPage` | `_get_user_from_cookie`: a token of either type, a user who is active |
| `ShowAdminPage` | `get_admin_from_cookie`: besides, the token says administrator |
| `SignInWithToken` | `get_current_user`: `SignIn` of `Access` for the user of a token |
| `TurnAway` | 401, 403, a redirect to the login page |

Where no visitor of a workload logs in, users are taken to have done so before
(`Standing`), so that the workloads of `Access` do not multiply by those of tokens.

### Pricing and Catalog

`Pricing` computes as the code does: a float is an integer over a power of two with at
most `Precision` digits, `Nearest` rounds a quotient to it (`Scale` is the number of
its binary places), and a price or a cost is rounded up last. `Representable` are the
floats that are not negative, among them the cost prices of the code, 0.5 cents and more;
`Signed` are all of them. The markup is any of `Signed`, as `float()` is all that looks
at its text (`schemas/admin.py:9` asks for one character).
`ExactlyMarkedUp` and `ExactThousandths` are the references without floats.
`ParsedUsage` finds the last usage in the lines of an answer; a stream arrives in
chunks, and a line with the end of a chunk inside is not read. A report of zeros is a
report.

| Action | Code |
|---|---|
| `CheckConfig`, `ConfigExists`, `InsertConfig`, `CollideConfig` | `create_model_config`; the constraint decides once more |
| `ReadConfig`, `ConfigMissing`, `EditConfig` | `update_model_config`; None is not sent |
| `ReadMarkup`, `WriteMarkup`, `KeepMarkup` | `set_setting` of `markup_percent`: the first insert is stored, any other request leaves the row as it is |
| `FindPrice`, `FindConfig`, `NoConfig` | the configuration of a model, with prices of its own or without; two rows of one name raise |
| `FindMarkup`, `BadMarkup` | the second read, of the markup; text that is no number raises |
| `Refuse`, `Hold` | refusals after pricing; the estimate |
| `Settle`, `FailEmbedding` | the usage of the answer, its cost, the log |

A stored markup cannot be changed through its endpoint: the `UPDATE` leaves `updated_at`
(`onupdate`) to be read again, the answer reads it (`schemas/common.py:26`) outside of an
`await`, which raises, and `get_db` rolls back. The row can only be inserted (or edited in
the database, which is outside of the models); README.md:41 promises a "global markup
ratio" and not that it can be changed twice, so this is no finding.

The validated body always holds `max_tokens`, None where the client sent none; the
estimate of a chat then raises before anything is held, which here is a `Refuse`. On
SQLite a request that is not streamed holds the write lock while it resolves its price,
because `last_used_at` was written before, and no administrator can commit between its
two reads; `PriceWasInForce` concerns streams, and every request on PostgreSQL.
Abstracted: balances, provider keys and upstream, the subjects of `Billing` and `Relay`.

### Reports

A dashboard asks `Queries` one after another, each of what is committed by then, for
the day and month of the time it was asked for. A walk is a reader who turns the pages
of a listing from the first to the last; `CountRows` and `FetchPage` are the two
queries of a page, and rows of one time come in any order. `StartIncluded` is FALSE
for SQLite, which compares the start of a day as text with one that has no fraction.
The log grows by what `Catalog` commits. A walk stands for any of the four listings,
which share their code's shape. Filters are left out, and so are a user's own
statistics, which are one query.

## 3. Runs

| Run | States | Shows |
|---|---|---|
| `billing_sqlite` | 362,563 | the safety properties and the end of requests under one lock, with timeouts, crashes, lost answers, a stream and a top-up |
| `billing_rows` | 483,384 | row locks: refinement of `Account`, the ledger explains the balance, nobody waits in a circle |
| `rate_limiter` | 52,234 | caps, global count, honest retry time, half the quota |
| `relay` | 169,521 | usage of the delivered answer, what has failed when a failure is logged, secrets and deleted keys, the embedding ends |
| `access` | 58,099 | unique addresses, no lost edit, why a start may fail; deleted keys and disabled users are refused; what tokens open comes to an end |
| `reports` | 305,997 | an unambiguous catalogue, no lost edit, prices that were in force, costs, what usage counts; a dashboard that adds up, what a listing may miss |
| `billing_top_up` | violated | a top-up overwrites a concurrent charge |
| `billing_stream` | violated | a delivered stream is neither charged nor logged |
| `billing_stranded` | violated | a chat that raises after its hold costs its whole estimate |
| `rate_limit_quota` | violated | a limit of n refuses after n/2 requests |
| `relay_failover` | violated | an error of the first key ends a chat (HTTP error) or an embedding (any error) although another key is left |
| `access_key_limit` | violated | two concurrent creations exceed the maximum of active keys |

The six violated properties quote what the documentation or a comment says; the
entries under "findings" in `PROJECT.json` compare it with the code line by line. One more
finding is about a property that holds, `CostWithinACent`: README.md:161 says "no floating
point precision issues", and the property allows for the cent that there is.

Properties worth a word:

* `SettledCharge` ties what was charged to what was logged, `ServedIsBilled` what was
  answered to both. The latter is true only because the commit precedes the answer, and
  only of requests that are not streamed; its counterpart for streams is violated.
* What was charged and what the client has do not always agree. `EmbedChargedOnlyIfServed`
  names the one case left for an embedding: its answer is lost after the commit, because
  the client went away or the process died before `Send` was through. Failures before the
  commit cost nothing. For chats even those do (`ChatChargedOnlyIfServed`, violated).
* `RequestCommitsAreCharges` says that no request writes a balance computed from one
  that is gone; the same for top-ups is violated. `StatementIsContinuous` therefore
  says of top-ups only that their row ends at the balance that is committed with it.
* `WaitsEnd` is the absence of deadlock between locks of rows, where a wait has no
  timeout, in an instance with a stream that may be abandoned with its row. It does not
  say that the wait ends: on PostgreSQL an abandoned stream keeps its user's row until
  the connection is collected. `RequestsFinish` is claimed on SQLite only. (TLC's own
  check for deadlock says nothing in `Billing`, where a crash is always possible.)
* `ImplementsAccount` and `LedgerExplainsBalance` are claimed without top-ups, because
  of that violation.
* `HalfQuota` is what remains of the limit that `FullQuota` expresses.
* `ErrorMeansAllFailed` says what a logged failure means: for a chat that each key it read
  was called, for an embedding that the first one was. README.md:40 promises failover
  between keys without exception; `FailsOver` states that and is violated by both.
* `UsageOfDeliveredCall` concerns what is billed; what a stream's client receives after
  a failover halfway is the beginning of one answer and then another one.
* `ColumnsArePreserved` is about lost updates: sessions read whole objects and write
  them later. It is true because an `UPDATE` holds only what the request changed;
  `add_credits`, which changes a column relative to what it read, is the exception
  that `Billing` shows (`TopUpAddsItsAmount`).
* `DisabledUserIsShutOut` and `DeletedKeyIsRefused` concern requests that arrive after
  the change. One on its way is served, as the code has it. The former covers requests of
  the portal and calls with API keys; a page looks at the user's row when it is shown, and
  `POST /api/auth/refresh` looks at none and gives a disabled user new tokens.
* `SessionsEnd` and `AdminPagesLag` are the price of claims in tokens. A renewed access
  token carries the role of the login, so a demoted administrator sees the pages of the
  console (the requests behind them ask the row) until both lifetimes have passed; no
  renewal can be renewed, so it is no longer than that.
* `PriceWasInForce` has the exception the code has: after two commits between the reads
  a price may be a mixture that never was. To the cent means that the floating point
  markup agrees with the exact one on the prices of the instance (`ExactMarkups`, an
  assumption that TLC checks of the instance and a hypothesis of the theorem): a float
  may exceed a whole number of cents by its last digit and cost another cent.
* `CoveredUsage` needs that a request settles at the price it held at. `CostWithinACent`
  allows a cent more than the exact cost rounded up. The code takes it: 1100 tokens at 110
  cents a thousand are 121 cents, `1100 / 1000 * 110` is 121.00000000000001, and 122 are
  billed. A product suffices for that, and a sum of two may do it, too; the instance has
  three tokens at 7 cents for ten and three at 3, which are 3 cents and billed 4
  (`SurchargeWitness`). README.md:161 says otherwise.
* `NotSoldBelowCost` makes the sign of the markup the only thing that decides: with one
  that is not negative no rounding leads below cost, with a negative one the code sells
  below cost and refuses nothing (`SoldBelowCost` is such a price of the instance).
  Below -100 % prices are negative, and so are holds, which would then credit the user;
  `PricesNotNegative` excludes that from the instance and is a hypothesis of the theorems,
  so nothing is claimed about it.
* `UncutUsageIsBilled` says what remains true of streams: a report of usage that the end
  of a chunk cuts is lost, and then an earlier one counts, or nothing. A last report of
  zeros counts, and costs nothing.
* `DashboardAddsUp` is true because of the order of the queries: each number is compared
  with one that was asked for later, from a log that only grows.
* `WalkMissesOnlyPushedOrTied`: pages are cut by offset, so every row that is added after
  a count may push one row over the edge, and rows of one time may change places.
* `StartupFailsOnlyAfterDemotion` leaves open that demoting the last administrator keeps
  the service from starting ever again: `_ensure_admin` looks for the role and inserts
  the address. No text of the repository promises otherwise.

**Bounds.** Billing: one session per kind, three credits and an estimate of 2
make two holds compete for the same credits and let one fail; actual costs of
0 (no usage), 1 and 3 are below and above the estimate; every session is used once, as a
request is. `billing_rows` has a chat and an embedding of one user with one key, a stream
of that user with another key and a chat of another user; two requests that share a key
and a user are the least with which the order of the two locks matters, and the stream
may be abandoned with the user's row. Its actual costs are 1 and 3. Rate limiter: a limit of
3 for each user and of 3 for all, so that either may refuse, two ticks a second so that
rounding shows, and a horizon beyond the window. Relay: two keys of one provider, so
that there is something to fail over to, and one of another, whose priority would put
it first; two chunks, so that a call can fail with a chunk delivered; one restart.
The run has a stream and an embedding; a chat that is not streamed goes the stream's way
with one chunk, and is covered by the theorems and `relay_failover`.
Access: two addresses, so that two requests want the same one; two edits, so that one
can be flushed after the other was committed; a maximum of one key and two creations;
one restart, after which the address of the settings may be taken. `Workloads` names the
sets of requests that run together (accounts; keys; an owner and a key; an administrator
and tokens; renewals): requests outside of one do not interact with it beyond what is
in another one. Both lifetimes of tokens are 1 and the clock goes to 3, past the last
expiry, with two logins in one workload and two
renewals in the other. Reports: prices are for ten tokens, markups
are tenths and floats have 12 digits, so that quotients such as 3/10 are rounded as they
are at thousands and 53 digits; the same costs of half a cent and two cents meet markups of 0, 40 %, -55 %, the
default of 20 % and a text that is no number; estimates are met, exceeded or missing; a stream has
up to four lines and is cut anywhere. Workloads put together the requests that
write or read the same rows; a log of three rows, pages of one row and times on both sides of a midnight are
the smallest in which a row is pushed, tied or counted on another day.
The theorems do not depend on any of these.

**Fairness.** Liveness is claimed under weak fairness of what each handler does next:
asyncio resumes a handler whose statement or response has arrived, statements end once
their lock is free or, on SQLite, by the busy timeout, and the HTTP client gives up
after 120 seconds of silence (`openai_adapter.py:15`). No request relies on being
refused to end, and upstream owes nobody an answer. No step of a stream is fair, in
either module: its generator waits at each `yield` for a client that may never read, and
nothing in the code ends that wait. Nor is anything assumed of the collection of abandoned
sessions, of administrators or of crashes. `RequestsFinish` and `RequestsEnd` therefore
concern requests that are not streamed (`Unstreamed`), and the former is claimed on SQLite,
where it needs the busy timeout: an abandoned stream may keep the lock.
In `Relay` the number of chunks of a call is bounded: an upstream that streams
for ever is not modelled.
Deadlock is checked in every run that expects to pass; `Finished` is the only way to
stop in `Billing`, `Relay`, `Sessions` and `Reports`. The last two claim no liveness and
state no fairness: their handlers wait for nothing but reads.

## 4. Proofs

Each theorem holds for all values of the constants that satisfy the named assumptions
of the modules; TLC evaluates these on every run. The module of a component's proofs
begins with its inductive invariant, has one lemma for each action or group of actions,
and ends with the theorems. What the invariants add to the properties is mostly this:
handlers read, wait, and write, so the invariant says of every handler, at each of its
places, what is still true of what it read.

| Module | Theorems, with the property that a run checks |
|---|---|
| `BillingProofs` | `TypeCorrect` (`TypeOK`), `NeverOverdrawn` (`NoOverdraft`), `ChargesSettle` (`SettledCharge`), `CommitsAreCharges` (`RequestCommitsAreCharges`), `AccountRefinement` (`ImplementsAccount`), `LedgerIsComplete` (`LedgerExplainsBalance`), `ServedMeansBilled` (`ServedIsBilled`), `UnservedEmbedIsFree` (`EmbedChargedOnlyIfServed`), `StatementsAreContinuous` (`StatementIsContinuous`), `NoDeadlock` (`WaitsEnd`), `NoStreamIsBilled` |
| `AccessProofs` | `TypeCorrect` (`TypeOK`), `AddressesAreUnique` (`UniqueEmail`), `StartsUnlessDemoted` (`StartupFailsOnlyAfterDemotion`), `NothingIsUndone` (`ColumnsArePreserved`), `SessionsExpire` (`SessionsEnd`), `AdminsLeave` (`AdminPagesLag`), `DeletedKeysAreRefused` (`DeletedKeyIsRefused`), `DisabledUsersAreShutOut` (`DisabledUserIsShutOut`) |
| `RelayProofs` | `TypeCorrect` (`TypeOK`), `SecretsStayHome` (`SentToOwnProvider`), `FailedMeansAllFailed` (`ErrorMeansAllFailed`), `UsageIsOfDelivered` (`UsageOfDeliveredCall`), `DeletedKeysAreNotSent` (`DeletedKeyIsNotSent`) |
| `RateLimiterProofs` | `TypeCorrect` (`TypeOK`), `WindowsAreCapped` (`WindowCap`), `OnlyAdmittedCount` (`GlobalCountsAdmitted`), `ResetsAreHonest` (`HonestReset`), `HalfOfTheQuota` (`HalfQuota`) |
| `CatalogProofs` | `NamesAreUnique` (`CatalogIsUnambiguous`), `ColumnsAreKept` (`EditsAreKept`), `LastReportIsBilled` (`UncutUsageIsBilled`) |
| `PricingProofs` | `CostsAreNearlyExact`, `MarkupsCoverCosts`: about the functions, for any arguments; the next row uses them |
| `ReportsProofs` | `TypeCorrect` (`TypeOK`), `HoldsCoverUsage` (`CoveredUsage`), `BillsAreExactToACent` (`CostWithinACent`), `NothingIsSoldBelowCost` (`NotSoldBelowCost`), `PricesWereInForce` (`PriceWasInForce`), `NumbersFit` (`DashboardAddsUp`), `WalksSeeTheRest` (`WalkMissesOnlyPushedOrTied`) |

**Billing.** `IInv` (theorem `Inductive`) says what a session's private work promises
(`SessionInv`): a session that has not written has nothing to commit and nothing booked;
after its hold it owns the lock of its user's row; as long as it does, the balance it
works with is the committed one plus what its rows add up to; that balance is not
negative; and the rows of a settled request add up to what its log says. The safety
properties alone are not inductive, because a commit publishes what a session prepared
long before. That the lock is exclusive keeps these facts true while others step, and
that is the heart of the argument: nobody else can publish a balance for the row in
between. On top of it `AnswerInv` (`AnswerInductive`) follows one request to its end:
`Told`, what its client may have been told at each place; `Refunded`, that a failed
embedding has given back what it held; `Statement`, that uncommitted rows lead from the
committed balance to the one the session works with. `LedgerIsComplete` needs a sum over
all sessions, and therefore that there are finitely many; it and the refinement are
stated without top-ups, which break both (section 3).

Two theorems say for all constants what the runs show in other ways. `NoDeadlock` states
the absence of deadlock between locks as an invariant, without ENABLED: who waits, waits
for a session that does not wait, or that waits for one that does not (`WaitsEnd`). It
rests on the order in which locks are taken (`LocksInv`): API key first, user second,
and a stream's session gives up the first before it takes the second. Its hypothesis
`RowsOrDatabase` names the two kinds of database; locks that cover the key of one request
and the user of another would allow a deadlock. It says nothing of how long a lock is
kept, and an abandoned stream may keep one until it is collected. `NoStreamIsBilled` says
of the violated `StreamServedIsBilled` that it is no matter of timing: nothing is ever
recorded of a stream.

**Access.** `AInv` says besides the properties what every handler holds at each place
(`RequestInv`): a write is right if the row it is about is there, the object was a row,
and only the columns that were sent are set. A row that is to be inserted is not there
yet (`Unborn`), so an insert replaces nothing; `Rooted` counts the first administrators
against the restarts, so that a startup finds a row for another one, and says that a
server that is up has a user, so that a failed startup can be traced to a demotion.
`SInv` bounds how far ahead of its user's last login, or last time as administrator, a
token may expire (`TokenInv`): a refresh token by one lifetime, an access token by both,
because the refresh token that renewed it had not expired. `DeletedKeyIsRefused` and
`DisabledUserIsShutOut` are about two times. They are proved for one key or user and
one request at a time, from a predicate that is true when the request arrives, that
every step keeps, and that rules the answer out (`Shut`, `Out`).

**Relay.** A request goes by the keys it read once. `IInv` says that they were its
provider's, each once and in order (`Listed`), that the calls used them from the first
on (`Called`), and what its chunks are at each place (`Relays`, `Delivered`): what is
collected is the end of what was sent and of the current call, and whatever is before it
belongs to calls that failed. An adapter's URL was stored for its provider whichever key
registered it (`AdapterInv`). Streams have any length here, and the number of keys is
finite because they are rows (`RelayAssumption`).

**Rate limiter.** Buckets and history are compared without counting: `Holds(b, requests,
n)` says for every age that the `n` times as many newest tokens as there were requests
are at most that old (`AtLeast`), and nothing else is (`AtMost`). A filter, a tick and
a new token each keep it; a cap is then a statement about the age of one token. `n` is 2
for a user's bucket, of which an admission takes two tokens, but only as far as the
bucket holds them, and 1 for all. `PromiseInv` says that the bucket which
refused frees a place no later than promised, even if nobody cleans up.

**Catalogue and prices.** `IInv` of `CatalogProofs` says that names are unique, that the
row of a creation is not there before its insert, that the row which an edit or a
setting read is still there, and that a bill's usage is the one its lines report.
`CatalogInv` adds types and the order of times. `HoldsCoverUsage` rests on `BilledInv`,
which says that estimate and charge come from one price, and on `CostGrows` of
`PricingProofs`: a float is the nearest to a quotient, rounding keeps the order of
quotients (`RoundingGrows`, `NearestGrows`), so do products, sums and `math.ceil`
(`TimesGrows`, `PlusGrows`, `CeilGrows`), and therefore more usage never costs less,
whatever the precision. `PricesWereInForce` follows a request between its two reads
(`OfferInv`): what it would be offered now was in force at the first read, and its
configuration is without prices, until a commit takes one of the two away; a commit
changes one table only, so it cannot take both.

**Rounding errors.** A rounded quotient is off by at most one part in 2^`Precision`
(`NearestIsNear`, from `RoundedError`), and one that was rounded already is off by one
part more (`RoundedAgain`). A cost is rounded three times: a quotient, its product with
a price, the sum. Its error is therefore a small number of parts of the exact cost, less
than a thousandth of a cent if the cost leaves two digits of a float unused, and then
`math.ceil` gives the exact cost rounded up or a cent more (`CostsAreNearlyExact`).
`SourcesInv` says where a price is from: from the configuration, or what some markup
makes of the cost price. It bounds every price by those that administrators can cause,
so that `BillsAreExactToACent` needs bounds on inputs only; and it leaves
`NothingIsSoldBelowCost` with two numbers to compare, unless a negative markup is set.
A setting once stored stays (`MarkupsStay`), so if none is negative when the bill is
looked at, the request did not read a negative one. A price with such a markup is not below the
cost price, because 1 plus a markup is at least 1 after rounding, and a product that is
not below the cost price is not rounded to a float below it, the cost price being a float
itself (`MarkupsCoverCosts`, which also says that no discount raises a price above the
cost price rounded up); and a bill is not below the exact cost. Without the bounds
it may be: floats of `Precision` digits do not hold every number of cents.

**Readers.** What readers know is outdated when they know it. `ReadersInv`
(`ReadersInductive`) says of a dashboard that a number it has is no larger than what
its query would return now (`DashInv`), which the growing log keeps true and which is
why the order of the queries matters; and of a walk that a row it has not shown is tied
or stands further on than the page it is at (`WalkInv`). Added rows only push a row
further on (`PlacesGrow`), untied rows have different places (`PlacesDiffer`), and so no
more of them are beyond the last page than were added (`RowsBeyond`).

**Assumptions.** Besides domains and types: a request is of one kind
(`BillingAssumption`, `AccessAssumption`, `KindAssumption` and others: routes are
different endpoints); there is a row for every startup; lifetimes are positive; tables of
keys are finite; the window is a whole number of seconds and shorter than the cleanup's
horizon, as 60 and 120 seconds are; first rows satisfy the unique constraint, cost prices
are floats, an embedding's answer reports one number of tokens
(`_parse_embedding_usage`), NULL is not a value (`RowAssumption`, `RequestAssumption`);
the beginning of a month is not after that of its day, which is not after the time
itself (`ReportsAssumption`). Hypotheses of single theorems: no top-ups
(`AccountRefinement`, `LedgerIsComplete`), finitely many sessions (`LedgerIsComplete`),
`RowsOrDatabase` (`NoDeadlock`), `PricesNotNegative` (all of `ReportsProofs`: no markup
is below -100 %; nothing in the code enforces it), `ExactMarkups` (`PricesWereInForce`),
and `Moderate(top, tokens)` for some `top` and
`tokens` (`BillsAreExactToACent`, `NothingIsSoldBelowCost`): no price exceeds `top` cents
per thousand tokens, no answer reports more than `tokens` tokens, and four times their
product, in thousandths of a cent, is at most 2^`Precision`, as a thousand is. Doubles
have 53 digits, so the product may be 2^51, a bill of more than two million million cents.
Nothing in the code refuses larger numbers, but `usage_logs.credits_consumed` is an
`Integer` of 32 bits on PostgreSQL (`models/usage_log.py:28`) and cannot record a
thousandth of such a bill. TLC evaluates `Moderate(7, 21)`, `ExactMarkups` and `PricesNotNegative` for the
instance, whose floats have 12 digits.

**How sums are done.** The library's induction rules take an operator and cannot be used
here. `Sums` reasons by a smallest counterexample instead: a set of numbers has a
smallest one (`SmallestOf`), and of subsets of a finite set with some property one loses
it with any element (`SmallestSubset`). From these follow that a fold over a set exists,
does not depend on the order, splits, grows and counts, which the ledger and the
dashboard need. `PricingProofs` treats powers of two the same way.

**Only model-checked.** `RequestsFinish` (`Billing`) and `RequestsEnd` (`Relay`):
liveness under fairness is out of the prover's reach. Every other property of a run that
passes is stated by a theorem.

## 5. Plan

In order of importance; the first nine are done.

1. `Account`, `Billing`, `BillingProofs`: the credits.
2. `RateLimiter`: what is admitted.
3. `Relay`: what is sent upstream.
4. `Access`, `Sessions`: who may use it.
5. `Pricing`: cost, markup and usage parsing as functions, against exact definitions.
6. `Catalog`, `Reports`: model configurations and settings read by requests that others
   change, and who reads the log.
7. `AccessProofs`.
8. `RelayProofs`, `RateLimiterProofs`, `PricingProofs`, `CatalogProofs`, `ReportsProofs`,
   `Sums`: the safety properties of the runs.
9. Bounds on rounding errors, for `CostWithinACent` and `NotSoldBelowCost`.
10. Composition: `Relay`'s outcomes as the upstream steps of `Billing`, so that a
    request's charge is tied to the call that delivered it.

## 6. Not modelled

The browser scripts (`static/user.js`, `static/admin.js`) may show an older answer over
a newer one; they keep nothing and send what the models' requests send. Filters of
listings, rendering of pages and their styles, logging, schema creation and migrations
have no state of their own, and `/v1/models` and the listings of keys and models only
read. Markups below -100 % are described by the modules, but not checked or proved about
(section 3). A clock that is set back, which would keep the rate limiter's buckets full, is
assumed not to happen. Cryptography and JSON Web
Tokens are taken as working; that a stored provider key may not decrypt is modelled.
On PostgreSQL the foreign key of `usage_logs.api_key_id` would refuse the logs as the
code writes them (`v1/chat.py:54` passes the user's id, `v1/embeddings.py:182` an empty
string); the models describe the code where the constraint is not enforced, as on
SQLite, and `billing_rows` the locking that PostgreSQL would add.
