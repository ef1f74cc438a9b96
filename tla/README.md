# OpenFive: models and proofs

OpenFive is a gateway for language models: an application sends its requests to
one address, and the gateway chooses a model, caches, limits, meters and bills.
This directory holds TLA+ models of the parts of it where the order of events
decides whether the program is right, the TLC configurations that check them on
small instances, and theorems, checked by TLAPS, that hold for every instance.

Paths below are relative to the repository, with `src/` in front in
`PROJECT.json`. Its `map` gives, for every definition that models code, the
lines it stands for.

Contents: 1 the system, 2 the models, 3 the runs, 4 the proofs, 5 where the code
and its comments disagree, 6 what else was met on the way, 7 what is not
modelled, 8 the plan.

## 1. The system

Three programs share one PostgreSQL database.

- **The gateway** (`services/gateway`, Go) is the data plane. Its packages under
  `internal/` are complete and tested one by one, but
  `cmd/gateway/main.go:23-48` does not put them together yet: the handler
  answers 501. So each package is modelled with callers that may do what its
  exported functions allow, and no module composes them.
- **The control plane** (`apps/web`, Next.js) is an HTTP API and the dashboard
  that calls it. A handler is a chain of awaited statements sent to the database
  with no transaction around them; two requests interleave between any two
  statements, and every statement may fail. A page of the dashboard is a user, a
  cache of answers (React Query) and callbacks that come late.
- **The database** (`supabase/migrations`) brings references, unique names,
  cascades, triggers and row security that decide what a statement does.

### Components

For each: its state and operations, what is hard, what makes it correct.

**Prompt cache** (`internal/cache/cache.go`). A map from key to entry under a
read-write lock, counters under a lock of their own, a goroutine that evicts.
`Get`, `Set`, `Invalidate`, `Clear`. Hard: `Get` lets go of the lock twice, so
it acts on an entry that may be gone or replaced; the counters are moved apart
from the map. Correct when: bounded, evicts the least recently used, answers
with the latest value or not at all, and its statistics do not overstate it.

**Metering writer** (`internal/meter/writer.go`). A buffer of request records
under a lock, a flush loop, a channel for the end. `Record`, `Flush`, `Close`.
Hard: flushes overlap; inserts fail or run out of time; `Close` waits for
nobody; the process may end at any time. Correct when: no record is written
twice or forgotten in memory, the buffer is bounded, `Close` keeps its word.

**Rate limiter** (`internal/budget/tokenbucket.go`). A map of token buckets
looked up under one kind of lock and filled in under another. `Allow`. Hard: two
callers miss at once; refills are counted from the last call. Correct when: one
bucket per key, never more than the rate, never a needless refusal.

**Budget enforcer** (`internal/budget/enforcer.go`, `internal/db/queries.go`).
The spend of an environment is a column. `LoadEnvironment`, `Evaluate`,
`IncrementBudgetUsed`. Hard: the decision is about the spend as loaded, and the
cost is added when the request is over. Correct when: a hard limit is passed by
no more than the requests under way can account for.

**Loop detector** (`internal/loop/detector.go`). Per prompt, the times it was
seen. `CheckPrompt`, `Cleanup`, and `CheckToolCalls`, which has no state. Hard:
the cutoff is taken before the lock, and callers with different windows prune
one list. Correct when: a loop is not missed, an alarm is not made up.

**Cost anomaly detector** (`internal/anomaly/detector.go`). A window of costs
and a baseline per environment, under a lock. `Observe`, `SetBaseline`. Hard:
eviction stops at the first sample that has not expired. Correct when: what is
judged is what was spent in the window.

**Kill switch** (`internal/anomaly/killswitch.go`). A transaction that turns an
environment off and opens an incident; `Deactivate`. Hard: failures inside it,
and activations that race. Correct when: nothing is off without an incident.

**API keys** (`internal/auth/apikey.go`, `internal/db/queries.go`). Two lookups,
the second for keys rotated lately. Hard: a rotation between the two. Correct
when: the answer is true of some moment of the check.

**Router** (`internal/router/engine.go`). A pure function from candidates, route
and needs to the models to try. Hard: scores are fractions of ranges computed
from the list itself, and the sort is unstable. Correct when: only what can
serve is tried, no attempt is wasted, better comes first, and the order in which
the database listed the candidates decides nothing.

**Providers** (`internal/provider`, `internal/schema/repairer.go`). A call for an
answer, a stream read line by line, a repair of an invalid output. Hard: the
connection breaks anywhere. Correct when: the chunks are those sent, and a
broken stream does not read as a complete one.

**Schema validator** (`internal/schema/validator.go`). Pure and recursive.
Hard: types that are lists, schemas that are no map, "null", numbers that are all
`float64`. Correct when: it never rejects what the schema allows, and rejects
what a schema that names its types forbids.

**Gateway process and SDK** (`cmd/gateway/main.go`, `packages/sdk`). Endpoints,
timeouts, signal, shutdown; clients with headers, and clients derived from them.
Hard: a shutdown with requests half read. Correct when: only what outlasts the
shutdown timeout is cut off, and a request names the route it was meant for.

**Prompt templates** (`api/v1/organizations/[orgId]/templates/`). A row per
template and a row per version. Hard: an edit reads, inserts a snapshot and
updates, in three statements, ignoring the error of the second. Correct when:
the history has what the template says.

**The API over the database** (`app/api/v1`, `lib/api`, `supabase/migrations`).
Some sixty handlers: organizations, members, projects, environments and their
clones, routes, keys, limits, providers, A/B tests, incidents, webhooks, alerts,
evaluations, replay, playground. Hard: the guard is read once; statements fail
half way; deletes cascade; policies refuse what the handler thought it could do.
Correct when: rows stay consistent, and none changes but for one who may.

**Analytics** (`dashboard`, `analytics`, `cache`, `evaluations/summary`,
`results`). Figures computed by code of their own from rows of selects of their
own, which the API cuts at `max_rows` (`infra/supabase/config.toml:9`). Correct
when: each is right about the rows it read, and they agree where none was cut.

**Log stream** (`.../environments/[envId]/logs/stream/route.ts`, `logs/page.tsx`).
On the server a cursor, an interval and an abort listener, with polls that
overlap; in the browser a connection, a timer that reconnects, and filters.
Correct when: no row is skipped, none sent twice, the interval ends with the
client, and the page has one connection.

**Billing** (`billing/webhook/route.ts`, `[orgId]/billing/checkout/route.ts`,
`[orgId]/route.ts`). The plan and the Stripe customer are keys of one JSON column
that the server rewrites as a whole from a copy, and that clients may patch to
anything. Hard: lost updates, a customer made and not saved, events delivered
twice and out of order, an update whose error nobody looks at. Correct when: one
customer, and the plan that was sold.

**The pages** (`apps/web/src/app/(dashboard)`, `components`, `providers`,
`hooks`). Forms, drawers, lists, a chat, signing in and out, and what is kept in
`localStorage`.
Hard: an answer comes when the page has moved on. Correct when: what the user
entered is done once and for what it was meant, nothing entered is lost, and
what was written is shown.

### How they interact

In the gateway the packages meet only through the values their callers pass
along; the metering writer, the router (`LoadRoute`, `LoadModelsForEnv`), the
budget, the key check and the kill switch also go to the database. The control
plane meets the gateway in tables: `requests` (written by the metering writer,
read by the log stream, the lists and the reports), routes, keys, incidents,
limits. Stripe calls the webhook and is called by the checkout. Pages meet the
API through `fetch`, through React Query's cache that they share, and through
one event stream; tabs meet in `localStorage` and in the cookies.

`PROJECT.json` lists under `hazards` what of all this is hard to test, each at
its line, with the properties that watch it.

## 2. The models

| module | models | checked in | proofs |
|---|---|---|---|
| `Cache` | the prompt cache | `MCCache` | `CacheProofs` |
| `LossyMap` | what a cache promises (abstract; `Cache` refines it) | | |
| `MeterWriter` | the metering writer | `MCMeterWriter` | `MeteringProofs` |
| `RateLimiter` | the rate limiter | `MCGateway` | `LimitProofs` |
| `LoopDetector` | the loop detector | `MCGateway` | `LimitProofs` |
| `Budget`, `Anomaly`, `KillSwitch`, `Authenticator` | budget, cost window, kill switch, key check | `MCGateway` | `GatewayProofs` |
| `RouterEngine` | the router | `MCGateway` | `LimitProofs` |
| `Provider` | provider calls, streams, repair | `MCGateway` | `GatewayProofs` |
| `Server` | the gateway's process, and the SDK that calls it | `MCGateway` | `GatewayProofs` |
| `Validator` | the schema validator | `MCGateway` | `LimitProofs` |
| `Templates` | templates and their history | `MCControl`, `MCTemplates` | `ControlProofs` |
| `ControlPlane` | the API over the database | `MCControl`, `MCControlPlane` | `ControlProofs` |
| `Analytics` | the figures of the reports | `MCControl` | `MeteringProofs` |
| `LogStream` | one connection of the log stream | `MCLogStream` | `LogStreamProofs` |
| `LogsPage` | the page that reads it | `MCBrowser` | `LogStreamProofs` |
| `Billing` | everyone who changes the metadata column | `MCBrowser` | `BillingProofs` |
| `Pages` | the queries and mutations of all pages over React Query | `MCBrowser` | `PageProofs` |
| `Chat` | the playground | `MCBrowser` | `PageProofs` |
| `FormDialogs`, `DetailDrawers` | seven dialogs with a form; two drawers and the view of an A/B test | `MCBrowser` | `PageProofs` |
| `RateLimitsPage` | the form of all rate limits | `MCBrowser` | `PageProofs` |
| `RequestList` | turning the pages of a list that grows | `MCControl` | `PageProofs` |
| `Session` | signing in and out, in several tabs | `MCControl` | `PageProofs` |
| `BrowserState` | with it the theme, recent pages, checklist, in several tabs | `MCControl` | `PageProofs` |

Conventions. An action is what happens under one hold of a lock (Go), in one
statement of the database (a handler), or in one callback of the event loop (a
page): what runs between two of these cannot be told apart from outside.
Whatever a caller carries from one to the next is a variable indexed by caller.
Time is a counter that a tick moves. An operator under a comment that begins
with "Mutant:" is no part of a specification: it is a plausible mistake in the
operator of the same name without its suffix, and the property named with it in
`PROJECT.json` fails when it is put in its place. Variables marked *history* are
not in the code; they record what the properties need to speak about, often the
exact circumstances in which the code breaks a promise it otherwise keeps.

Components that share no state are checked side by side: `MCGateway`,
`MCControl` and `MCBrowser` extend several modules and choose at the start which
one moves, which gives the sum of their states and not the product. Whatever one
of them needs to know of another is in its own module (a request "arrives", a
key is rotated).

**Cache.** `entries` points to numbered entries in `heap`, since a caller of
`Get` may hold an entry the map no longer has. `Get` is `Lookup` (read lock),
`JudgeExpiry` (no lock, the clock), `DropExpired` or `Touch` (write lock),
`Return` (lock of the statistics, and the answer). `Set` with `evictLRU`,
`Invalidate`, `Clear` and `EvictionTick` are one action each. The statistics are
moved together with the map although they have a lock of their own: nobody reads
both at once but `Snapshot`, which is not modelled. `used` is history: for each
entry, when the last caller asked of those that were answered with it.

**MeterWriter.** `Record` appends, and goes on to flush if the buffer is full.
A flush is `Take` (the lock), then one `Insert` per record; `Deadline` is the
10 s timeout, after which every insert fails. An insert that fails may have been
committed. The flush loop chooses between `TickerFires` and `DoneReceived`.
`End` is the end of the process, after `Close` or by a crash. Rows are
independent, so buffer and batches are sets.

**RateLimiter.** `Lookup`, `Create`, `Allow` are the three holds of locks.
Tokens are counted in parts of a token so that one clock unit refills a whole
number; rounding of the code's floating-point numbers is left out.

**LoopDetector.** `Call` takes the cutoff, `Check` does the rest under the lock,
`Cleanup` prunes. A recorded time is a call with a number, so that two calls at
one time are two.

**Budget, Anomaly, KillSwitch.** A request loads the environment, is evaluated
against that copy, and adds its cost with one UPDATE, or fails to. `Observe` is
one action, as it holds the detector's lock. The switch is a transaction whose
UPDATE locks the row: `ActivateUpdate`, `ActivateInsert`, `ActivateCommit`, and
`Rollback` anywhere.

**Authenticator.** `FindByHash` and `FindByPreviousHash` are queries of their
own, with rotation, revocation, time and failures between; `judged` records, for
every moment of a call, whether its token was valid.

**RouterEngine.** One behaviour is one call of `Select`. Fractions are
multiplied out, so that comparing scores is exact; equal scores come in any
order, as with `sort.Slice`.

**Provider.** Lines are delivered one by one, the connection ends or breaks
between any two, and `NextChunk` is the reader's `Next` with what it skips.

**Server.** Requests arrive, are handled, time out while they are read, or are
cut off; `Signal`, `Exit` and `ShutdownError` are the end of `main`.

**Validator.** `Accepted[n]` is `validateObject` for values and schemas nested at
most `n` deep, as the pairs it finds no error in; how many errors it finds is
left out, as `Validate` asks only whether there are any. A schema is a map with
one name for a type, with a list of names or without any, or it is `true` or
`false`. `Taken` is what the code takes for a name: anything for "null", which
its `switch` does not know, and for a list nothing is checked. `Conforming` and
`Meant` are written from JSON Schema, share nothing with that, and are what it is
compared with.

**Templates.** `Insert` and `InsertInitial` are POST; `Fetch`, `InsertVersion`
and `Update` are PATCH; `Delete` cascades. Texts and variables are opaque.

**ControlPlane.** `Schema` is the tables with what a delete does to whoever
refers to them, and with the tables their columns refer to; `RoleIn` and the
policies are row security; `API` gives for each route and method its guard and
its plan, the statements in order, each with what the handler does when it finds
nothing or fails. A clone may be asked for without its routes (`Bare`); the
statements about them are then skipped. One step of a call is one statement, run
as its user against the database of that moment. `EditRole` changes or ends
memberships meanwhile.

**Analytics.** One behaviour is one look at a table: the figures of all reports
at one time. Each is computed from what its own select returned (`Reads`): at most
`maxRows` of the rows, the oldest where the select is ordered (`Oldest`), any where
it is not (`Cuts`). The dashboard compares the texts of times, in which the first
millisecond of a period is before it (`Past`). A list of rows is the set of their
numbers, as no figure depends on their order: what the code takes from a sorted
list is the value so many do not exceed (`InOrder`), or the first that are as
large as any left out (`Largest`). A row's time is not later than the reader's
(`ReportInit`): rows are stamped when they are inserted, and the clocks of the
database and of the web server are taken to agree on that.

**LogStream.** `Begin` and `Commit` are a row's transaction: `created_at` is the
time it began, and it is visible from its commit. `Open` is GET up to its first
poll, `Fire` the interval, `Answer` or `Fail` the query, `Handle` what the poll
does with the rows, `Abort` the client leaving. The clock of the web server,
which the first cursor comes from, need not be that of the database.

**Billing.** Webhooks and checkouts read the column (`Read`, or `ReadNothing`
for the webhook, which takes an error for an empty row), and write it whole
(`Write`, or `WriteNothing`, whose error nobody looks at). `Edit` is a client's
PATCH of the organization: the column becomes what it sent, whatever that is. A
checkout makes a customer between the two (`CreateCustomer`) and opens a session
after (`OpenSession`). `Fail` is an exception or the end of the process. Events
of Stripe come in any order and any number of times; only those that name the
organization are let in.

**Pages.** Each page is a table of its queries and mutations (`AbTestQueries`,
`IncidentMutations`, ...), each with the parts of the database that it reads or
writes, cascades among them (`OfEnvironment`), and the keys it invalidates; a query
that reads two parts, as that of the dashboard, is in the table once for each. The
rest is React Query as they use it: entries by key, fresh for a minute, refetched
when invalidated while shown. A behaviour follows one query and one part of what it
reads. **RequestList** has the same client with its keys spelled
out, for the one query whose answers are cut out of a list by offset.

**Chat, RateLimitsPage, FormDialogs, DetailDrawers.** A mutation or a stream
under way is a record of what its callback captured; the form, the drawer or the
chat goes on meanwhile. The dialogs differ in what the form cannot be sent
without, in when they empty it and in what a success does, and are one module
with a record per dialog: a change of the form is what becomes complete and what
becomes incomplete with it. On the page of limits `TypeLimit` changes an open
form and `HandleSaveEdit` makes it pending; `HandleSaveAll` sends what is. A
session of the chat is its messages, its figures and its model; loading one
restores these and leaves the system prompt that is on the page. Storing the
sessions may be refused (`Finalize` with `kept` false), and other tabs with the
page, which are one list of their own, store theirs at any time (`OtherSaves`,
`OtherClears`). A behaviour of
`DetailDrawers` is about one of three: the drawer of an incident, with its note,
that of a request, with its replay, or an A/B test shown in place of the list,
whose controls start, pause, end or delete it. What is selected is a copy of the
row as it was listed. What was asked of the server is done there by `Carry` and
answered later, by `TestUpdated` or `IncidentUpdated`, or never (`OrderFails`, which
may come after it was done); `OtherUpdates` is another user. The answer about a
test puts the answered row in place of whatever is on show by then.

**LogsPage.** Streams, the reference to the last one, and the timers that wait
to reconnect, with the filter each captured. `ToggleStreaming` and `SetFilter` are
the click with the cleanup and the effect of its render: the cleanup closes the
stream referred to, whatever opened it. The server may send a request again, or
out of order, as `LogStream` says it does.

**BrowserState.** Tabs are processes over one `localStorage`; an effect of
React, the script that runs before it, and an event are steps. The checklist is
shown until it is dismissed or its six steps are done; nothing calls
`completeStep`, and only the first three, which are read off the context, are ever
done, so it has to be dismissed.

**Session.** Tabs share the cookies, which hold one session and what the last
sign-in with a provider will be exchanged with. `HandleLogin`, `HandleSignup` and
`HandleSignOut` begin a call that is answered whenever it is, by `SignedIn`,
`Refused` or `SignedOut`, and move the tab then, wherever it is; `HandleOAuth`
leaves the application and `Callback` comes back. `holds` is whose answers the
tab's `QueryClient` has: only another document empties it.

No code calls `setCurrentOrg`, `setCurrentProject` or `setCurrentEnv` of
`providers/context-provider.tsx`, so at this commit the pages have no
organization to show. They are modelled as written, given one.

## 3. The runs

Each is `tlc -config <cfg> <module>`. All passing runs finish with no error.
Deadlock is not checked: in every one of these models all calls may have been
made and the bounds reached.

| run | configuration | instance | states |
|---|---|---|---|
| `cache` | `MCCache.cfg` | 3 keys, 2 callers, 2 entries, 3 Sets, 3 Gets, clock to 2 | 1,534,000 |
| `cache_liveness` | `MCCacheLive.cfg` | 2 keys, 2 callers, 1 entry, 2 Sets, 2 Gets | 74,000 |
| `meter` | `MCMeterWriter.cfg` | 2 callers and the loop, 3 records, batches of 2 | 66,000 |
| `gateway` | `MCGateway.cfg` | ten parts, 2 callers of each | 1,381,000 |
| `control_plane` | `MCControl.cfg` | eight parts: templates, the API in 7 scenes, reports, what the browser keeps, the list of requests | 515,000 |
| `log_stream` | `MCLogStream.cfg` | 3 rows, 2 polls at a time, clock to 2 | 170,000 |
| `browser_and_billing` | `MCBrowser.cfg` | seven parts: billing, chat, log page, queries of all pages, dialogs, drawers, rate limits | 1,419,000 |
| `meter_close`, `templates_bump`, `log_stream_abort`, `replay_recorded`, `organization_made` | | see 5 | |

What they show, and why the bounds are enough:

- **cache.** `SizeBound`: racing Gets never let the map outgrow its limit.
  `EntriesNeverOvercounts`: the Entries statistic is a lower bound (two Gets of
  one expired entry both count it out, so it can run low, even below zero).
  `EvictsLeastUsed`: whoever was answered with a response that a Set drops had
  not asked later than the last use of any response the Set keeps, although a use
  is recorded, judged and answered under different locks.
  `ImplementsLossyMap`: every behaviour is one of `LossyMap`. Two Gets that hold
  one entry, a Set between them and a third key to be evicted need two callers,
  three keys and three Sets. A limit of 2 makes the tenth round up to one entry;
  larger limits are left to the proof.
- **cache_liveness.** `TickerHeals`: the statistic keeps being put right, and
  expired entries leave. No symmetry here, as liveness needs.
- **meter.** `OnePlace`: no record is in two places or nowhere, whatever flushes
  overlap. `BufferBound`: the buffer stays below a batch but for one record per
  caller on its way to flush. `RecordsLeaveMemory`: a record taken before
  `Close` is tried. A full batch and a record more, with a flush under way in
  each of three goroutines, is what three records and batches of two allow.
- **gateway**, by part:
  - *Rate limiter.* `RateBound`: over every stretch of time a key is allowed no
    more than its capacity plus its rate, which a second bucket would break.
    `RefusesOnlyWhenDue`: every refusal would have broken that bound. A minute
    of 3 units makes the refill of one unit less than a token; two keys, limits
    1 and 2 and a bucket to spare let the race to create one happen twice.
  - *Loop detector.* `DetectsLoop`: a caller that waited for the lock misses no
    loop in its window, unless another with a shorter window, or `Cleanup`, had
    pruned into it. `NoFalseAlarm`: an alarm has the calls behind it.
  - *Budget.* `OverdraftBound`: a hard limit is passed by no more than one
    estimate for each request but one, and what costs exceeded estimates by.
    Budgets of 3 and 11 are less and more than two requests cost.
  - *Cost window.* `JudgesRecentSpend`: eviction from the front loses nothing
    that is recent and keeps nothing that is not. Stated for the length the
    window was made with: a later, different length is ignored by the code.
  - *Kill switch.* `KilledOnRecord`: off only with an incident opened since it
    was last on.
  - *API keys.* `AnswerTrue`: a token that is granted was valid at some moment
    of the check, and one that is refused was not valid throughout, unless a
    query failed. Three tokens make a key rotate twice within one call.
  - *Providers.* `StreamFaithful`. *Process.* `NoneCutShort`. *Validator.*
    `RejectsRightly`, over all values and schemas of two levels: what conforms is
    never rejected, whatever the schema; what does not is rejected if the schema
    names one type wherever it says something, and neither "integer" (a fraction
    passes) nor "null" (everything does).
  - *Router.* `SelectsWell`: three different models or all there are; with a
    chain, all of the chain that can serve; no model before one that is better,
    the preferred one first; and the order of the candidates decides no score.
    The last two are stated for models whose latencies are known: `minLat` takes
    0 both for "none yet" and for "not known" (`engine.go:134`), and with such a
    model both fail. Five models (two alike, one dominated, one cheap and slow,
    one of unknown latency) in every order of up to four.
- **control_plane**, by part:
  - *Templates.* `EveryTextRecorded`: the history has the text, the variables
    and the version the template has now, but for inserts that failed.
    `PairRecorded`: with both fields in every body, text and variables come from
    one edit. `SerialHistory`: without overlap and failure, one snapshot per
    version, the last equal to the row.
  - *API.* `RowsSound`: whatever is inserted, deleted and cloned at once,
    references lead somewhere, names are taken once, no status is without its
    time, and what a row needs of another is not taken from under it.
    `GuardStillHolds`: a row changes only for one who may still change it, in the
    organization the row is in, or with a row it refers to that goes. `CloneWhole`:
    a clone that was answered with success has every route, or none where it was
    asked for none, with its limits until someone names the copy. Seven scenes, each
    a small organization with a few
    rows of some of the tables, and two requests that may ask for anything that
    touches those; the second as an admin who writes or a member who reads, whose
    membership is changed or ended meanwhile. In one of them the second has an
    organization of his own, whose webhook, environment and route the rows and
    bodies of the first refer to, and in one he adds a route to the clone, or sets
    the limits of a copy, while it is made. Two requests are what it takes to
    be between two statements of another; three would find nothing further, as
    every property is about one row or one reference.
  - *Reports.* `FiguresAgree`: counts, sums, percentiles, days and groups are
    right about the rows each report read, and agree where no select was cut;
    where one was, the dashboard counts no more than the analytics page. Tables
    of 0 to 41 rows put the index of the percentile on and beside a whole
    number, times across the day and the week put rows on both sides of every
    window and in its first millisecond; and where `max_rows` is 2, 7 or 20, one
    of the tables has as many rows, or one more.
  - *List of requests.* `NoneSkipped`: whoever turns the pages sees every request
    there was, however many arrive. *Browser.* `BrowserRemembers`: the theme
    chosen last is the one saved, the recent pages are in order, a checklist that
    is hidden was dismissed, and as long as the session has not changed under a
    tab, it shows what is of the account signed in (`SessionShown`). Pages of two,
    two tabs, two accounts and two sign-ins or sign-outs are enough for an answer
    to come to each place it can come to.
- **log_stream.** `NoGap`: the cursor passes no row that is due, whichever answer
  comes last. `OnceInOrder`: while polls do not overlap, once and in order.
  `EventuallySent`: a due row is sent, as long as the client stays. *Due* are
  rows newer than the connection that commit in the order of their stamps; that
  others are lost is what the code does, and is listed as a hazard.
- **browser_and_billing**, by part:
  - *Billing.* `OneKeyAtATime`: a webhook or a checkout whose copy is not
    stale changes one key. `OneCustomer`: a second customer has four causes only,
    one of them a client's patch of the customer. `PlanAsSold`: the webhook's
    thresholds agree with the checkout's prices, and the plan is the one sold
    last but for an update that failed, or a stale copy or another plan in a patch
    written since. Two deliveries, two checkouts and one patch, of any plan,
    customer and note, are enough for every writer to meet each other, and itself
    once more; the proof is for any number.
  - *Pages.* `OwnWriteShown`: after a write that succeeded, no page shows what
    was there before as current, but for the writes listed as `Overlooked`,
    whose mutation does not invalidate the query. One write, as two make
    millions of states; a second write differs from the first only by the number
    it is known by.
  - *Chat.* `ChatKept`: an answer is added to the chat it was asked in and
    nothing else is lost, and saved under the model it was asked of; what is
    stored has what was stored before, though the browser may have refused it in
    between, unless another tab or visit stored meanwhile. Two models, three asks or
    doings of other tabs, and two visits. *Log page.* `OneStream`: one connection,
    with the filter on show, and always one or a timer for one while the page
    streams; what is sent once and in order is listed so, across reconnections.
  - *Dialogs and drawers.* `EnteredAndDone`: what was entered is done once, and
    for what it was entered for. A test is shown as it is in the database, but
    for what the user asked of it that is done and not answered yet, and is told
    only what its status allows; unless he was *surprised*: by another user, by
    an answer that was lost or came late, or by two orders at once. *Rate
    limits.* `EditsKept`: an edit is pending until it is saved. Three sends are
    one, one more meanwhile and one after; two rows are the one on show and
    another; a route, a key and two edits are one that is being saved and one
    that is made meanwhile.

Where a property names an exception (a page *strayed*, an edit *lost*, a drawer
*surprised*, a page of the list *lagging*), the exception is what the code does
wrong, made exact; section 6 lists them.

**Bounds** are named constants (`Max...`) in guards, described where they are
declared; none is in the code but `MaxEntries` of the cache, `MaxPast`,
`MaxRecent`, `MaxEntries` of the log page and `PageSize`, which are there with
larger values. **Symmetry** is used for keys, callers, texts and requests that no
definition tells apart, in runs without liveness.

**Fairness**, where a property needs it:

- `Cache`: weak for `EvictionTick`. The ticker of the goroutine started by `New`
  is never stopped.
- `MeterWriter`: weak for each goroutine's `Take` and `Insert`: the scheduler
  runs what can run, and every insert ends by the deadline. Weak for
  `TickerFires`. Strong for `DoneReceived`: once done is closed it is always
  ready when the loop selects, and `select` chooses at random among what is
  ready. None for callers, `Close`, `Deadline` or `End`.
- `LogStream`: weak for the interval and for `Handle` (the event loop runs what
  is ready). Strong for `Answer`: queries may fail any number of times, but not
  every one from some moment on. None for the client or for commits.

The other modules have no fairness: an awaited statement, an answer or a user
may never come, and what they promise is safety.

Every property has a mutant: a plausible mistake in the code the property fails
for, under the same configuration.

## 4. The proofs

`tlapm <module>.tla` proves every obligation. The theorems hold for all values
of the constants: any number of callers, keys, records or rows, any bounds.

| module | theorem | says |
|---|---|---|
| `CacheProofs` | `TypeCorrect`, `BoundedSize`, `EntriesAtMostSize` | `TypeOK`, `SizeBound`, `EntriesNeverOvercounts` |
| | `EvictionIsLeastUsed` | `EvictsLeastUsed` |
| | `CacheImplementsLossyMap` | `ImplementsLossyMap`, that is `Spec => Abstract!Spec` |
| `MeteringProofs` | `TypeCorrect`, `RecordsInOnePlace`, `BoundedBuffer` | `TypeOK`, `OnePlace`, `BufferBound` |
| | `PagesTellTheSame` | `FiguresAgree` |
| `LimitProofs` | `SingleBucket`, `RateLimited`, `NoNeedlessRefusal` | `OneBucketPerKey`, `RateBound`, `RefusesOnlyWhenDue` |
| | `LpTypeCorrect`, `LoopsAreDetected`, `AlarmsAreReal` | `LpTypeOK`, `DetectsLoop`, `NoFalseAlarm` |
| | `SelectsRightly`, `ValidatesRightly` | `SelectsWell`, `RejectsRightly` |
| `GatewayProofs` | `BudgetTypeCorrect`, `OverdraftIsBounded`, `SpendNeverGoesBack` | `BgTypeOK`, `OverdraftBound`, `SpendOnlyGrows` |
| | `SpendIsRecent`, `KilledHasIncident`, `AuthenticatesTruly` | `JudgesRecentSpend`, `KilledOnRecord`, `AnswerTrue` |
| | `StreamsAreFaithful`, `NoneIsCutShort` | `StreamFaithful`, `NoneCutShort` |
| `ControlProofs` | `TypeCorrect`, `HistoryHasTheTemplate`, `EditsNotMixed`, `SerialHistoryIsExact` | `TypeOK`, `EveryTextRecorded`, `PairRecorded`, `SerialHistory` |
| | `RowsStaySound`, `GuardHoldsAgain`, `ClonesStayWhole` | `RowsSound`, `GuardStillHolds`, `CloneWhole` |
| `LogStreamProofs` | `TypeCorrect`, `NothingLost`, `SentOnceInOrder` | `TypeOK`, `NoGap`, `OnceInOrder` |
| | `OneStreamOpen` | `OneStream` |
| `BillingProofs` | `TypeCorrect`, `CustomerIsOne`, `PlanIsAsSold`, `KeysAreSetOneAtATime` | `TypeOK`, `OneCustomer`, `PlanAsSold`, `OneKeyAtATime` |
| `PageProofs` | `NoEditTakenAway`, `DoneAsEntered`, `WritesAreShown` | `EditsKept`, `EnteredAndDone`, `OwnWriteShown` |
| | `NothingLostInChat`, `BrowserRemembersAll`, `NoRequestSkipped` | `ChatKept`, `BrowserRemembers`, `NoneSkipped` |

**Assumptions** are those of the modules and are evaluated in every run: limits,
windows, bounds, costs and amounts are natural numbers, a minute, a page of the
list and the past a chat keeps are not zero, nor are the default timeouts of the
process (those read from its environment may be anything), a loop limit is not
zero (a call with one returns before it touches anything), requests under way
are finitely many and estimates bounded, a model's figures and a route's weights
are natural numbers and each candidate has an id of its own (`id` is the primary
key of the table), JSON values and schemas are nested finitely deep (at most
`Depth`, any number), markers for "none" are not values, tables are sequences of
rows with times and costs, a day and the target of a test are not zero, the kinds
of processes are disjoint, and a chunk is not one of the other lines of a stream.
`SceneAssumption` is the one that says more: the rows an API behaviour
starts from are sound, and its requests are ones the program can be sent, that
is, for a route and method there is a handler for, with a body the handler's
check lets through.

No theorem has a hypothesis more than these.

**Arguments.** Each module has an inductive invariant, a lemma for the initial
states, one per action, and one that puts them together.

- *Cache.* The statistic and the size bound depend on cardinalities, so `IInv`
  adds that the stored keys are finite; `EvictedBounds` says that what `Set`
  evicts leaves room. The refinement needs more than `IInv`: every entry in the
  map or in a caller's hand was numbered by a `Set` that happened (`Numbered`),
  so that a new one is new. The abstract answer of a caller is its entry from
  its lookup on, and a miss once it judged the entry expired. `UsesSeen`: an
  entry carries the time of its last use or a later one, also while the Get is
  between the lock it recorded the use under and its answer; so the order of the
  recorded times that `Set` evicts by is enough for the order of the uses.
- *MeterWriter.* `OnePlace` is inductive together with the types, which say what
  a goroutine holds at each place. The bound counts: an append adds one record
  and either stays below a batch or adds one flushing caller.
- *Reports.* The state has no more than the answer to say (`Reported`), so the
  work is in what the selects return and in sums. A select that is not cut has
  the whole of its window (`CutIs`); one that is cut has the oldest, so what the
  dashboard has of the last day the analytics page has, or `maxRows` besides
  (`CountedOnce`). Sums are `Total`, the library's sum over a set, a recursion
  along the elements `CHOOSE` takes. `BySmaller` is induction over the subsets
  of a finite set, with a set in the place of a predicate; from it, there is
  such a sum (`Adding`), only one (`SameSum`), and it does not depend on the
  order (`AnyFirst`). Then groups add up to their union (`TotalOfGroups`),
  whatever the key. A row has a bar when its day is one of the last seven, and
  otherwise lies before them (`BarsRight`); the element at ceil(0.95 n) is the
  least latency that 95 of 100 do not exceed (`PercentileRight`); and a rounded
  average is q at least exactly when what its scores are above q adds up to 0 at
  least (`AverageAbove`), so that not all models can be above, or below, the
  average of all.
- *RateLimiter.* `RateBound` alone is not inductive: the tokens left must be
  accounted for. `Account(k)` says that for every time, what was granted since
  and what is left is at most what was earned since, and that for some time the
  two are equal; the equality is what makes every refusal due.
- *LoopDetector.* `Complete`: the list has every call of the prompt after the
  latest cutoff anyone pruned it by. `CutoffPast`: a waiting caller's cutoff is
  no later than its window now. Both theorems compare the cardinality of what
  was counted with that of what was seen.
- *Router.* One call has no invariant to strengthen but what its arguments are;
  the work is in the lists it builds. The library's induction takes an operator,
  which no prover here can instantiate, so `Upward` proves induction from a set
  instead (a least element of what is missing), and every loop is followed with
  it: `Sifted` keeps what is in a set, all of it, once and in order, each at the
  place its predecessors leave it, and `MinLat` is the least latency, if all are
  above 0. Then the spreads and with them the scores depend on the set of the
  candidates only, a better model scores higher (`ScoreBetter`), and so stands
  before in any sorted order; moving one to the front keeps the order of the
  rest, and so does cutting off the end.
- *Validator.* A recursive function over the depth, so that `AcceptedIs` and its
  like can say what it is at one depth in terms of the depth below; that there
  is such a function is proved from `Recursion`, as for the router's loops. At
  every depth what conforms is accepted, and what is accepted of an explicit
  schema conforms (`AcceptsRightly`), by `Upward`. At one depth that is
  `KindsFit`: the code takes no fewer kinds than a schema means, and no more
  when it is explicit.
- *Budget.* `Agrees`: every copy has the limit of the row and no more spend than
  the row. `Reserved`: the requests that will go on may all be charged what they
  were estimated at, and one of them, the last that was let through, still had
  its estimate left in the budget; the others are fewer than the requests and
  cost one greatest estimate each at most.
- *Cost window.* The window is what is not evicted; its times are sorted, so that
  the first that has not expired has only later ones behind it.
- *Kill switch.* A lock that one activation holds at a time, and that an incident
  is counted in the commit that turns the switch.
- *API keys.* `Informed`: `judged` has the truth of the present moment, and by
  the time a call whose first lookup worked makes its second, the token is not
  the hash of the row any more unless there was a moment at which it was not
  valid: a hash never comes back.
- *Provider.* `Fed(n)`: what the reader returned is the chunks of the first `n`
  lines, none of which ends a stream; `n` is how far the scanner is until the
  reader has ended, and from then on the place it `Stopped` at.
- *Process.* `InTime`: a request still arriving came before the signal and within
  the read timeout. `Prompt`: draining lasts no longer than the shutdown timeout.
  So when `Shutdown` gives up on a request, the one timeout is not longer than
  the other.
- *Templates.* What was read or snapshotted stays known: `HasRead(e)` and
  `Written(e)` say that what a request read, and what it is about to write, is
  in the history, among the failed inserts or owed by a POST. `Serial` is for
  the requests that come one at a time: between two of them the history is
  exact, and `Midway` says by how much it is not at each statement of one.
- *API.* `SoundRows`: rows have identities and names of their own, their
  references lead to rows, each is in a collection that is there, of a kind the
  schema allows and in the same organization, and every status has its time.
  `HandlersSound` goes through every handler of the table and says of each
  statement of its plan what the next lemmas need: that an insert fills what its
  table requires from a row read before or just made, that an update leaves
  references alone and sets the time with the status. A delete removes a row
  and, by the cascades, what refers to it: references go up a tree of tables of
  depth six at most (`Depths`), so five steps take all there is (`GoneClosed`),
  and what is left has its references (`WithoutSound`). That a row read earlier
  in the call may be gone by now is why an insert is proved sound from the check
  of the reference in its own statement, not from the read. `Evolves` says what
  one step makes of the rows: each is one there was, in its place and with no
  new reference, or is new and fits what it refers to. So at all times a row
  refers to its collection, or by a column of a table its schema names
  (`ApartInv`), and a row that a delete takes or changes is the one deleted, in
  its collection, or refers to a row that goes, in whichever organization.
  `HandlersGuarded` goes through the handlers again: the policies of the tables
  a plan writes let in no role the guard keeps out. The two together give
  `GuardHoldsAgain`, without a word about when the guard ran. *Clones.* What a
  call has made nobody else has made (`OwnInv`), so the routes the property
  looks at are its own, whatever others add. A route goes only with its
  environment, and keeps its limits until a request names it (`RoutesStay`, as
  none deletes a route and routes hold their models). `Cloning` follows the five
  statements: the routes named when the request came are at the source while it
  is there; a read finds all of them or, by row security, none; the new
  environment is empty until they are copied, all in one insert; and nothing but
  the end of the plan answers with success (`OkLate`).
- *LogStream.* A cursor is *safe* if every due row is sent, pending or newer.
  The cursor of the connection and the cursor of every poll are safe at all
  times, so is whatever an answer moves the cursor to, and that is why the order
  of answers does not matter. A row that commits later cannot make one unsafe,
  because no cursor is beyond what is committed (`Reached`): such a row is newer,
  or late.
- *LogsPage.* `Alone`: unless the page strayed, every open stream is the one
  referred to, with the filter on show, and a timer runs only while none is open.
  `Sorted` and `Filtered`: what is due on a stream passes its filter, what is listed
  the page's. `NewestFirst`, while nothing was sent again or out of order: what is
  due is newer than what is listed. `Connected` needs neither: a page that streams
  has a stream or a timer.
- *Billing.* `AllFresh`: a copy that is not stale is the row, but for the
  customer just made. `Customers` ties the step of the one checkout under way to
  whether the customer exists and is saved. `Write` is the hard case: it makes
  every other copy stale, and what it brings back of plan and customer is the
  row's. `Edit` brings anything, makes every copy stale, and says itself whether
  the plan or the customer are other ones.
- *Rate limits.* `SentKept`: what is saving has every pending edit that was not
  made since it was sent.
- *Dialogs and drawers.* `Counted`, `Waiting`: the server has made of a text what
  it was sent for, once more than was denied at most, and the text in the form is
  under way only while the buttons wait for it; a second sending has a new text.
  `NotesFit`: a note is for the incident selected, unless the page closed the
  drawer. `OneAtATime`: unless the page was surprised, no two things are under way
  for one test. So one that is not done yet was ordered from the status the test
  still has, and one that is done says what it has by now (`TestsTrue`, which the
  server's step and the answer's step keep each for its own reason).
- *Pages.* `AllCurrent`: an entry that has data older than a write the user was
  told of is marked stale or was under way at the time; `MarkedOnShow`: one that
  is shown and marked is being fetched, or failed. `TablesFit` is the fact about the
  tables that carries it: a mutation invalidates every query that reads what it
  writes, if the pair is not listed as `Overlooked`.
- *Chat.* `OnePresent`: one ask streams into the page. `Rendered`: the render it
  captured is the chat without its exchange, and the sessions of the page, or those
  an ask has captured, are the stored ones behind as many as were refused since
  (`Behind`, which every save keeps). `NoneAnswered`: an answer is nowhere
  before it is complete, so that what its end adds is new.
- *Browser.* `Chosen`: while no effect was interrupted, one tab at most has an
  effect to come, and it is about the theme chosen last. `EachOnce`: a list of
  recent pages, read or about to be saved, has each page once.
- *Session.* `AtProvider`: of a tab that is at the provider no call runs, and it
  holds nothing, which is why coming back from there needs no reload. Each call
  of a form that is on show is the one its tab waits for.
- *List of requests.* The rank of a row, how many of the filter are above it,
  only grows. `PagesCovered`: all that comes before a page, in any version it
  is cached in or fetched in, was seen. A page cut out later begins no further
  down the list, so turning to it leaves nothing out; `lagging` is the case in
  which it was cut out earlier.

**Only model-checked:**

- `TickerHeals`, `RecordsLeaveMemory` and `EventuallySent` are liveness, which is
  out of the prover's reach.

## 5. Where the code and its comments disagree

Each has a run in which TLC finds the comment violated.

- `meter_close`. "Close stops the flush loop and writes remaining records"
  (`internal/meter/writer.go:109`): it closes a channel and waits for nobody, so
  a process that ends after `Close` can leave records unwritten.
- `templates_bump`. "If content or variables changed, bump version"
  (`templates/[templateId]/route.ts:74`): the version is one more than the one
  read, and the update does not test it, so two edits that overlap save two
  texts under one number.
- `log_stream_abort`. "Cleanup on abort" (`logs/stream/route.ts:71`): the
  listener is registered after the first poll was awaited; a client that left
  before is never cleaned up, and the interval polls on.
- `replay_recorded`. "Record the replay as a new request"
  (`replay/route.ts:203`): row security has no policy under which a user may
  insert a request, so the insert is refused after the provider was asked.
- `organization_made`. "`POST` `/api/v1/organizations` Create a new organization"
  (`README.md:244`): the row is read back in the statement that inserts it, which
  needs a membership that a trigger makes only afterwards; it is always refused.

## 6. What else was met on the way

The properties hold with these written into them as exceptions, or they lie
where no property is stated. Each was read in the code; none has a run of its
own.

*Gateway.*
- A model of unknown latency spoils the score of the others (`engine.go:134`).
- By default the read timeout (30 s) is longer than the shutdown timeout (15 s):
  a request within its time is cut off. The default base URL of the SDK
  (`client.ts:5`) has no `/v1`, and the gateway serves nothing else.
- A stream that ends without `[DONE]` reads as complete; the reader goes on past
  `[DONE]` if asked again; a line over 64 KB ends the stream with an error; an
  error object of the provider within a stream decodes as an empty chunk.
- A failed lookup is answered as "invalid API key"; `expires_at` of a key is not
  looked at. `LoadModelsForEnv` ignores the error that ends its rows.
- The validator lets everything pass for the type "null", for a list of types and
  for a schema that is no map, and fractions for "integer"
  (`schema/validator.go:38-41`, `:53`, `:82-98`).
- `EstimateOutput` can exceed the maximum of a small model, and does not grow
  with the input throughout.
- The repairer, the replay and the playground send the stored, encrypted key.
- Nothing resets `budget_used_usd`; nothing but tests calls `Evaluate`,
  `IncrementBudgetUsed`, `Observe`, `SetBaseline`, `Deactivate` or the loop
  detector's `Cleanup`. Resolving an incident does not turn the switch off.

*API.*
- The webhook takes a failed read for an empty row (`billing/webhook/route.ts:23`)
  and looks for the organization in the metadata of the subscription (`:82`),
  where the checkout does not put it.
- Row security looks at the organization of a row, not at what the row refers
  to: an admin may make an alert on an environment of another organization
  (`alerts/route.ts:63`), or a test on a route of one (`ab-tests/route.ts:74`),
  and a delete there takes it along, as `GuardStillHolds` has it. An alert to a
  webhook of another organization keeps that one from deleting it.
- An admin who finds a clone in the list may add routes to it, or change the copied
  ones, before the request that makes it is answered: `CloneWhole` is about the
  routes the clone made, and lets those that were named have other limits.
- "Fetch requests from last 7 days (covers all needed time ranges)"
  (`dashboard/route.ts:32`): the select is ascending and cut at `max_rows`, 1000 in
  `infra/supabase/config.toml:9`, so past a thousand requests a week the dashboard
  has the oldest, and what it shows of the last day and of today falls short, to 0
  in the end. `FiguresAgree` has the cut, and says what is right in spite of it.
- The test delivery of a webhook is always refused by row security, and the error
  is ignored (`test/route.ts:81`). An organization "deleted" by an admin is
  answered with 204 and stays. `audit_log` is never written.
- Any status of an A/B test may follow any other; the metrics of its results are
  0, as the select names a column that does not exist; its winner is the first
  variant with ten samples, where a comment says "lowest cost"
  (`results/route.ts:106`).
- `middleware.ts` is beside `src/` of the application, where Next.js does not look
  for it. If it ran, it would also redirect Stripe's webhook to the login page.

*Pages.*
- Signing out, or in with a form, keeps the `QueryClient`: until its entries are
  refetched a tab shows what another account was answered (`user-menu.tsx:19`).
  The error of `signOut` is not looked at, so the login page may be shown to one
  who is signed in. A form that was left sends its tab to the overview when it is
  answered. Two sign-ins with a provider share one verifier: the first to be begun
  fails, and the login page does not show `error=auth_callback_failed`.
- "Environment updated" is said of a dialog that sends nothing
  (`settings/environments/page.tsx:458-504`).
- The page of templates calls a function that sets state while it renders, and
  cannot be rendered once there is an organization (`templates/page.tsx`).
- An edit of the limits made while a save runs is lost when it succeeds, and
  saving one limit of a route takes back a pending change of the other.
- The chat is set to the messages of the render that asked: clearing it, or
  loading a session, while an answer streams is undone. A stopped answer is not
  kept; leaving the page does not stop one.
- Filtering the log page, or leaving it, in the five seconds after an error leaves a
  stream that nothing closes; on a page paused in that time the timer opens one that
  lasts, and lists rows, until the next click.
- The success of a form sent before closes, and empties, the dialog opened again
  meanwhile; opening the replay dialog again forgets a replay under way, whose
  answer then takes the place of the form.
- An incident drawer that the page closes (`incidents/page.tsx:156`) is not
  reset, against the comment at `incident-detail-drawer.tsx:177`, and another
  incident can be resolved with the first one's note; a replay answered after
  the request drawer was closed shows under another request.
- In the list of requests, a page turned to that was cut out before the one left
  skips what lies between, for the minute it is fresh; and a first fetch of a
  later page that fails shows "No requests yet", without filter or pager.
- The controls of an A/B test are not disabled while an answer is waited for, and
  the answer takes the place of whatever test, or list, is on show by then
  (`ab-tests/page.tsx:354`); with a copy that is old, a test that is completed is
  started again.
- Resolving an incident does not invalidate the dashboard, which shows it as open
  until its answer is a minute old (`incidents/page.tsx:153-157`); making, cloning
  or deleting an environment does not invalidate the routes counted for each
  (`environments/page.tsx:99-124`), nor does deleting one, a test or a webhook
  invalidate what goes with it.
- The sessions of the chat that `localStorage` has no room for stay on the page and
  are stored with the next that fits; until then another tab, or a reload, does not
  have them. A tab stores the sessions it knows: those of other tabs are lost.
- An answer that was under way when a write succeeded is taken for fresh. The
  playground and the replay dialog share the key `["models", orgId]`.
- The first effects of a tab write "system" over the saved theme until its next
  render; a tab closed between the two loses the choice.

## 7. What is not modelled, and why

- The handler of the main endpoint beyond its checks: it answers 501. The order
  in which it will call the packages decides which of their properties carry
  over; it is to be modelled when it is written.
- Token estimator: formulas over lengths, without states or callers.
- Database pool, encryption, the types of the SDK: I/O and declarations.
- The rendering of pages: about 16,000 of the 22,700 lines of the repository are
  markup, styles, tables of columns, charts, and the static pages (landing page,
  docs, API reference). They have no behaviour to check; the state, the
  callbacks and the queries of the pages are what the modules have.
- `templates/page.tsx`: see 6.
- `checkRateLimit`, `withSecurityHeaders`, `rbac.ts` and `completeStep`: nothing
  calls them. `validate.ts` refuses a body before any statement.
- Within the modelled parts: hashing of cache keys, `Snapshot` and `SavedCost`,
  rounding of floating-point numbers, names and tags of templates, filters of
  the stream, the contents of prompts, answers and payloads, signatures.
- `infra/supabase/migrations` repeats `supabase/migrations`.

## 8. The plan

Done: everything planned at first, that is `Cache` with `LossyMap`,
`MeterWriter`, `RateLimiter`, `Templates`, `LogStream`, `LoopDetector`,
`RouterEngine`, `Billing`, the guards and services of the gateway, the API over
its database, the reports and the state of the pages, with the proofs above.

Left:

1. The request pipeline, composed of the packages, once the handler is written.
   The theorems of the packages are stated for callers of any kind, so they hold
   of the pipeline too; what is to be added is what their order promises: that
   every request let through by the budget is metered, and that a killed route
   is not tried.
2. A handler or a policy that compares the organization of a reference with its
   row's: `GuardStillHolds` could then do without its last case.
