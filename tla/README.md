# Atomic Intel: a TLA+ model of the service

Atomic Intel collects and enriches company data: a FastAPI process accepts
requests, taskiq workers run an LLM research agent and have a task that sweeps
freelance marketplaces and job boards, and a Telegram bot administers tenants.
Redis carries the task list, the task records, the locks, the rate-limit windows
and the seen sets; PostgreSQL holds tenants and keys; a volume on disk holds the
durable copies of finished tasks. What is hard to test here is not a single function but what several
processes do to the same Redis keys when endpoints come and go, processes die,
keys expire and calls fail halfway.

## 1. Inventory

| component | source (under `src/src/`) | state | operations | modelled |
|---|---|---|---|---|
| research queue | `api/routers/research.py`, `infrastructure/queue/research_task.py`, `llm_health.py`, `broker.py` | the taskiq list, records in flight, `_probe_cache`, drain locks | `POST /run`, `execute_research_task`, `run_supervisor_once` | `ResearchQueue` |
| status and stream readers | `api/routers/research.py` | `_TaskCache`, open streams | `GET /status`, the SSE stream | `StatusStream` |
| research agent | `actions/research/agent.py`, `modes.py` | one run's dialog, budgets, seen searches and pages, proposals | `run_research`: turns, tools, critic, compaction, salvage | `ResearchAgent` |
| search and scrape tools | `actions/research/tools.py`, `http_fetch.py`, `external_api/searxng_client.py` | none of their own | fetch a page, search | `Fetching` |
| HTTP, proxies | `infrastructure/http/*`, `browser/proxy_provider.py` | the index of the proxy list, two memories of dead ports | request with rotation | `Fetching` |
| browser pool, sessions | `infrastructure/browser/*`, `queue/session_actor.py` | launch lock, browser, driver, contexts | launch, open, render, close | `Fetching` |
| Yandex Maps | `actions/yandex_maps.py` | one scan's collected items | discovery, card, reviews | `Fetching`, `Collectors` |
| sources, catalog | `actions/monitoring/base.py`, `sources/*`, `actions/catalog/*` | one scan's collected items | page loops over foreign sites | `Fetching`, `Collectors` |
| site enrichment | `actions/site_enricher.py` | none | render and clean a site | `Fetching` |
| research store | `infrastructure/tasks/research_store.py` | `research:task:*` (24 h), disk copies, process-local fallback | `get_task`, `set_task`, scans, `try_claim_drain` | `ResearchStore`; scans and locks in `ResearchQueue` |
| tenant gate | `api/auth.py`, `api/middleware/rate_limit.py`, `rate_limiter/token_bucket.py` | auth cache, Redis windows | resolve a key, count a request | `TenantGate` |
| tenant registry, bot | `infrastructure/db/*`, `bot/*` | tenants, keys | newkey, revoke, quota, llm settings | its commands, in `TenantGate` |
| monitoring | `queue/monitor_worker.py`, `tasks/monitor_store.py`, its router | seen sets, recent feeds, fallbacks | sweep: collect, filter, mark, record | `MonitorSweep` |
| LLM clients | `infrastructure/external_api/*` | none | one request per call | their outcomes, in `ResearchAgent` |
| action DSL, schemas, shell | the rest | none worth a state | | no |

How they interact: the API and the workers share nothing but Redis, disk and
PostgreSQL. `POST /run` counts the tenant's active records, writes a record and
pushes a message; a worker pops the message (it is gone from Redis before the
task runs), reads the record, probes the tenant's LLM endpoint and either runs
the agent or parks the record as `queued_waiting_llm`. A supervisor loop inside
every worker process scans for parked records, probes their endpoints and
pushes a new message for each, under a Redis lock per task. Callers poll
`GET /status` or stream it, through one cache of the API process. The agent's tools,
the sources and the catalogs fetch pages through one proxy list and one headless
browser per process.

What is hard, and what correctness means there:

* Two supervisors, two workers and the API race on one record: a task must be
  executed once at a time and an answered one must stay answered.
* A call fails halfway (the record is written, the push raises): no task may
  stay `running` with nobody holding it, since it takes one of its tenant's slots.
* A parked task must run once its endpoint is back, past three caches of the
  verdict: the gate's, the supervisor's and the lock.
* A record or lock can expire while somebody works from what it said before.
* A concurrency cap compared once, at admission, must hold for ever after.
* The agent's loop is sequential, but every step of it answers something that may do
  anything: the model may call any tools in any order, and the model, the critic, the
  compactor, the search engine and the scraper fail independently. The dialog, the
  budgets and the report must stay consistent on every path out.
* Readers share a cache and must not go back in time, nor wait for ever.
* Fetches share proxies, dead-port memories, a lock and a browser that may fail at any
  await; they must not starve, skip a working port, or pile up contexts.
* A listing moves while it is paged: nothing may come twice, nothing fall between pages.

Every hazard found, with its line and the properties that would notice, is in
`PROJECT.json`.

## 2. Modules

| module | what it is |
|---|---|
| `ResearchQueue` | the research tasks' life over API, list, slots, supervisors and store |
| `TaskLifecycle` | what the service promises of one task; `ResearchQueue` refines it |
| `ResearchStore` | one record in its three tiers, call by call, under outages and crashes |
| `RecordRegister` | one atomic record and the last completed one, which is left when it expires; `ResearchStore` refines it while Redis answers |
| `TenantGate` | a request of a tenant: auth cache, quota windows, bot commands |
| `MonitorSweep` | sweeps over the seen sets and the feed |
| `ResearchAgent` | one research run: turns, tools, critic, compaction, cost wall, salvage |
| `StatusStream` | polls and event streams of a task over the bounded record cache and the store's tiers |
| `Fetching` | every kind of page fetch over the shared proxies and the shared browser |
| `Collectors` | every loop over pages, feeds or scrolls of a listing that changes meanwhile |
| `MCResearchQueue`, `MCResearchStore`, `MCTenantGate`, `MCMonitorSweep` | the instances TLC checks |
| `MCQueueLive` | `ResearchQueue` under fairness, in two shapes |
| `MCService` | `ResearchAgent`, `StatusStream` and `TenantGate` side by side |
| `MCScraping` | `Fetching` and `Collectors` side by side |
| `ResearchQueueProofs`, `ResearchStoreProofs`, `TenantGateProofs`, `MonitorSweepProofs`, `ResearchAgentProofs`, `StatusStreamProofs`, `FetchingProofs`, `CollectorsProofs` | the theorems about a module and their proofs |

The two detailed models meet at the record: `ResearchQueue` reads and writes it in
one step with Redis always there, which `StoreIsRegister` justifies; what happens
to the record when Redis is away, a file operation fails or a process dies inside
`set_task` is `ResearchStore`.

### ResearchQueue

| model | code |
|---|---|
| `redis`, `disk`, `GetTask`, `SetTask` | `research_store.get_task` / `set_task`: Redis first, disk second; a patch is merged into what the read returned |
| `queue` | the taskiq list, as the number of copies of each message |
| `Submit`, `ApiEnqueue*` | `run_research` up to and from the `await kiq` |
| `slotPc`, `slotTask`, `Receive` .. `Persist` | `execute_research_task` from await to await: *received* before `get_task`, *gate* before the pre-flight probe, *agent* inside `run_research`, *persist* between the Redis write and the disk copy |
| `up`, `Probe`, `CachedProbe`, `cache` | `_ping`, `check_llm_reachable` and its per-process `_probe_cache`, keyed by URL alone |
| `SupScan`, `SupProbe`, `SupSkip`, `SupClaim`, `SupMark`, `SupEnqueue*` | `run_supervisor_once`, from call to call; `todo` and `group` are its snapshot |
| `locks`, `LockExpire` | `try_claim_drain`: SET NX EX 120, never released |
| `RecordExpire`, `WorkerCrash`, `ApiCrash`, `EndpointFlip` | the environment |
| `stale` | history only: snapshot entries another supervisor has claimed since; no code guard reads it except the assumption of `LockExpire` below |

A record is abstracted to its status and to whether it still carries the fields
`POST /run` stamped on it (`owned`). Reports, queries and messages are left out:
no property tells them apart. A step ends where the code awaits something that
lets another party act on the same keys: a Redis call of the synchronous client
and the code up to the next await run in one step of their process, and two
processes interleave between Redis calls. `Submit` counts, compares and writes in one step because
`run_research` does not yield between the three and the Dockerfile starts one
API process; with several the cap would be a race.

Four switches say what the environment may do, so that each property can name
what it needs. `SlowPasses`: a drain pass may outlast the 120 s lock.
`LostReplies`: a push may be applied and still raise in `kiq`. `Crashes`:
processes die and restart; a restarted process has nothing of its memory, and a
popped message is not put back. `Expiry`: a record nobody has in hand may reach
its 24 h TTL (a handler between two steps takes far less; a message in the list
may well wait that long).

### ResearchStore

| model | code |
|---|---|
| `redis`, `local`, `path`/`tmp`/`data` | the Redis key; `_local_fallback` of each process; `<id>.json`, `<id>.json.tmp` and the inodes behind the two names |
| `GetTask` | `get_task`: Redis (or the fallback when it raises), then disk; a file that does not parse is no record |
| `Call` | `set_task` up to its write: read and merge |
| `Write`, `WriteLocal`, `AfterWrite` | SET EX; the fallback branch, the write applied or not; the durable copy of a completed record |
| `Open`, `Fill`, `Replace`, `DiskError` | `_persist_to_disk`: truncate or create the temporary file, write it, `os.replace`, the logged OSError |
| `Crash`, `Expire` | the environment |
| `Patches` | the patches the callers make, by what has been said of the task: a repeated execution (`redo`, `overlap`) and one that outlives the record may write any status over any, as `execute_research_task` and the supervisor do without looking |

`faults` is chosen in `Init` from the constant `FaultSets` and never changes: one
run checks several environments and each property says which it needs. `told`
(what the calls say the record is), `kept` (the last completed record they said, which is
what the durable copy holds and an expiry falls back to) and `minted` are history.

### TenantGate

| model | code |
|---|---|
| `keys`, `quota` | the rows of `api_keys` and `tenants`; every other setting of the tenant is cached and changed the same way, so `quota` stands for them |
| `NewKey`, `Revoke`, `SetQuota` | the bot's commands, each one transaction |
| `Arrive`, `Answer`, `CallNext` | `RateLimitMiddleware.dispatch` up to the counter, then the route's `get_api_key`: both resolve the key |
| `Hit`, `Miss`, `Read`, `DbError`, `Store` | `_resolve_tenant_key` from await to await; `Store` overwrites what another request cached meanwhile |
| `ConsumeAllowed`, `ConsumeRejected`, `Reject` | `consume` (INCR and EXPIRE NX in one MULTI, then the TTL) and the 429 |
| `LimiterError` | `consume` raises, the increment applied or not: the request goes through |
| `Tick`, `cache[k].left`, `left` | `_cache` entries and Redis windows age together |

`old` (how long the database has stopped giving a cached principal) and `window`
(whom the running window admitted and its least limit) are history. A database
answer is cached at most `Lag` ticks after it was read: asyncpg is given no timeout,
so this is an assumption on the database. Counts and ages saturate where no guard or
property tells the difference (`CountCap`, `Forgotten`).

### MonitorSweep

| model | code |
|---|---|
| `Begin`, `Collect`, `CollectError`, `Advance` | the loop of `run_monitor_sweep`; `collect` is its only await |
| `Filter`, `Mark`, `Record` | `filter_new`, `mark_seen`, `record_new`: synchronous, so a process runs one sweep between two awaits (`Alone`), and two processes interleave between the calls |
| `seen`, `localSeen` | the Redis sets and `_local_seen` of each process |
| `emitted` | how often an item was pushed (2 stands for more); the feed's order and cap are left out |
| `Publish`, `Withdraw`, `SeenExpire`, `Crash` | the sites, the 7-day TTL, a worker process |

The environment (`faults`, where each sweep runs, which sources never answer) is
chosen in `Init` from `Settings` and fixed. In `away` Redis never answers and the
fallback is all there is; in `redis` each call may raise.

### ResearchAgent

| model | code |
|---|---|
| `pc`, `turn`, `BeginTurn` | the `for turn` loop of `run_research`; the clock is read at its head only |
| `open` | tool calls in `messages` whose result message is not there |
| `prompt`, `spent` | `last_prompt` against the compaction trigger and 85 % of it; `main_usage`, a main call being one unit |
| `ModelAnswers`, `ModelFails`, `Compact` | `client.chat`, `compact_context` (which returns the messages as they are when its call fails) |
| `Search`, `Scrape`, `Submit`, `UnknownTool`, `Malformed` | the branches of the tool loop, each with its result message; `Malformed` is an exception that leaves `run_research` |
| `Salvage`, `Report` | `_forced_submit` and the force-accepted report |

A submission is its number and whether it says anything. Scores, gaps, angles,
reminders and elided results only go into texts the model reads, and the model may
answer anything, so they are left out. `verdicts`, `requests` and `hard` are history.

### StatusStream

| model | code |
|---|---|
| `taskCache`, `CacheSet`, `Kept`, `LiveEntry` | `_TaskCache`: lazy expiry, and the sweep on insertion |
| `record`, `durable`, `local`, `Stored` | the tiers as `get_task` of the API process sees them: Redis, or its own fallback while Redis is away, then the disk copy |
| `Posted` | what `POST /run` leaves of a task, with each Redis write of it applied or not; a client learns the id, and can ask, only after that |
| `ReadThrough` | cache, store, cache: no await, one step of the event loop |
| `Poll` | `get_research_status` of the owner |
| `StreamRead`, `StreamTimeout` | one round of `event_generator`; between rounds its sleep |
| `Write`, `Forget`, `Outage`, `Tick` | the workers' patches, the record's TTL, Redis, the clock |

`troubles` is chosen in the first state: `outage` (Redis comes and goes and may fail any
write; the worker's fallback then has the record, which the API does not see, and a
completed one is copied to disk all the same) and `redo` (a completed task is executed
again). A record is a version and a status; `shown` and `behind` (what a reader was given,
and for how long a cached version has been overwritten) are history.

### Fetching

| model | code |
|---|---|
| `Kinds` | the callers: how each picks a proxy, which answers bench a port or end the tries, what follows |
| `idx`, `Advance`, `Skipped` | `ProxyProvider.get_proxy`, `_httpx_proxy`, `_next_proxy_url` |
| `dead` | the two `_DEAD_PROXIES` |
| `Send`, `Answer`, `Spent` | one try of a rotation; between the two any other job runs |
| `EnterLaunch`, `Launch` | `StealthPool.launch` and its lock |
| `OpenContext`, `AddScript`, `Work`, `CloseContext` | `create_context`, the try block and its `finally`; that of a session unsubscribes from Redis first, and never closes when this raises |
| `orphans` | history: contexts nobody will close, those whose `add_init_script` failed and those of such sessions |
| `Crash`, `Unbench` | Chromium dies; 60 s pass |

### Collectors

| model | code |
|---|---|
| `CatalogPage`, `CardFetched` | `scrape_category`, `scrape_profession`, `fetch_card`, `fetch_profile_rate` |
| `GigBatch` | `fetch_user_gigs` |
| `ReviewPage`, `ReviewCaptcha` | `YandexMapsReviewsAction.execute` and its browser fallback |
| `Scroll`, `SsrItems`, `Captured` | `_execute_browser` of the search: `_scroll_until`, the SSR items and the captured responses |
| `Sources`, `Feed`, `FeedFails` | `collect` of fl, kwork, habr, hh, superjob, youdo, zarplata |
| `AvitoPage`, `Filtered` | `collect` of avito |
| `Publish`, `Withdraw` | the site, between two requests |

A page is the items the site lists on it; how HTML or JSON becomes an item is left
out, and so is the order superjob falls back to when its state blob is unreadable. A
request that fails has used up the tries of `Fetching`. Reviews may be listed in any order:
`ranking` is the caller's, and `by_time` only its default.

## 3. Runs

| run | instance | shows |
|---|---|---|
| `queue_flight` | 2 tasks, 2 workers with a slot each, crashes, expiry | types; no task executed twice at once; no answered task reactivated; the proofs' invariant; `TaskLifecycle` is implemented |
| `queue_cap` | as above with cap 1, expiry, no crash | the cap holds through parking and draining; every running record is held by somebody; completed stays answerable |
| `queue_live` | 2 accepted tasks on 2 endpoints with one worker, or 1 task submitted to 2 workers with 2 supervisors, 2 caches and lost replies; fair | a parked task whose endpoint returns is run; an accepted one settles, past the other supervisor's lock, the other process's cached verdict and duplicated messages; merging keeps the owner |
| `queue_slow_pass` | 1 task, 2 workers, slow passes | *violation*: the lock expires under a stale snapshot |
| `queue_shared_url` | 2 configurations with one URL, fair | *violation*: one rejected key parks its neighbours for ever |
| `store_faults` | 3 processes, 3 inodes, four fault sets | every read is the latest record, or once it expired the last completed one, and the tiers are one atomic record while Redis answers, though a completed task is executed again and parked or failed; a completed call that returned is durable though Redis fails; nobody reads a half-written copy whatever fails or dies |
| `store_stamp` | 3 processes, Redis may fail | *violation*: one failed read turns the merge into an overwrite |
| `gate_races` | 2 requests, 1 key, quotas 1 and 2, database errors | a revocation or a new quota takes effect within one TTL and one lookup; no window admits more than a quota or rejects before one is spent; nobody is served uncounted without a reason |
| `monitor_sweeps` | 2 sweeps, 2 sources with an item each, one or two processes, fair | one process pushes an item at most once; two never leave an item to each other; where sweeps keep being begun, a live source is heard though others are dead |
| `service` | a research run of up to 4 turns; 2 tasks, a stream, a cache of one entry; 1 task through its tiers with outages or repeated executions; 1 client and a Redis that may raise; fair | the dialog stays complete, reports carry their own critique and are never silently empty, nothing is fetched twice, the cost wall holds outside hard compactions; the cache is bounded and recent, and readers never go back but where the tiers themselves do; a client that never stops asking is served again and again; runs and streams end |
| `scraping` | 8 pairs of fetches over 2 ports and one browser; 14 kinds of scan over listings of 0 to 4 pages with 2 changes; fair | rotations leave no port out; contexts and drivers are accounted for; scans return nothing twice, and everything a still listing has if it shows its end; jobs and scans end |
| `research_hardcap` | as `service` | *violation*: the token cap does not stop turns that end in a hard compaction |

Two of each actor are enough for the races the code can meet: every conflict is
between two holders of one task or two tasks of one tenant or endpoint, and the
theorems below carry the main ones to any number. The number of messages is not
bounded by hand: the protocol bounds it, except that a lost reply leaves at most one
copy in the list (`queue[t] = 0` in `ApiEnqueueUnacked` and `SupEnqueueUnacked`).
Where tasks share a tenant and an endpoint they are interchangeable, and so are
workers with their slots: `Interchangeable` is the symmetry set of the safety runs
(the actions name no task or worker, and no liveness run uses it). In the store the two
workers and the inodes are. Three inodes are a renamed copy, a temporary file and one
more that a process still has open. The fault sets are expiry with repeated executions,
failures of Redis, and failures of disk and processes without and with those of Redis. A store
behaviour may stop (nobody calls), so
deadlock is not checked there.

In the gate, two requests are what a race on the cache or a counter needs; TTL 1,
lag 1 and a window of 2 ticks let an entry outlive a lookup and a window outlive an
entry; limits of 1 and 2 let a window be raised and lowered while it runs.
`service` has one request at a time, since being rejected again and again needs
only one client.

`MCService` and `MCScraping` put parts that share no state into one instance: `part`
is chosen in the initial state and says which of them runs, so their states add up
and do not multiply. `MCService` has four: a run, the gate, and the readers twice: of
two tasks that are written once each while nothing goes wrong (`stream`), and of one task through
all its tiers, written up to three times in all, with an outage, a repeated execution or
neither (`tiers`); the troubles need one task only, and the full cache two. `MCQueueLive` does the same for two shapes of
one module, told apart by their initial states: two accepted tasks on one worker, or
one task still to be submitted to two workers, beside a completed one. Lost replies
are those of the API and of the second worker, and the endpoint of the pair only goes
up, since `queue_flight` and the other shape have endpoints that go away.

In `ResearchAgent` three normal turns and a hard compaction more than the token cap
of 2 are what each way out needs; two calls in an answer let a submission be followed
by a rejected one or a search by its repetition; of two pages of a domain that may be visited
once the second is exhausted, a failed one is asked for again, and a URL without a netloc and a
query without a word are outside the cap and the memory, as in the code. In `StatusStream` a cache of one entry under
two tasks is full at every insertion, a TTL of two ticks lets an entry age without
expiring, and the deadline of two ticks is met in the middle of a sleep or at its end.
In `Fetching` two ports, two tries and a bench of one tick let every port be benched,
skipped and brought back during one rotation, and the pairs bring together kinds that
share a memory, share the index only, or meet at the browser only. In `Collectors`
pages of two items, three of them read, and listings one page longer than that put
every boundary (empty, one page, exactly full, cut by pages, cut by the limit) in reach;
one listing has its old reviews first, and fl.ru links to fewer pages than the longest have.

Fairness (`Fairness` in `ResearchQueue`): every await of a handler has a timeout
(5 s probe, the agent's deadline), so a started handler and a supervisor's pass
go on (weak fairness); the list is FIFO and slots free up, so a waiting message
is received eventually (strong, because slots are busy in between); Redis
accepts a push infinitely often if it is tried infinitely often (strong, for the
supervisor's retries); TTLs run out (weak). Nothing is assumed of endpoints,
crashes or of the agent's answer; a liveness property asks for its own
endpoint to stay up, and no more. Crashes and expiry are off in the liveness
runs, since each loses tasks and the code promises nothing else.

In `TenantGate` every await ends, with an answer or an exception (weak, per request),
and time passes (strong for `Tick`, since a lookup that must be stored first
holds it back for a while).

In `ResearchAgent`, `StatusStream`, `Fetching` and `Collectors` a step that is enabled
is taken (weak): every model call, request, navigation and launch has a timeout, a
sleeping generator is resumed, `asyncio.Lock` hands the lock on. Nothing is assumed of
their outcome: the model may fail or ask for tools for ever, all tries may fail, Redis
may stay away, items may be published as long as the bound allows.

In `MonitorSweep` a sweep that has begun goes on (strong: another sweep of the process may
be in the way), and a source outside `dead` answers now and then (strong). `SweepStep`
alone would let a source fail for ever. That sweeps begin is not assumed: `ListedIsEmitted`
speaks of behaviours in which they keep being begun (`Sweeping`), because nothing in the
repository does it (see below).

What one process promises two do not: sweeps that overlap in two worker processes
both find a fresh item new and push it twice, and a crash or a failed LPUSH
after the marking loses it. `AtMostOnce` and `NothingSwallowed` state their
environments accordingly.

### What the violations say

* `queue_slow_pass`: a pass spends up to 5 s on every unreachable endpoint, so
  25 dead endpoints outlast the 120 s lock. A task drained by the other
  supervisor in between is claimed again from the old snapshot, marked running and
  pushed again while it executes. The claim does not look at the record.
* `queue_shared_url`: groups and cached verdicts are keyed by `base_url` alone,
  the probe uses the first task's key, and 401 counts as down.
* `store_stamp`: `set_task` reads through the fallback when Redis raises, finds
  nothing, and its write may reach Redis again: the record is then the patch
  alone, without tenant, query and mode, and its tenant gets 404.

* `research_hardcap`: the hard compaction ends its turn with `continue`, past the
  cost wall; one that fails is not counted, so this may go on until the turns run out.

### Seen while modelling

The models keep these as the code has them; no document rules them out:

* No scheduler is deployed: `run_monitor_sweep` is called by a cron task only, which needs a
  `taskiq scheduler` process, and `docker-compose.yml:88` runs `taskiq worker` alone
  (`research_task.py:8-13` says so itself). As deployed, no sweep ever runs.
* The temporary file of a durable copy is `<id>.json.tmp` for every call: were a task executed
  twice at once, the second completion would truncate what the first is about to rename, and
  a reader find the copy half-written (`overlap`; `NoTornRead` leaves it out, `SingleFlight`
  says when it cannot happen).
* A repeated execution may park or fail a completed task; once that record expires, the
  durable copy of the earlier answer is what is read.
* A completed record whose Redis write failed is read from the disk while Redis is away, and
  is hidden again by the older running one when Redis is back, so a client that polls may see
  a task go from completed to running. `ReadsForward` says this is the only way back, with the
  repeated execution, and never within the life of a cache entry.
* A session whose `pubsub.unsubscribe` raises never stops its actor (`session_actor.py:105-107`):
  its context stays open for as long as Chromium lives.
* A scan of reviews with `since_months` ends at the first page without a dated review in the
  window (`yandex_maps.py:620`). With `ranking="by_rating"`, which `POST /reviews` accepts
  together with it, this is a page of old, well-rated reviews, and the newer ones behind it
  are missed; a page of reviews without a readable date has the same effect in any order.
* Of fl.ru no more pages are read than the first one links to and one more behind the dots,
  whatever `max_pages` says.
* A query without a word in it (punctuation only) has no normal form and is searched each time.
* A report that was accepted may still be replaced: the calls after it in the same
  answer are executed, and a later submission that is accepted too is the one reported.
* A submission that is no object forgets the full one before it, and the salvage call
  asks for another; a salvaged report carries the critique of an older submission.
* A critic that cannot be reached accepts.
* A search that failed is remembered, so asking for it again is answered as a repetition.
* When Chromium dies nothing relaunches it: `_browser` stays set. A launch that fails
  leaves its driver running, a failed `add_init_script` its context.
* `httpx.ReadError` is not among the errors `RotatingHTTPClient` rotates on.
* The captcha fallback of the reviews applies neither the date window nor the limit
  exactly, and any other failure loses the pages already read.
* The feeds of fl.ru are concatenated and then cut, so the newest items of the later
  feeds may be the ones cut.

## 4. Proofs

Every theorem holds for every value of the constants that satisfies the named
assumptions of its module: how many tasks, processes, slots, requests, sweeps, jobs or
turns there are does not matter. What a theorem assumes of the environment is in its
statement or in the property itself, and the tables say it.

`ResearchQueueProofs`, any number of tasks, tenants, workers, slots, configurations
and URLs:

| theorem | assumes of the environment | says |
|---|---|---|
| `TypeCorrect` | nothing | `[]TypeOK` |
| `Invariance` | no slow passes, no lost replies | `[]IInv` |
| `SingleFlightHolds` | the same | `[]SingleFlight` |
| `SettledStaysSettled` | the same | `NoResurrection` |
| `CapHolds` | the same | `[]ActiveWithinCap` |
| `CompletedStaysResolvable` | the same, and not both crashes and expiry | `CompletedResolves` |
| `LifecycleIsRefined` | no slow passes, no lost replies | `Refines`: the queue implements `TaskLifecycle` |
| `RunningIsHeldHolds` | no crashes | `[]RunningIsHeld` |
| `OwnedRunsHolds` | no expiry | `[]OwnedRuns` |

`SingleFlight` is not inductive: two slots could receive two copies of a message.
`IInv` adds the reason there is only one: a task has at most one holder among the API,
the list, the slots and the supervisors (`SoleHolder`); what its record says while each
of them holds it (`HolderStatus`); that a snapshot entry is either still free or was
claimed by another, and then its lock exists (`FreshOrLocked`); and that a durable copy,
an unminted id and a waiting record have no holder. A supervisor can then claim
only a fresh entry, because a stale one is locked, and an entry that is fresh is
held by nobody. The two assumptions are exactly what the runs
`queue_slow_pass` and the duplicate message of `LostReplies` break.
The cap follows because only `Submit` adds an active record that is owned
(`StepCame`), one at a time and below the cap.

The refinement goes through the phases: `PhaseValue` reads a phase off a record and its
holders, `UntouchedPhase` says that a step which leaves both alone leaves the phase, and
one lemma per actor (`ApiLawful`, `ReceiveLawful`, `SlotLawful`, `SupLawful`,
`EnvironmentLawful`) shows that each action turns the phase of its own task as the
lifecycle allows and that of no other, which `LawfulIsLifecycle` turns into a step of
`TaskLifecycle`. `CompletedStaysResolvable` needs `CopyInv`, a completed record is
on disk or in the hands of the slot that is about to put it there; with crashes and expiry
together the slot dies before the copy and the record expires after it.

The other two do without `IInv`. `KeptInv` says that a running record has a holder other
than a slot that is only persisting: whoever lets go of a task writes its record or hands
it on, and slow passes and lost replies only add holders. `HandsMinted` and `RecordsOwned`
say that everything anybody holds was minted and that a minted task has an owned record,
of which every patch keeps the owner.

`ResearchStoreProofs`, any number of processes and inodes and any fault sets:

| theorem | environments | says |
|---|---|---|
| `StoreTypeCorrect` | all | `[]TypeOK` |
| `NoTornReadHolds` | no overlapping executions | `[]NoTornRead` |
| `ReadsLatestHolds` | expiry and repeated executions of any outcome | `[]ReadsLatest` |
| `StoreIsRegister` | the same | `Refines`: the steps of a call before the Redis write stutter, the write is the register's write, the durable copy does not change what is read, and an expiry leaves the last completed record |
| `FinishedIsDurableHolds` | Redis fails at any call, expiry, repeated executions | `[]FinishedIsDurable` |

Each invariant carries one fact about what a process in the middle of a call has:
the temporary file is its own (`FilesInv`), its merged record is what the calls say and the
disk has the last completed one unless it is being copied (`AgreeInv`), or a durable copy is there
or under way (`DurableInv`). The register's second value, what an expiry leaves, is
mapped to the record while it is being copied and to the disk otherwise (`Copied`).

`TenantGateProofs`, any requests, keys, quotas, TTL, lag and window, every fault set:

| theorem | says |
|---|---|
| `GateTypeCorrect` | `[]TypeOK` |
| `NoQuotaIsExceeded`, `RejectionsAreEarned` | `QuotaHolds`, `RejectIsSpent` |
| `NobodySlipsThrough` | `[]UncountedIsExcused` |
| `PrincipalsAreFresh` | `NoStalePrincipal` |

A step of a request replaces its own record and touches one cache entry or one counter
(`Moves`), so the invariants speak of one request, entry or window at a time.
`WindowInv`: the counter of a running window is at least the number it admitted, and runs
ahead of it only once the window has admitted what its least limit allows.
`ExcuseInv` says at each place of a request why it may be uncounted (it is billed, a
service failed on it, or its key has been revoked since). `AgeInv` bounds the age of what is in a
request's hands by the lookup it came from, and that of a cache entry by the lookup
and the part of its TTL that has passed; the two feed each other, since a request reads
the entry another one stored.

`MonitorSweepProofs`, any sweeps, processes, items and sources, every environment:

| theorem | says |
|---|---|
| `SweepTypeCorrect` | `[]TypeOK` |
| `PushedAtMostOnce` | `[]AtMostOnce` (one process; the property names the faults) |
| `NothingIsSwallowed` | `[]NothingSwallowed` (any number of processes; seen sets may expire) |

`OnceInv`: one sweep of the process is between two awaits; what it found new was in no
seen set, and is in one before it is pushed. `HandsInv`: an item in a seen set has been pushed or is
in the hands of a sweep that will push it, and what a sweep marks without pushing was in a
seen set when it looked.

`ResearchAgentProofs`, any number of turns, calls, rejections and compactions, any
queries and pages: `TypeCorrect`, `DialogIsPaired`, `WallHolds`, `GradesMatch`,
`NeverSilentlyEmpty` and `NothingAskedTwice`, that is `TypeOK`, `DialogPaired`,
`CostWall`, `GradeMatches`, `NoSilentEmpty` and `NothingTwice`. `AgentInv` has a part for
each: `BoundsInv` (the model answers once a turn, and a submission takes a call of an answer
or is the salvage), `PairedInv` (what is open is what is left of the answer being
worked on), `WallInv` (a state past the wall came from a hard compaction), `GradeInv` (which
submission the last critique, the accepted and the final one are), `AskedInv` (every
request on record was found new when it was made).

`StatusStreamProofs`, any tasks, streams, cache size, TTL and intervals:
`StreamTypeCorrect`, `CacheIsBounded` (`CacheBounded`), `ShownIsRecent` (`ShownRecent`)
and `ReadersGoForward` (`ReadsForward`). `RoomInv` says that the cache is finite and
bounded, `LagInv` that an entry which will live for another n ticks is at most TTL - n
behind, `ForwardInv` that what was shown is no newer than a live entry of the cache, in every
environment, and `SteadyInv` that without troubles whatever a tier has is the latest
version and nothing shown or cached is ahead of it.

`FetchingProofs`, any jobs of any kinds, ports and tries: `FetchTypeCorrect`,
`ContextsAreOwned` (`ContextsOwned`) and `RotationLeavesNoneOut` (`RotationCovers`).
`OwnInv` counts drivers against launches that succeeded or failed, allows a launch to the
holder of the lock only, and gives each context the rendering that will close it.
`RotInv` says that a port which was usable all along and has not been tried comes up
before the tries of its rotation are used up. Which live port is picked next is a least
element, from the well-foundedness of the natural numbers.

`CollectorsProofs`, any listings, page size and limits, any number of items published
and withdrawn:

| theorem | says |
|---|---|
| `ScansReturnNothingTwice` | `[]ResultIsClean` |
| `ScansMissNothing` | `[]NothingMissed` |

`CleanInv`: a scan that
compares with what it has collected keeps it free of repeats; one that does not takes
a single page, or starts with nothing, or pages by an offset (`got` is then the listing up to
the offset, unless it changed). What a loop takes of a page (`Without`) and `FlattenSeq`
are recursive functions; that the recursion has a solution and what the solution is are
proved by induction over the places of the page, from the library's theorem that the
natural numbers are well-founded (`Ascend`). Pages of one moment share nothing
(`PagesApart`), so the replayed pages of the captcha fallback repeat nothing either.

`KeptInv` says what a scan of a still listing has at each page: what the loop takes of the
prefix which the pages before `pos` hold (`ReadInv`, a part for each kind of scan). A page
extends the prefix by a page (`PagesFacts`), and what is taken of two stretches joined is
what is taken of one and then of the other (`WithoutConcat`). `TrackInv` keeps the listing
equal to its start while nothing changes, and the scan no further than the listing goes;
`EndedInv` is what is complete when the last page has been read; `CardsInv` says that the
cards are a prefix of the ranking. In a seller's listing that grows, what was there is moved
behind the offset but never past it unread (`GigsInv`). Two scans end by a sign the listing
may not give, and the theorem claims completeness of those that do (`Legible`): for reviews since
a date, newest first and never a page of undated ones in a row (`ByTime`), once one
read is old all behind it are (`OldBehind`), so the page that ends the scan ends the window
too; and the pages fl.ru links to, with one more, are as many as it has or as are asked for
(`LinksSuffice`, used by `CatalogGetsAll`).

The named assumptions are about the constants: the sets are finite where they are
counted, the maps are total, the sentinels (`NoTask`, `NoKey`, `Free`, `None`) are no
members, sizes and limits are numbers (`TokenCap` and the sizes that are divided by are
positive), a sweep has a source to visit, page keys and search keys differ, every job has a
kind, and a listing begins as three feeds none of which has an item twice. Each is evaluated by
TLC on every run of its module.

Only model-checked:

* Liveness (`ParkedDrains`, `AcceptedSettles`, `ListedIsEmitted`, `NoLockout`,
  `RunsAndStreamsEnd`, `JobsAndScansEnd`): temporal reasoning under fairness and ENABLED are
  beyond the prover.

## 5. Plan

The modules are complete, and every invariant and every action property of theirs is
proved. What is left: `NoTornReadHolds` and `FinishedIsDurableHolds` of `ResearchStore`
under fault sets that mix more kinds of failure.

## 6. Not modelled

Prompts, schemas, DOM and JSON extraction, text cleaning, logging, configuration
and the response schemas: they keep no state between steps and no property here
depends on them. The detail pages of the sources, a seller's meta page and the
field-by-field parsing of Yandex's items are one fetch and one parse. The plain branch
of `pool_manager` has no caller, `SessionManager`'s table is never filled, and the
commands of a session are one Playwright call each. The runtime settings of the store,
the order and cap of the monitoring feed, and the concurrency scan during an outage are
not modelled. taskiq, Redis, PostgreSQL and the LLM endpoints are external and
modelled by how this code uses them. taskiq runs with its defaults: a message
is removed on BRPOP and not acknowledged later.
