# Verification of hermes-web-search-plus

TLA+ models of the v3 core of hermes-web-search-plus (`src/wsp_core`), TLC runs on small
instances, and TLAPS proofs for every instance. Line numbers are those of the files under
`src/`. `PROJECT.json` lists components, runs, mutants, the map from definitions to lines,
findings, hazards and theorems.

    tlc -workers 2 -config EngineBudget.cfg MCAttemptEngine     one of the runs
    tlapm AttemptEngine_proofs.tla                              one of the proofs

## 1. The system

A host (a plugin process or the command line) asks for a search, a research run or an
extraction. One process serves many requests at once on threads, several processes share one
cache directory, and paid provider APIs are called through adapters.

| Component | State it keeps | Operations | Talks to |
|---|---|---|---|
| Orchestrator `orchestrator_v3.py` | none of its own | plan, cache lookup, budget preflight, execute, cache write, journal append | all below |
| Search `search.py` | the race's tasks, queue, deadline | `_race_providers`, `_last_resort_probe`, `_execute_search_v3` | attempt engine, daemon tasks |
| Research `research.py`, `search.py` | tasks, harvested results, quorum snapshot, one wall-time budget | fan out, harvest, quorum, drain, extract the sources | attempt engine, extraction |
| Extraction `extract.py` | items per URL, failures per URL | provider by provider for the URLs still missing; judge a batch; pair pages and URLs; bound the texts; deliver rows | attempt engine, adapters, cache, text store |
| Daemon tasks `daemon_tasks.py` | result, exception, callbacks under a lock | start, finish, `add_done_callback`, `result` | threads |
| Attempt engine `attempt_engine_v3.py` | locals of one `execute`: tries, lease, buckets met | admission, reservation, call, reconciliation, retry, verdict | state store, adapters |
| State store `state_store_v3.py` | SQLite: `circuit_state`, `budget_ledger`; memory: budget of the request, availability flag | one transaction each: admit's read, claim, release, expire, record failure/success, configure, reserve, reconcile | shared by all processes |
| Adapters `providers.py`, `providers.d` | the Brave pacer; the session with the local DonSeTch process | one request per page, several at once, or one for all; waiting for a turn; lines over pipes | providers |
| HTTP client `http_client.py` | connection pool, per-thread deadline and timeout cap | dispatch, one resend on a stale connection, redirects | providers |
| Response cache `cache_v3.py` | one JSON file per key | get (unlinks expired), put (atomic rename), quarantine, clear | shared by all processes |
| Full-text store `bounded_context_v3.py` | one file per (URL, digest) | store, look up, evict by age and size | shared by all processes |
| Receipt journal `operator_receipts_v3.py` | an append-only file, a lock file | append, cut a torn tail, compact, load | shared by all processes |
| Migration `state_migration_v3.py` | backup directory, manifest, old files, SQLite | migrate, roll back | run once, may crash |
| Projection `runtime_v3.py`, `contract_v3.py` | none | items to observations, results, slots, receipts; validation | search, extraction |
| Legacy search `search.py`, `cache.py`, `provider_health.py`, `provider_stats.py` | JSON files: results, cooldowns, latencies | load, change, save; the chain of providers | process locks, a file lock |
| Settings `config.py`, `__init__.py` | `config.json` | load, edit, merge, replace, quarantine | shared by all processes and an editor |
| Native backend `native_backend.py` | one call: a thread and two deadlines | judge the URLs, start the engine, take its answer or time out | host, extraction |
| Routing, intents, quality filter, console, UI | none, or read-only | pure functions over text and records | |

**How they interact.** `_execute_search_v3` builds one store object and one engine per
request. `_race_providers` runs `AttemptEngine.execute` for each candidate on a daemon thread;
the threads of a request share its store object (request budget in memory, availability flag)
and all requests share the SQLite rows. `execute` asks `admit`, which reads the circuit rows in
one transaction and may claim a probe lease in another; reserves the request budget and, when
a limit is configured, the daily budget; runs the adapter; reconciles both; and records a
failure, clears buckets, or gives the lease back. Around it, `execute_v3_request` asks the
preflight and the cache first, and projects, stores and journals what came back.

**What is hard.** Interleavings between two transactions of one call and those of another
process; leases that run out while their holder still runs; a deadline that passes anywhere;
store errors in the middle of reserve/reconcile; death of a process with a lease or a
reservation, in an append or in a migration; completion callbacks against registration; the
hedge delay, the deadline and a completion arriving together; files without a lock that were
read a while before they are replaced, renamed or removed; cached answers under settings that
have changed; answers that come late, twice or for another page. The list, each at its line, is
`hazards` in `PROJECT.json`.

**What makes each component correct.**

- Circuit store: rows stay sane whoever writes them; a call that never probed a severe block does
  not end it; one probe at a time until a verdict of another call; a healthy provider comes back.
- Budget ledger: charged plus promised units never exceed the limit; no unit is given twice;
  what was sent to a provider is charged.
- Attempt engine: every path settles what it reserved, exactly once, and returns an unused
  lease; it never starts after the deadline.
- Race: at most two calls run; no answer is given up; one true receipt per candidate; it ends.
- Research: a result is counted once; the quorum is stable under late results; the budget holds.
- Extraction: pages belong to the providers and the URLs they are shown under; a URL is asked
  for as long as it is open and no longer; what was paid for is returned; one outcome per URL.
- Orchestrator, cache: what is served fits the request at hand, its plan, its age, its settings.
- Journal: every receipt once, in order; retention keeps the newest; foreign lines survive.
- Migration: after a crash at any step, one pair was imported or nothing; a rollback restores.
- Text store, bounded context: the size limit holds at rest; no file of another program is
  replaced; whoever follows the hints reads every word.
- Connections: every answer is the answer to the request that was sent.
- Projection: the response never depends on the order of attempts and passes its validation.
- Settings: both readers take the same settings from a file the commands wrote.
- Pacing, latencies: turns keep their distance; no sample of another process is lost, unless to one
  that cannot read the file.

## 2. Modules

| Module | Models | Variables |
|---|---|---|
| `CircuitStore` | the `circuit_state` table and its transactions | `row` |
| `BudgetLedger` | one window of a budget and the protocol its callers must follow (abstract) | `ledger held flying paid` |
| `AttemptEngine` | `AttemptEngine.execute` for several calls of several requests, over `CircuitStore` (EXTENDS) and the operators of `BudgetLedger` (INSTANCE) | `row call request daily` and the histories `paid spent excused` |
| `ProbeLeases` | `AttemptEngine` with a memory of the probes whose bucket another call's verdict has rewritten | the history `overtaken` |
| `ProviderRecovery` | `AttemptEngine` with a provider that heals, and fairness | `calm` |
| `DaemonTasks` | `DaemonTask`: thread, result, callback, the owner's queue | `thread result callback queue` |
| `RoutingReceipt` | the routing receipt, its builder and its validator (operators only) | |
| `HedgedRace` | `_race_providers` and `_last_resort_probe` over `DaemonTasks`, with their `RoutingReceipt` | `pc next finished hedge clock hit winner receipts superseded` |
| `ResearchFanout` | `run_research_mode` over `DaemonTasks`, and the receipts of `_execute_research_v3` | `pc next pending harvested errors triggered timedOut begun recorded receipts limited clock` and the history `inTime` |
| `ReceiptLog` | what the receipt journal promises: an append-only log with retention (abstract) | `log sure stamp clock` |
| `ReceiptJournal` | the journal's file, its lock, its holder's steps; implements `ReceiptLog` | `journal` and its holder |
| `StateMigration` | `migrate_legacy_state`, `rollback_legacy_state` | `table samples main wal secret backups step round hashes read report` and the histories `before pairs` |
| `BudgetPreflight` | the four checks of the preflight and their cuts (operators only) | |
| `ResponseCache` | get, put, quarantine, clear on one file per key | `file aside look now` |
| `Orchestrator` | `execute_v3_request` over `BudgetPreflight` and `ResponseCache` | `req answer spent` |
| `ExtractFallback` | `_plan_extract_v3`, `_execute_extract_v3`, the slots of the response, over `RoutingReceipt` | `plan attempts response`, the loop's, and the histories `told lost` |
| `ExtractBatch` | one extraction attempt: eight adapters, `_extract_plus_core`, what the engine is told | `fetch gotten stop ending` and the loop's |
| `ExtractMatching` | `match_extract_items` | `asked reply matched` |
| `PassageSpans` | `select_spans` (operators only) | |
| `BoundedContext` | the shared budget, the cut pages, the tool's hints, over `PassageSpans` | `contextWish bounded handed` |
| `TextStore` | `FullTextStore` | `entry temps storing reading unswept` |
| `ExtractDelivery` | identity, cached responses, rows of `extract_plus` | `inForce extraction callPhase pageItems fromCache shelf library callRows standing callCount` |
| `ResponseProjection` | `response_from_legacy` and the validation of `ResponseV3` | `payload arrived answerV3` |
| `HttpPool` | the connection pool, the stale resend, redirects, fork | `idle mark forked unread hungUp call` |
| `DonsetchSession` | one extraction through the local DonSeTch process | `child heard lines said rows host overdue` |
| `SearchEvidence` | binding of DonSeTch's text to its structured hits | `rankOf allowedHits current parser evidence textLines projected` |
| `CallPacing` | `_CallPacer`, `_brave_get` | `paceClock interval lastStart nextSlot paced turns lastTurn turnCount` |
| `LatencyStats` | `provider_stats.py` and `hedge_delay` | `posix statsFile recorder savedSamples` |
| `LegacySearch` | `_execute_search_request_core`, its cache, the health file | `health saved search loaded time` |
| `BehaviorConfig` | `config.json`: setup commands, requests, an editor | `disk operator loading edits` |
| `NativeExtract` | `web_extract` of the native backend | `hostTime refusedFirst refusedLater worker caller begun` |
| `MCAttemptEngine`, `MCProbeLeases`, `MCProviderRecovery`, `MCResearchFanout`, `MCSurroundings` | small instances | |
| `Sublists` | filtered lists that keep their order, for `ExtractFallback`, `BehaviorConfig`, `ReceiptJournal` (operators only) | |
| `BudgetLedger_proofs`, `AttemptEngine_proofs` (with `CircuitStore`), `AttemptState_proofs`, `HedgedRace_proofs`, `ResearchFanout_proofs`, `Surroundings_proofs`, `Extraction_proofs`, `Context_proofs` | theorems; the last three about the smaller components, of which `Extraction_proofs` and `Context_proofs` are about those that walk over data | |

Some modules hold, before an operation, a faulty variant of it (marked "Mutant" or "Faulty" in a
comment): a plausible mistake in the code. It is used by nothing in the specifications and
stands for the mutants listed in `PROJECT.json`: replacing the operation by its faulty form must
break the property named there.

### CircuitStore

`row[k][c]` is the row of circuit key `k` and error class `c`; a missing row reads as `Absent`.
Each method of the store that is one SQLite transaction is one operator on `row`. Time is
relative: `left` is `open_until - now` in ticks, so that time never grows without bound. A call
that took `now` a while before its transaction runs is `age` ticks old. Abstractions: the count
saturates at the threshold (the code only compares it with 0 and the threshold); a failure's
window is any of `OpenFor[c]` (the default of the class or a `Retry-After` up to the ceiling);
`updated_at` is left out because nothing reads it back; error classes that are no health verdict
keep no row.

### BudgetLedger

The row of a window (`limit`, `used`, `reserved`) and its four operations, each under a lock or
in a transaction in the code, and the rules for callers: reserve, then dispatch, then commit,
or release if nothing was dispatched. A caller may vanish (`Lose`). `flying` and `paid` are
history: which holders have reached their provider, and how many ever did. An attempt costs one
unit, as in every use of `AttemptContext.budget_units`.

### AttemptEngine

`call[p].pc` names the step an `execute` takes next; between two steps any other call may run.
`request[r]` is what the calls of a request share: deadline, store availability, the in-memory
budget. Each action is a whole transaction or lock-protected step with the local control that
follows it. The correspondence, in the order of the code (`attempt_engine_v3.py`):

| Lines | Actions |
|---|---|
| 370-390 | `Late` |
| 391-396 | `ReuseLease`, `AdmitRead`, `AdmitBlind`, then `Claim` or `ClaimLost` (`state_store_v3.py` 583-653) |
| 424-447 | `ReserveRequest`, `RequestBudgetBlocked` |
| 448-481 | `ConfigureDaily`, `ReserveDaily`, `DailyBudgetBlocked` |
| 485-489 | `Dispatch` |
| 490-531 | `NotTried`, `Return`, `BatchNotTried`, `FailUnsent`, then `SettleDaily` |
| 526-599 | `Judge`, `Wake` (the retry wait) |
| 180-243, 596-599 | `ReleaseLease`, `RecordVerdict`, `ClearBucket` (one transaction per bucket) |

`LastResort`/`ExpireWindow` are `_last_resort_probe`; `BeginRequest` reuses the slots of a
finished request for the next one. The environment moves the clock (`Tick`), lets a deadline
come near and pass (`Approach`; "near" is within the second in which no retry starts), breaks
and mends the store, and kills processes. Abstractions:

- The configured request limit never changes within a request; the daily limit may change from
  one request to the next (`DailyLimits`).
- The daily window is one day: a request keeps the window it started with, so another day is
  another row.
- `Recover` may happen at any time after a store error (`RECOVERY_PROBE_SECONDS` is a delay only).
- `Return` charges the request budget in the same step in which the operation ends, since
  nothing shared is read between them.
- A store error while a refused claim is read back (line 644) is not modelled: the call is
  denied either way.
- `Batches` switches the one case in which an operation sends several requests and still ends
  with `RequestDeadlineExceeded`.

### ProbeLeases

A row that is `HALF_OPEN` does not say for whom. `Observe` adds to each step of `AttemptEngine` who
was overtaken by it: a call that holds a lease while somebody else's verdict (a failure recorded, a
bucket cleared, a lease given back) rewrites that row. The mark lasts as long as the call's lease.
Neither a forced probe nor a window that runs out is a verdict. What the store promises of a probe
(one holder, a block that only its own probe ends) is stated up to that mark, since beyond it the
code does not keep it (section 4).

### DaemonTasks and HedgedRace

A task's thread ends in one step that also takes the registered callbacks (the lock of `_run`);
it runs them in a later one. Registration is a step of the owner, after the start of the thread,
so all orders are there. The race's loop is cut where it can be interrupted by a thread or by
time: launch, registration, the choice at the head of the loop, the wait, the reading of the
clock after a timeout, the report. An attempt is reduced to how it ended (`Ends`). The hedge
delay may run out at any time, which covers every latency history and floor; how it is computed is
in `LatencyStats`. The clock's passing
is a step of its own, so a deadline may pass between any two.

### ResearchFanout

The caller's thread is cut where a member's thread or time can come between: submission and
registration, each completion taken from the queue, the `done()` sweep that ends a drain, the
choice at the head of the loop, the wait, the drains after an expired wait, the marking, the
extraction, each receipt. A member's thread is cut at the three writes others read:
`operation_started`, `receipts_by_provider`, the end of the task. An answer is a set of pages;
the ranking and the extraction's result are left out. `DrainDone` looks at all pending tasks at
once and `Receipt` at both dictionaries at once: threads only add to what is read, so every
outcome of the separate reads is that of one at some moment between them. The members' deadline
is fixed before `run_research_mode` takes its own start, so `clock` passes it first. A request
through v3 always has a budget; `run_research_mode` without one, and the concurrency gate
(`max_workers`, which no caller passes), are not modelled. What abandoned threads do when nobody
looks any more is left out.

### ReceiptLog and ReceiptJournal

`ReceiptLog` is the promise: receipts are appended at the end and leave only because they expired,
because the limits made the older ones leave, or because their append never succeeded.
`ReceiptJournal` is the file: complete lines, an unended last line (`tail`: torn, or whole without
its newline), the lock's holder and its steps (`operator_receipts_v3.py` 190-400). The holder may
die and the disk may refuse it between any two of them, and other programs write lines of their
own. A receipt is its identity and size; the projection from a response is left out.

### StateMigration

Each step of `migrate_legacy_state` and `rollback_legacy_state` that others can come between is
an action: seven times two looks at the legacy files, judge, backup, seal (the manifest), open,
import, close, and the rollback's removal of the log and its two restorations. The command may
die or fail at each. The database is a main file and a write-ahead log of whole contents. Programs
that rewrite the legacy files run at any time; processes that use the database run only between
commands, as `docs/V3_BACKUP_RESTORE.md` asks. `pairs` and `before` are history.

### BudgetPreflight, ResponseCache, Orchestrator

`BudgetPreflight` has the four comparisons and the cuts as operators on a request's wishes, the
settings and what was spent. `ResponseCache` cuts `get` where another process can replace the
file it has read: read, judge, unlink or quarantine (name, rename), and the whole-file operations
put and clear. `Orchestrator` strings them together for requests beside each other; execution is
one step that spends any number of units the request allows. Of a response only the candidates it
was made with, its attempt bound, its age and its preflight evidence matter.

### RoutingReceipt and its users

`RoutingReceipt` translates the builder `complete_routing_receipt_v3` and its validator; the
race and the fallback build receipts from their own attempts and ask whether the validator, now
and from the cache, would refuse them.

### ExtractFallback, ExtractBatch, ExtractMatching

`ExtractFallback` is the loop over the providers of a plan, for the URLs still open, with the
merge of failures by rank and the slots of the response. A plan without candidates is refused before
anything else (`NoPlan`). A page's item is what it says and whom it names. What a try said goes into the
merge only if a page came or every item has a reason; otherwise the try fails and its items are dropped
(`Unheard`), as are those of a first try that the engine repeats. `lost` remembers them, and the
properties about reasons speak of what reached the merge. `ExtractBatch` is one turn of that loop seen from inside: the adapter's requests (one
after the other; on threads that wait their turn, Linkup; or one for all), the judgement of the
items, and the pages or the error the engine gets. Threads of a batch that is over are not
followed. `ExtractMatching` runs the six passes and the last rule of `match_extract_items` on all
requests and answers of the bounds; URLs are numbers with two other forms each, of which either
may be missing (the second is mostly the coarser one, but keeps the explicit port 80 of an http URL).

### PassageSpans, BoundedContext, TextStore

Texts are sequences of words and separators, a letter stands for a word, and each counts one
character, so a passage is never cut inside a word. A passage's score is that of `_lexical_score`
in ten-thousandths, each part rounded down: asked words, pairs of them, how often, density and
place; ties are broken by position, which is what the code's sort does. A semantic `ranker` in the
place of that score, which no caller in the repository passes, is not modelled.
`BoundedContext` has the planned number of pages, the water-filling of the budget, the cut texts
and passages, and the second cut of the host's tool with the line numbers of its hints; the tool's
limit is `HostLimit` and its head and tail keep the code's ratios. `TextStore` is the directory
behind it: names are fixed by content, publication is a hard link that fails if the name is
taken, eviction lists first and deletes later, and a writer may die anywhere.

### ExtractDelivery

One call after the other under settings that may change in between. A page's text remembers the
page, the provider and the provider's settings it was read with. The identity, the conditions of
a cache write, the verification of stored texts on a hit, and the grouping of rows follow
`extract.py` and `compat_v3.py`. Left out of the identity: the storage root, the identity's
version, cache ages, orphaned texts (they only miss). A provider that answers without a page
counts as a failed attempt. Two cases are set apart in the property (`Shadowed`,
`NothingAllowed`) and listed in section 4.

### ResponseProjection

All items of all providers, their attempts ending in any order, become observations, groups,
results and claims (`runtime_v3.py`), and the conditions of `ResponseV3` (`contract_v3.py`) that
relate several fields become `PassesValidation`. Snippets are given in the normal form in which
they are compared; scores, dates, titles and digests are left out.

### HttpPool, DonsetchSession, SearchEvidence, CallPacing, LatencyStats

`HttpPool`: a connection is the queue of exchanges whose answers nobody has read; whoever reads
takes the oldest. `fork` copies the pool; the server may hang up at any time. `DonsetchSession`:
the child may answer, answer late or again, say other things or die; the reader thread's queue
and both deadlines are there. `SearchEvidence` reads any sequence of lines up to `MaxText`; ranks
are those after defaulting, all different. `CallPacing`: turns are the reserved ones (a thread
that oversleeps is later than its turn), deadlines are absolute times. `LatencyStats`: a thread may
find the file unreadable or garbled, takes it for empty and replaces it (`blind`); ages are left out, and so is `get_provider_performance`, which only reports.

### LegacySearch, BehaviorConfig, NativeExtract

`LegacySearch` has threads of one query with the chain of providers, the result cache by
provider and the health file, which is read and written under a lock of the process; a reading
may fail at any time and then counts as an empty file.
`BehaviorConfig` has setup commands that load, edit, reread and replace, requests that load with
the runtime's own rules, both quarantines, and an editor that may leave any of `HandWritten`.
`NativeExtract` has the host's call, the engine's thread and both deadlines, and an engine that may
fail as a whole at any of its steps, in which case `native_backend.py` answers for the URLs without
reading the `refused_urls` that `_run_extract` adds; a thread takes at most
`StartDelay` to reach the engine's scope and `StartDelay <= Margin`, which the code's margin is for.

### MCSurroundings

The components that share no state with the engine are checked in one run. A behaviour picks one
(`part`) and leaves the variables of the others alone, so that the state spaces add up instead of
multiplying. They do meet in the code, but through values: `ExtractFallback`'s provider answers are
those of `ExtractBatch`, `BoundedContext`'s stored texts are in `TextStore`, and
`ExtractDelivery`'s library is a summary of it.

## 3. Runs

| Run | Instance | Checks | Distinct states |
|---|---|---|---|
| `engine_circuit` | 2 calls of 2 requests, 1 key, threshold 2, lease 2, windows of 1 and 2, claims up to 1 tick late, 2 tries, forced probes, probes that reach the end of their lease; either two calls race, or one meets deadlines and store errors | a lease has one holder until it is overtaken, and one as long as it is held; a success ends a severe block only by a call that has leased one, and while it is leased unless overtaken | 1 035 000 |
| `engine_budget` | a hedged pair and another request, 2 keys, request limit 2, daily limits {1, 2}, deadlines, store errors, crashes | exact reservations; paid attempts within the request budget; the daily ledger safe; refinement of `BudgetLedger`; units lost only by crashes and store errors | 780 000 |
| `engine_last_resort` | 2 calls of 2 requests, 1 key, a request budget of one unit (a retry is refused), deadlines, store errors, forced probes | failure counts survive forced probes and refused retries | 2 100 000 |
| `engine_recovery` | 2 calls, 1 key, errors of two classes, crashes, a prober that may outlive its lease; then the provider heals | liveness: every circuit closes | 460 000 |
| `hedged_race` | 3 candidates, 7 ends, with and without deadline | two calls at a time and a forced probe alone; no answer lost; true receipts that no validator refuses; the search ends | 98 000 |
| `research` | 3 members, 2 pages on 2 domains, the first member finds both; answers, late skips, exceptions | each member accounted for once; no answer in time is timed out; members are given up for a reason; receipts agree with diagnostics; the request ends | 2 040 000 |
| `surroundings` | one component per behaviour, below | the property of each component | 1 103 000 |
| `lease_owner` | 2 calls, 1 key, windows as long as the lease, no forced probe, a probe that outlives its lease | *violated*: `OneProbe` | |
| `batch_refund` | 2 calls, 1 key, deadlines and batches | *violated*: `PaidWithinRequestBudget` | |
| `one_outcome` | the extraction fallback of `surroundings` | *violated*: `OneOutcomePerUrl` | |
| `explicit_strict` | the legacy search of `surroundings`, with three providers | *violated*: `ExplicitIsStrict` | |
| `page_relabelled` | the pairing of `surroundings` | *violated*: `NeverRelabelled` | |

The parts of `surroundings`:

| Part | Instance | Property | Distinct states |
|---|---|---|---|
| `ledger` | 3 callers, limits {1, 3} | `PaidIsAccounted` | 365 |
| `journal` | 3 receipts of 1 to 3 bytes, limits of 2 records and 4 bytes with a slack of 1, a clock to 1, a TTL of 0, 1 foreign line | `JournalExact`, `FollowsLog` (refinement of `ReceiptLog`) | 40 000 |
| `migration` | 3 health files, one of them broken, 1 rewrite of the samples, at most 3 different pairs (`MaxPairs`), 2 backups, 1 use of the database | `MigrationSound` | 133 000 |
| `texts` | 2 writers, 2 texts, room for one, ages beyond the TTL of 0, 1 foreign file | `BoundedWhenQuiet`, `PublishedBeside` | 67 000 |
| `pool` | 2 threads and 1 of a forked child, 2 sockets, 1 idle connection, 1 redirect | `AnswersAreOwn` | 19 000 |
| `orchestrator` | 2 readers, one under a preflight that cuts its request, one whose request is what the cut one becomes or who asks the cache for the other order; 2 keys, a clock to 1, a ledger to 1 | `ServedIsFaithful` | 78 000 |
| `extraction` | 3 URLs, 3 providers, 4 situations (all configured, an explicit one of two, none, all disabled), 2 reasons and none, one or all URLs refused | `FallbackSound` | 64 000 |
| `legacy` | 2 threads of one process, one automatic and one with an explicit provider, 2 providers, cooldown ladder (1, 2), a decay of 0, a clock to 2, readings that fail | `RoutingNamesContributor`, `NoLostUpdate` | 184 000 |
| `config` | 2 setup commands, 4 hand-written files, 1 edit by hand | `OwnFileReadAlike` | 104 000 |
| `session` | 2 pages, 4 lines of the child | `SessionOutcome` | 30 000 |
| `evidence` | 2 hits, ranks 0 to 3, 4 lines of text | `EvidenceIsOwn` | 3 600 |
| `native` | 2 URLs, a timeout of 3, a margin and a start delay of 1 | `RefusalsHold` | 3 900 |
| `matching` | requests of up to 3 URLs out of 5 spellings (two of one URL, its https form, its form with an explicit port 80, and no web URL), answers of up to 2 items | `MatchIsSound` | 106 000 |
| `batch` | 3 pages, 8 adapters, 7 answers, Linkup with 2 threads | `BatchSound` | 88 000 |
| `projection` | 3 providers, up to 4 items; searches, research runs, extractions, failures; attempts in every order | `ProjectionSound` | 7 900 |
| `context` | every text of up to 4 characters, 6 long ones under two or more budgets; 3 pages of 4 lengths under every budget to 12 | `ContextSound` | 16 000 |
| `delivery` | 4 pages, 3 providers, 9 situations, 2 calls | `DeliverySound` | 53 000 |
| `pacing` | 2 threads, 4 kinds of headers, 2 deadlines, 4 turns (`MaxTurns`), a clock to 3 (`MaxPaceTime`) | `PacingSound` | 63 000 |
| `stats` | 3 threads of 2 processes, 2 latencies, 3 saved samples (`MaxSavings`), 2 kept, readings that fail | `StatsSound` | 42 000 |

**Bounds.** Two calls suffice for the races over a circuit row, because each hazard is one call
with stale knowledge against one that writes in between; `engine_budget` needs a third, for the
pair within a request and one outside it. The threshold is 2 instead of 3: it separates a first
failure, the one that opens, and one that is overwritten. The lease is 1 or 2 ticks, and a tick
may fall between any two steps. Three candidates are the least for which a third may wrongly
start while two run. Three members are the least of which two can make a quorum against a third; the
first one's answer contains the others' pages, so that its arrival takes the quorum of those two
away. `MaxAge` is the SQLite busy timeout, `ProbeBound` how long a call may keep a
lease. In `engine_circuit` it is the lease itself, so that a window below the lease (a `Retry-After` of a second) runs out
while its holder is still at work; `lease_owner` goes one tick further. Its two worlds are chosen once for a whole
behaviour (`alone` in `MCProbeLeases`): two calls that race without deadlines and store errors, or
the calls of one slot among all of them. The product of both is beyond five minutes, the theorems
cover it. Its two slots are alike, so exchanging them is a symmetry (no liveness is checked there). Its
view (`WorldView`) leaves out what no step and no property of that run depends on: the histories `paid` and `spent`, the
daily ledger, the request budget, which has as many units as there are tries, and whether a request has forced a
probe, once it cannot force one any more.

In `surroundings`, every limit of the code (records, bytes, sizes, kept samples, idle connections,
URLs) is small enough to be passed by the instance, and every counter that the environment may
raise has a `Max...` bound. Two writers suffice for files without a lock: one that has read and one
that replaces. Three pairs of legacy files are what a mixed reading needs: the one before, the
one after the first file changed, the one after both did. Four turns let one thread take two,
another one between them, and a third be reckoned from all of them. The second call of `delivery`
meets the cache the first one left under every pair of settings.

**Deadlock** is checked except in the runs of `MCSurroundings`: an extraction that was answered, a
journal whose receipts are written, a text whose passages are chosen have nothing left to do.
`HedgedRace` and `ResearchFanout` have a stuttering `Returned` for the request that is over.

**Fairness.** `ProviderRecovery`: threads run, requests keep coming, the clock advances, a store
that failed is probed again. It does not oblige a provider to heal or a request to force a probe.
After the healing no call fails, no process dies and the store answers: without that assumption
nothing could be promised. `HedgedRace`: the race's thread, the callbacks and both clocks run; an
attempt ends only if the search has no deadline (a provider call is bounded by its socket
timeouts). With a deadline nothing is asked of the providers, and the search ends all the same.

`ResearchFanout`: the caller's thread, its callbacks and the clock run; nothing is asked of the
members, which may hang for ever. The other modules state safety only.

## 4. Findings

Five places where the code does not do what a comment, a docstring or a document says; each has a run whose
counterexample shows it, and an entry in `PROJECT.json` that quotes the line.

1. A probe lease has no owner. A prober that outlives its lease gives back the lease of the next
   one, so that two calls probe a bucket (`lease_owner`).
2. A batch extraction stopped by the deadline between two pages is refunded although a page was
   sent (`batch_refund`). The theorems about paid attempts therefore assume `~ Batches`.
3. An error item that names a provider that served nothing has no slot in a response that two
   others served (`one_outcome`).
4. Merged results are cached under the last provider that contributed, where a strict request for
   that provider finds them (`explicit_strict`).
5. When one URL was answered twice and another not at all, the other is answered with the second
   page of the first (`page_relabelled`).

**Observations.** The models also state the following, as definitions that no run of the project
checks. TLC finds the named ones violated when they are added to the run of their component; `LimitedByABudget`
needs members that fail or are refused their budget. The others are excluded in a property or an abstraction.

- `FinalStopsChain` (`ExtractFallback`): a provider says that a page does not exist, but the rest of its batch fails
  without a reason or the account does (`providers.py:1094-1102`), or no page is left of it (`extract.py:631-639`). Its items
  are dropped, and the next provider is asked and paid for that page; with one provider the caller is told a weaker reason.
  `extract_failures.py:10-12` says the chain "stops for that URL instead of paying for more attempts", :32 "the most
  telling reason is kept". `FallbackSound` therefore speaks of what reached the merge.
- `LimitedByABudget` (`ResearchFanout`): a research request that returns early on its quorum is
  reported as degraded, "limited by its attempt or time budget", because its preempted members get
  the receipts of a deadline.
- `BlockNeedsItsOwnProbe` (`ProbeLeases`): while a call probes an expired authentication block, another one
  that was admitted earlier fails, and `record_failure` writes a new block over the lease (`state_store_v3.py:398-405`);
  the success of the probe deletes that new block, which nobody probed (:428).
- `OnlyProbeClears` (`ProbeLeases`): a success of a call admitted before its circuit opened
  closes it without a probe (`state_store_v3.py:417`; the docstring at :520 says "only a successful probe clears it").
- `SupersededByAnswer` (`HedgedRace`): a candidate whose thread raised is listed as superseded by an
  answer that may be empty (`search.py:2163`; comment at :2069).
- `PreflightEvidence` (`Orchestrator`): the evidence of a preflight's cut comes back from the cache to
  a request that was not cut.
- `EvidenceKept` (`ResponseCache`): two readers may quarantine under one name, and the second file replaces
  the first.
- A rollback that fails after it removed the write-ahead log (`state_migration_v3.py:695-707`) reports "blocked"
  though what was only in the log is gone.
- Two processes lose each other's updates of the health file; the lock is one of the process.
- A health or latency file that cannot be read or parsed counts as an empty one (`provider_health.py:56-57`,
  `provider_stats.py:71-72`), and the next save replaces it: the other providers' cooldowns and all earlier samples are
  gone, after an error that may have been a passing one. `NoLostUpdate` and `StatsSound` say that nothing else loses them.
- A URL that only the engine's second check refuses carries no mark when the engine fails as a whole or is not waited
  for: `native_backend.py:346-352` reports all its URLs with a generic error, which the host may rescue, and does not
  read the `refused_urls` that `_run_extract` adds (`__init__.py:2040-2048`). `RefusalsHold` excludes exactly that.
- With a long query the place (up to 0.08) and the density of a passage outweigh a single hit, so a dense passage at
  the start may be chosen instead of the only one that has a word of the query; `SpansStand` promises a word only for
  queries of at most `FewWords` different words.
- A setup command's merge and its replacement of `config.json` are not one step, and quarantine renames whatever
  file is there by then; a hand's edit in between is lost, or moved aside though it was fine. Commands and
  requests disagree about hand-written files with an empty `provider_priority`, with `disabled_providers` as the text `","`, and with a `version`
  that is no number. `reset` keeps `keenable.allow_public`.
- Evidence with equal ranks binds to one of the hits only (`donsetch.py:453`).
- A batch all of whose fetched pages the quality filter drops, with the rest not tried, ends as
  `RequestDeadlineExceeded`: refunded though paid, like finding 2.
- The identity of a cached extraction for an explicit provider leaves out the endpoints of its fallbacks and the JEV filter
  (docstrings at `cache_identity_v3.py:55` "Every execution input that can change extraction evidence", `extract.py:1050`).
- An unobserved error item that stands before a page redirected to its address takes that page's row
  (`compat_v3.py:136`; `Shadowed` in `ExtractDelivery`). When every processed URL is refused, the answer has no row for
  them (`extract.py:538`; `NothingAllowed`). After a cache hit, two pages of one URL served by two providers name the
  last one (`cache_v3.py:178`).
- A caller that passes an over-long queue of `_CallPacer` sets the next turn to its own time (`providers.py:529-535`), so that a
  later turn may fall on one given out before; `turns` starts anew there. A Brave 429 of a long window carries no
  wait, and with Brave alone the engine repeats the call after its normal backoff; the comment at `providers.py:581` says it "fails fast".

## 5. Proofs

All for every value of the constants that satisfies the modules' assumptions.

| Module | Theorems | Argument |
|---|---|---|
| `BudgetLedger_proofs` | `LedgerInvariant`; from it `LedgerConserves` (`HoldersAreReserved`), `LedgerBounded` (`WithinLimit`), `LedgerAccounts` (`PaidIsAccounted`) | One inductive invariant: type, conservation and accounting together. Conservation is needed so that a settlement never takes `reserved` below zero, accounting because a release must not give back a unit that was sent. Lemmas on the cardinality of a set plus or minus an element. |
| `AttemptEngine_proofs` | `CircuitTypeCorrect`, `CircuitSane` (`RowsSane`); `EngineTypeCorrect` (`TypeOK`), `EngineReservesExactly` (`ReservationsExact`), `EngineUsesStore` (the engine refines `CircuitSpec`), `EngineRowsSane` (`RowsSane`) | The table by itself first: each transaction preserves the sanity of the one bucket it writes; `RowsSane` is inductive with the type. `EngineUsesStore` lets the engine inherit these facts. The type of the request budget needs `ReservationsExact` (a settled unit is there to be settled), and that needs what each `pc` implies about the local record (which labels hold a unit, a lease, a daily reservation). |
| `AttemptState_proofs`, the daily budget | `EngineFollowsLedger` (`FollowsLedger`), `EngineDailyBudgetSafe` (`DailyBudgetSafe`), `EnginePaidWithinBudget` (`PaidWithinRequestBudget`), `EngineLosesNoUnit` (`NoReservationLeak`) | The first three under `~ Batches`. Step by step, each action is a ledger step or a stutter of it; daily safety then follows from the theorems about `BudgetLedger`, instantiated with the refinement mapping. Paid attempts: `SentIsCharged` (calls past their dispatch plus charged units cover `spent`) is inductive. `NoReservationLeak` is about steps: each changes `daily.reserved` and the set of its holders by the same amount; the two exceptions are those the property names. It needs no restriction on batches. |
| `AttemptState_proofs`, the leases | `EngineLeasesReturn` (`NoStrandedLease`), `EngineSevereBlocks` (`SevereBlockNeedsProbe`), `EngineKeepsCounts` (`FailureCountKept`), `EngineProbesHeld` (`ProbesHeld`) | `LeaseInv`: what each `pc` implies about a call's lease and its buckets, and that each running lease has a call that answers for it or is excused. It holds at steps where the property alone does not, between a verdict and the transactions that write it. The other two need `ProbeInv` beside it: the bucket of a holder that nobody has overtaken is still `HALF_OPEN`, and its lease and the holder's clock together last at least a lease (`Undisturbed`). A second claim needs a lease that has run out, so the first holder's own has; no bound on probes, windows or forced probes is assumed. |
| `HedgedRace_proofs` | `RaceInvariant`; from it `AtMostTwoCalls` (`SpendsAtMostTwo`), `NoAnswerIsLost` (`NoAnswerLost`), `ReceiptsAreTrue` (`ReceiptsTrue`) | `RaceInv` ties what the loop believes (`finished`, `next`, `hit`, `winner`) to what the threads did (`thread`, `result`, `callback`, `queue`): a completion is in exactly one place, ended thread, taken callback, queue or `finished`. Without that a completion could be counted twice, or a third call be started while two run. That the validator accepts the receipt is a fact about the operators of `RoutingReceipt` and the receipts the invariant allows. |
| `ResearchFanout_proofs` | `HarvestInvariant`; from it `ResearchReportedOnce` (`ReportedOnce`), `ResearchInTime` (`InTimeIsKept`), `ResearchGivesUpForAReason` (`GivenUpForAReason`); `ResearchReceiptsAgree` (`ReceiptsAgree`) | A member the submission loop has come to is pending with no entry, harvested with no entry, or out with one entry (`SettledOnce`); a task harvested twice would break it, and only the intersection with `pending` in `harvest` keeps it. That answers in time are kept needs the last drain: when it ends, no pending member is in `inTime`. A quorum stays one because no answer of a finished thread changes. `ReceiptInv` adds what a member was reported as (`ReportedTruly`) and that a receipt, once written, fits it. |
| `Surroundings_proofs`, `Extraction_proofs`, `Context_proofs` | one or two per component, below | |

The theorems of `Surroundings_proofs`:

| Theorem | Property | Inductive invariant, and why the property is not one |
|---|---|---|
| `AnswersBelong` | `AnswersAreOwn` (`HttpPool`) | A connection has one holder, a thread or a place in one pool (`OneHolder`); nothing is unread on it but what its holder asked for (`NothingForeign`); a child has nothing before the fork. |
| `RoutingIsTrue` | `RoutingNamesContributor` (`LegacySearch`) | Every answer in the cache, not only the one at hand, names a contributor. |
| `NoUpdateIsLost` | `NoLostUpdate` (`LegacySearch`) | Of the threads of one process, at most one has loaded the file, and what it holds is what the file holds, or nothing if it could not read it (`HealthLocked`). |
| `QuietStoreIsBounded` | `BoundedWhenQuiet` (`TextStore`) | The entries that are not about to be listed fit, or one storer that still evicts has seen them all (`Swept`). Lemmas on sums over finite sets. |
| `NothingIsReplaced` | `PublishedBeside` (`TextStore`) | From the same invariant, step by step. |
| `ServesFaithfully` | `ServedIsFaithful` (`Orchestrator`) | An entry carries the attempt bound of the key it is filed under, each reader has read, will write and answers what fits its own request, and the preflight's cuts make it pass its own test (`PreflightAssumption`). |
| `CallsArePaced` | `PacingSound` (`CallPacing`) | The next turn keeps the learned distance to the last one given out, the latest of `turns` (`QueueSound`). |
| `MigrationKeepsItsWord` | `MigrationSound` (`StateMigration`) | What the files, the backups, the command and its hashes say at each of its steps; a rollback may be interrupted and begun again, and others write in between. |
| `RefusalsAreKept` | `RefusalsHold` (`NativeExtract`) | What the engine's thread may still do at each of its steps, against the host's deadline. |
| `SessionEndsOneWay` | `SessionOutcome` (`DonsetchSession`) | What each step of the host implies about its rows and the child (`SessionInv`). |
| `EvidenceStaysOwn` | `EvidenceIsOwn` (`SearchEvidence`) | The evidence kept for a rank is that of its hit, and the parser only stands at declared hits (`EvidenceInv`). |
| `FallbackKeepsPages` | `FallbackSound` (`ExtractFallback`) | The plan names each provider once, the attempts follow it, and each page's item is the best of what reached the merge (`FallbackInv`). Lemmas of `Sublists`: a filtered list keeps order and has no item twice. |
| `OwnFileIsRead` | `OwnFileReadAlike` (`BehaviorConfig`) | A file by a command, and what a command is about to write, is without the contradictions the readers look for (`WellWritten`). That both then read alike is computed on such a file. |
| `JournalHolds` | `JournalExact` (`ReceiptJournal`) | No receipt is twice among the lines and the unended one, a waiting one is not there at all (`LinesOnce`), and the file is what the holder's step implies (`WriterSound`). Retention keeps a final part of the unexpired lines and never touches a file with foreign ones. |
| `JournalFollowsLog` | `FollowsLog` (the journal refines `ReceiptLog`) | Each step of the journal is a step of the log or a stutter. `Retained` satisfies the rule `Retains` whatever limits it trims to (`RetainedAmount`): the number of lines it keeps is the greatest that fits, so one more would be over the trimmed limits. That `Succeed` may acknowledge needs `HolderSound`: between the replacement and the end of the append the file still holds the receipt, unless it expires or never fit. Lemmas of `Sublists`: a filter looks at each item by itself (`AmongAppend`). |

The theorems of `Extraction_proofs` and `Context_proofs` are about components that walk over data: lists of items, pages, words and samples of any length.

| Theorem | Property | Inductive invariant, and why the property is not one |
|---|---|---|
| `BatchLosesNothing` | `BatchSound` (`ExtractBatch`) | What each page's item says is what its request came to (`ItemsTrue`), one page after the other except where several are under way (`InOrder`, `AllOpen`), and the requests under way plus those that went out after the stop are fewer than the workers (`FewLate`); the property speaks of the end only. |
| `MatchIsRight` | `MatchIsSound` (`ExtractMatching`) | A pass is its turns one after the other; each keeps that no item answers two positions and that a contested position is answered by an item that names it (`Matched`), and takes nothing away (`Kept`). That no exact match is passed over is decided by the first pass alone (`FirstPassTo`: what it has done up to a position), and what is found stays found. |
| `DeliveryIsRight` | `DeliverySound` (`ExtractDelivery`) | Every entry of the cache is whole and was read under the settings its key names (`EntrySound`), the items at hand fit the call (`ListSound`). A row shows its own page because items that have an observation take the places of their address in order (`PlacedTo`); `Shadowed` is the case in which they do not. |
| `ProjectionIsSound` | `ProjectionSound` (`ResponseProjection`) | Attempts end once each, and what is built is the response of the order they ended in (`ProjectionInvariant`). The rest is about that response: a witness is known by its provider and place (`SameWitness`), so sorting lists each once and in order (`SortedList`); what is observed does not depend on the order of the attempts (`SameObserved`), and results only on what is observed (`OnlyWhatIsSeen`). A merged snippet keeps to its limit because each fragment starts where the ones before it end (`Starts`, `FragmentsStand`). |
| `StatsLoseNothing` | `StatsSound` (`LatencyStats`) | With locks one recorder at most has read the file, and what it read is the file, or it could not read it (`StatsInv`). That the delay is a sample or more is a fact about the quantile: a rank in a list of numbers with repetitions (`RankExists`, `UsualLatencyRight`). |
| `ContextIsSound` | `ContextSound` (`BoundedContext`, in `Context_proofs`) | The response, once made, is cut to fair shares (`BoundedRight`), and what was handed out of it can be read on (`HandedRight`). Shares (`SharesAreFair`): before a round all who are still active have nothing, all others what they asked for, and that is at most an even share of what is left (`Filling`); each round that goes on makes one more content, so the rounds suffice. Passages (`PassagesHold`): each step from a text to its ranges, sentences, pieces and neighbours keeps every word in some part, and the cursor of a long sentence reaches its end; for a short query no passage without an asked word scores as much as one that has one (`FewWords`), so such a one is offered first, and what is offered first is taken (`OfferRight`, `ChoiceRight`). Hints: what is handed out first is a beginning of the page, and a longer beginning has no fewer lines (`LinesBefore`). |

Induction in these proofs is over a set in the place of the predicate (`InductionTo`: a set of numbers that has 0 and with each
number the next one has them all, which follows from the well-foundedness of the naturals), and a recursive function of the model is
shown to exist by the same lemma (`Recursion`: the results of n steps, one after the other). The induction theorems of the library
take an operator as a parameter and could not be used.

**Assumptions.** The theorems assume the `ASSUME`s of the modules they are about, which TLC evaluates on every run:
limits and bounds are naturals, distinguished values are distinct from the others. Those that say more:

- `EndsAssumption` (`HedgedRace`): an attempt ends in one of the ways of `Ends`, which are all the ways `execute` returns or raises.
- `OrchAssumption`: a request and its settings are of the shapes the validation lets through, keys are derived from them,
  and an entry found at the start has the attempt bound of its key (`get` compares the whole key, `cache_v3.py:301`).
- `LegacyAssumption`: a search starts with a known provider; `ExtractAssumption`: the registry names each provider once.
- `TextAssumption`: texts are numbered (their modification times break ties by name) and finitely many.
- `PacingAssumption`: the clock's unit is fine enough that no distance between two turns rounds to zero.
- `NativeAssumption`: a thread reaches the engine within the deadline margin; otherwise the engine may begin after the
  host has answered.
- `MatchAssumption`: requests and answers are lists over the spellings, and nothing is assumed of their forms;
  `StatsAssumption`: latencies are natural numbers, and a failure is none;
  `DeliveryAssumption`: a call is about a list of URLs, and the order of the providers names providers with settings.
- `ProjectionAssumption`: a payload is of the shapes the engine makes, and an extraction with pages of several providers names
  one that served (the last contributor, `extract.py:700-704`); otherwise the order of the attempts would decide who answers
  for the URLs that failed.
- `ContextAssumption`: pages are strings of any length, and the numbers of a request any integers (negative ones are raised to
  the minimum); the tool's limit is at least 2.
- `ConfigAssumption`: the lists are over known names, and files a hand wrote are of the modelled shapes.

Some theorems have a hypothesis of their own, each because the code breaks the property without it:

- `~ Batches` (three about the daily budget): finding 2, run `batch_refund`.
- `OneProcess` (`NoUpdateIsLost`): the lock is one of the process (observations, section 4).

**Only model-checked:** liveness (`HealedProviderReturns`, `SearchEnds`, `ResearchEnds`), which is out of the prover's reach, as
is ENABLED. Every invariant and every safety property of steps that a run checks is stated by a theorem.

## 6. Plan

All components with a protocol of their own are modelled. What would come next:

1. Result fusion (`research.py` 51-102), the quality filter (`quality.py`) and the diversity of results
   (`diversity_v3.py`) against reference definitions.
2. `TextStore` under `ExtractDelivery`, instead of its summary `library`.

**Not modelled:** the adapters' translation of requests and responses, routing by
regular expressions, credentials and the .env file, the wire format's rules for single fields, the console and UI,
benchmarks, the SDK's types, release scripts and generated schemas: no protocol, or nothing that a small instance tells apart.
The concurrency gate of research (`max_workers`) is never narrowed by a caller, and `request_gate_v3.py` only refuses
fields of a request.
