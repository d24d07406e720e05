# Verification of the agentic memory engine

TLA+ modules, TLC configurations and TLAPS proofs for the repository's memory
engine (`agentic_memory/`) and for the simulation framework that exercises it
(`src/simulation/`, `frontend/`).

## 1. The system

| part | state it keeps | operations | who calls it |
|---|---|---|---|
| memory store (`agentic_memory/store.py`) | SQLite `memory_keys` (one row per natural key) through one connection; LanceDB table of vectors; profile cache | `upsert_fact`, `deactivate_by_key`, `add_vector_record`, `search_vectors`, `delete_expired`, `resolve_contradiction`, `cache_user_profile`, `get_cached_profile`, `close` | engine, pruner, CLI |
| engine and server (`engine.py`, `main_api.py`) | none of their own; ingests in flight | `/ingest`, `/retrieve`, `/profile`, `/metrics`, `/prune`, lifespan | HTTP clients |
| pruner (`pruner.py`) | an asyncio task | sleep, prune, stop | lifespan |
| CLI (`cli.py`) | a process of its own | `ingest`, `retrieve`, `profile`, `metrics`, `cleanup`, `set-expiry` | a user |
| simulation runner (`simulation_runner.py`) | event queue, result, progress, fact ids by scenario | plan the cache TTL, play, resolve contradictions, finish, validate | dashboard, scripts |
| scenario generator | none | select specs, draw users and timestamps | runner |
| audit log, monitoring | `run_metadata`, `audit_events`; fact states and metrics in memory | start/end run, log event, queries | runner, dashboard, validator |
| engine client | an HTTP client, the profile verb that worked, monitor callback | ingest, retrieve, profile, metrics, close; no retries | runner, validator |
| validator | caches of one validation | states by database, API and audit; checkers; verdicts | runner, dashboard |
| dashboard API and frontend | one run slot, a poller per panel | start, stop, status, results; poll | a browser |

What is hard in this code: a fact is written to two databases with two commits;
Python's `sqlite3` opens a transaction at the first write and only the `with
self.conn` blocks commit it, so a deletion by the pruner or by an expired profile
stays pending; a process may stop at any point; the server is one event loop on
which every handler runs alone after its last `await`, but the store is also
meant for threads (`check_same_thread=False` and a re-entrant lock); ids and times
are taken before that lock. In the simulation a run is a task that a stop request or
a shutdown may cancel at any `await`; what it did is told in four places (the result,
the progress, the metadata row, the audit trail), none of which is written together
with another; runs of one dashboard share a run number; and users, with their profile
cache, are shared by scenarios that know nothing of each other. The validator then
judges the run from outside, with an await for every answer: an ingest that the client
gave up on may be stored between any two of them, a profile that it is shown may be a
cached one, and two scenarios of one user may hold the same key or texts that read
alike.

What makes each part correct:

| part | it is correct if |
|---|---|
| memory store | a key is answered with its newest memory or with none; nothing acknowledged is lost to a crash |
| profile cache | a profile is its user's own and no staler than the TTL |
| runner | every event is accounted for once; contradictions point at the fact that is active; a run ends |
| dashboard | one run at a time; an outcome stays; "stopped" is said of what has stopped |
| audit, monitoring | row, trail and fact states tell the same story |
| TTL plan | what it does not give up comes true |
| validator | a scenario that went as scripted on a sound engine passes; one that passed is as it says; only a leak is called one |

## 2. The modules

| module | what it is |
|---|---|
| `MemoryStore` | store, ingest loop, pruner, server process, CLI maintenance: one action per step between two interleaving or failure points |
| `FactMemory` | what the store promises whoever retrieves from it, without databases |
| `MemoryServer` | `MemoryStore` on the server's event loop; the refinement mapping to `FactMemory`; the inductive invariant `IInv` |
| `RunRecords` | `run_metadata`, `audit_events` and the monitoring service's fact states, and how validator and dashboard read them |
| `SimulationRun` | dashboard endpoints, runner and process over `RunRecords`; the inductive invariant `IInv` |
| `RunLifecycle` | what the dashboard promises whoever starts, watches and stops runs |
| `ProfileReads` | the runner's TTL plan, its playback and the engine's profile cache |
| `Catalogue` | scenario specs: kinds of facts, categories and the outcomes each expects |
| `PlayedRun` | over `Catalogue`: the engine's store seen from outside, an ingest at a time, with its defects and half-done ingests, and what the runner keeps of a run |
| `Evidence` | over `PlayedRun`: the validator's references, its four methods, their comparison and the attribution of a deactivation |
| `Checkers` | over `Evidence`: the 27 checkers |
| `Validation` | over `Checkers`: playback, late ingests and `validate()` from await to await |
| `MCMemoryStore`, `MCMemoryServer`, `MCSimulationRun`, `MCProfileReads`, `MCValidation` | TLC instances |
| `MemoryStoreProofs`, `MemoryServerProofs`, `MemoryPromiseProofs`, `FactMemoryProofs` | the proofs about the store |
| `SimulationRunProofs`, `RunPromiseProofs` | the proofs about runs |
| `ProfileReadsProofs`, `ValidationProofs` | the proofs about the profile cache and the validator |

### MemoryStore

State and code:

- `sql` is `memory_keys` as the process' connection sees it, `disk` what has been
  committed. `with self.conn` commits everything pending, not only its own
  statement; `close()`, an exit and a crash roll back.
- `vec` is the LanceDB table; each call on it is durable when it returns.
- `fact[i]` holds what was written under memory id `i`; ids are ranks of
  `time.time_ns()`. Texts, subjects and predicates are abstracted to a natural key.
- `worker[w]` is one call of `process_paragraph_detailed`: awaiting the extractor,
  between two facts, after the stamp of id and time (before the lock), inside
  `upsert_fact` after `deactivate_by_key`, between `upsert_fact` and
  `add_vector_record`.
- `EventLoop` tells the server (a handler past its await runs alone) from threads
  that share one store (any interleaving the `RLock` allows).
- `Faults` are the failures enabled: the embedder raises, LanceDB refuses an update
  or a delete, a commit fails, the process crashes.

Actions: `Submit`, `Extracted`, `Stamp`, `DeactivateOld`, `DeactivateFails`,
`InsertNew`, `InsertFails`, `AddVector`, `EmbedFails` (one ingest); `Prune`,
`PruneFails`, `CacheProfile`, `ResolveContradiction` (other callers); `Shutdown`,
`Crash`, `Start`, `CliCleanup`, `CliSetExpiry` (processes); `Tick`.

History variables `ageCut` and `expCut` record how far the pruner has gone, so
that a property can tell a memory the pruner has condemned (`Condemned`) from
one that must still be consistent.

### FactMemory

Per key at most one retrievable memory; ids are learned in the order in which
they are issued; what is superseded or forgotten never comes back. It does not
promise that a memory is kept: an embedder that raises loses one. `MemoryServer`
reads `known` off the live, uncondemned vectors and `open` off the ingest that is
between stamp and vector, and `KeepsPromise` is the refinement.

### RunRecords and SimulationRun

- `rows` is `run_metadata` by run number, `trail` the `audit_events` in the order of
  `event_id`, `active` and `inactive` the fact states of `MonitoringService`. A row
  and an event also say which run wrote them: the row by its `start_time`, the event
  by its run name.
- `log_event` updates the states first and writes the trail afterwards; `Writes(ok)` is
  a write to `audit_log.db` that may raise, and always does on a closed logger.
- `task[r]` is where the asyncio task of run `r` awaits. What lies between two awaits
  is one action: `Begin`, `Ingested`, `ProfileRead`, `RecordError`, `PlayedOut`,
  `WaitedOut`, `Validated`. `task.cancel()` puts `r` in `asked`; the next thing that
  such a task does is `Cancelled`, which finishes the run as failed while it plays or
  waits, and finishes nothing before its first step or during validation.
- `Script` are the scenario facts, `Chosen[r]` the events of run `r`. Which event is next
  (`Foremost`), which user it belongs to (`Owner`) and which fact it contradicts
  (`Resolves`) are computed as in the code. `Silent` are the facts in which the engine
  finds nothing; they get the synthetic ids that are the same in every run.
- `Start`, `Stop`, `StopAnswered`, `Status` are the dashboard's; `Shutdown` closes the
  logger, `Teardown` is the event loop that cancels what is still going, then `Exit`;
  `Crash` and `Restart` need no comment.

The engine behind the runner is external here: it answers an ingest with the new fact's
id, or the call fails. What it stores, and when, is in `PlayedRun`.

### RunLifecycle

`state` of each run, who was `asked` to stop, of whom it was `told` that it had, and how
many events were `logged`. Its steps are guarded by the promise: start only when nothing
is in progress, record only in progress and not asked, end as "stopped" exactly if asked.

### ProfileReads

`Plan` is `plan_profile_cache_ttl` as a whole: the TTL, the reads it moves and those it
marks as unsatisfiable. `Ingest`, `CacheHit`, `CacheMiss` play the next fact at its time
or later. `row[u]` is the user's row in `user_profiles`, committed by the handler that
writes it. Latencies, from which the runner guesses hit or miss, are left out: the model
says what was the case. (In `PlayedRun` the guess is free: hit, miss or neither.)

### Catalogue, PlayedRun

A text is the set of its content words, as `normalise_tokens` makes it; an utterance comes
with the triples that an extractor makes of it, none for one that says nothing. Two texts
match if they share `Hit/Of` of the words of the shorter one, as `text_overlap` has it
against the 0.6 threshold.

- `rows`, `dirty`, `vectors`, `cached` are the engine: `memory_keys` as committed, the keys
  deactivated in its open transaction (which the next commit makes real), the active
  vectors, the `user_profiles` rows. `Stores` is a whole ingest; `StoresPart` one that
  raises at its n-th triple, in each of the ways of `MemoryStore` (`Half`, `Undone`, `Torn`).
- `defect` is what is wrong with the engine under test: it keeps superseded vectors, stores
  nothing, or answers with other users' memories.
- `recorded`, `failed`, `checks`, `trail` are `fact_records`, `errors`, `cache_checks` and the
  run's audit events. `Prior` is `_backfill_contradiction`.
- `IngestTimesOut` is a client that gives up on an engine that does not: the error is
  recorded at once, `StoredLate` happens any time later, or never. So a superseded fact may
  be stored after its successor, or in the middle of the validation.

### Evidence, Checkers, Validation

- `Ingested(s)` are the facts that `_build_refs` takes as played, with the ids and texts of
  their records. `Superseded` and `Replacers` are `_superseded_within_scenario`.
- `DbStates`, `ApiState`, `AuditState`, `ProfileState` are methods 1 to 3 and the profile as
  method 4's source; `Agreed` is `_compare`, `Verdict` and `Attribution` are `_verdict` and
  `_attribute_inactive`.
- `Checkers` has one operator per checker, of the scenario and the state of the store and the
  caches when `RunChecks` runs them; `Judge` is the shape that they share: failed if something
  speaks against, else passed if something speaks for, else skipped.
- `Validation` is one action per stretch between two awaits: `ReadRow`, the answer of
  `/retrieve` (`RetrieveAnswered`, `RetrieveFails`, or `RetrieveAgain` out of
  `_retrieval_cache`), of `/profile` (`ReadProfile`, `FetchProfile`), and `RunChecks`. The
  three caches of one validation are `retrieved`, `profiled` (failures too) and `owned`.
- `legacy` is the set of pre-fix faults that `legacy_checker.py` switches on, `inherited` the
  events of an earlier run under the same number.
- `stirred` is a history variable: something was stored behind the validator's back. So is
  `torn`: LanceDB has refused to follow a row's deactivation, so a row may be inactive whose
  vector is live, or overwritten by one.

## 3. The runs

| run | question | result |
|---|---|---|
| `store_server` | does the server keep its two databases consistent, through crashes, failures and CLI commands? | passes |
| `store_threads` | do threads sharing a store lose a memory, hang on its lock, or put an acknowledged write at a crash's mercy? | passes |
| `store_race` | do two threads keep the superseded vector dead? | violated |
| `store_expiry` | does an expired fact stop being retrievable? | violated |
| `store_cleanup` | is what `cleanup` deletes deleted? | violated |
| `sim_dashboard` | do status, row, counts, states and trail of a run agree, however it is stopped or fails, and does it end? | passes |
| `sim_run_number` | is a run validated from its own events? | violated |
| `sim_facts_panel` | do the facts listed as active match those counted? | violated |
| `cache_plan` | does what the TTL plan does not give up come true, and is a profile never staler than the TTL? | passes |
| `cache_shared_user` | is every unmarked hit a hit? | violated |
| `validation` | whom does the validator accuse, and what does a pass mean, with faulty engines, late ingests, failed calls and pre-fix checkers? | passes |
| `validation_silence` | is an extractor that says nothing of a replacement forgiven? | violated |

Bounds. `store_server`: two keys, two ingests of up to two facts, three ids, two
faults, a clock of two, lifetimes 0 and none, one retention and one age. Three ids
let a key be written, superseded and superseded again, and let a crash or a
failure fall before and after each. `store_threads` has two ids: enough for one
value of a key to overtake another, or for each thread to own a key. The
violating runs are as small as their counterexamples. `sim_dashboard`: two runs, so that
one follows another on its number; a chain of modifications, a profile read and an event
past the duration, so that a contradiction can miss its predecessor and an event its
run; one fault, spent on a failing audit write or a crash. `cache_plan`: two scenarios of
three kinds (cache_001, cache_002 and cache_006 of the catalogue), four instants, two
users, a TTL configured or not, one unit of lateness; the plan's interesting branches
depend on one gap and one TTL, and interference on one other reader. `validation`: seventeen
batches of one or two scenarios with up to four facts each, which together have every
category, a peer's fact, a silent utterance, one with two triples, an expiry date, cache
reads marked and not, two scenarios on one key, two texts that read alike, one entry
that comes twice, and what an extractor may get wrong or miss: a replacement that yields
nothing or gets another key, two facts under one key, an expiry without a date, and cache
scenarios of which it hears nothing; two users, so that scenarios share one or do not; the three best memories
of a retrieval, so that a fourth hides one; and two faults, of which an engine's defect, a
pre-fix checker and an earlier run's events take one each, and so do a failed or abandoned
call, a lost audit write and a run that ends early. Two let a failure meet a defect, and
two late ingests of a pair overtake each other.

Fairness (`FairSpec`): extractors answer or raise, a thread that can go on does,
and the pruner's loop comes round while its process lives. Nothing is assumed of
crashes, shutdowns, submissions or the CLI.

For runs (`SimulationRun`'s `FairSpec`): the runner's steps, because timers fire, the
client's timeout bounds every call and the validator makes finitely many; the answer to
a stop, because the loop wakes whoever awaits a finished task; and the event loop's end.
Users need not stop, and processes need not crash or restart.

For `Validation`: the run plays on or ends (`WF(Play \/ Begin)`), because its clock runs out,
and the validator goes on (`WF(Validate)`), because the client's timeout bounds each await.
Nothing is assumed of `StoreLate`: what was given up on may never be stored.

What `validation` shows is in the conditions, which are evaluated where the verdict is
reached: the three are properties of the step `RunChecks`, of the scenario that it judges
(`Judged`), and not of the results afterwards, when the store has moved on. `NoFalseAlarm`: a scenario that went as
scripted (`AsScripted`: all played, no error, all on the trail, no read told wrong from its
latency) on a sound engine (`Sound`) passes, whatever else failed or was stored late, if no
other scenario has its keys (`Alone`), none of the user's texts reads like one of its own
(`Distinct`), the profiles of its users are shown and current (`Fresh`), and the extractor made
of it what its script means. The latter has two parts. `Understood`: the triples of a fact that
the script replaces (`Retold`) are overwritten by later ones (unless a later utterance is silent), those
of the others are not, and a fact that is to expire is stored with an expiry, which the bundled
extractors never do. `Voiced`: no replacement is silent, and `recent_activity_populated` is
asked only of users of whom something was heard. TLC refutes `NoFalseAlarm` when any one of the
seven conditions is dropped, or one of the parts of the last two: these are the false alarms
that the validator has. Silence is common: 66 to 69 of 111 utterances yield nothing in a run
(`RELEASE_NOTES.md:80`). Batches drawn at random from the six categories, some hundreds with
any words, keys and silences, have shown no other. `PassMeansSo`: of
a scenario that passed, on whatever engine, what was replaced is not retrievable and what was
not is, if `/retrieve` answered and nothing was stored meanwhile; TLC refutes it without
`Answered`, without `~stirred` and, for what was not replaced, without `Distinct`. `NoFalseLeak`:
criterion H, which asks the store and not the script, accuses no engine that leaks nothing and
keeps its two databases together (neither `leaks` nor `keeps_old` nor `torn`), if what was shown
of the scenario's users still holds (`StillShown`); `legacy_checker.py`'s
`script_decides_ownership` does. `StillShown` is needed: a memory that was shown, and then
replaced by a late ingest before the checkers ask who owns its text, is called a leak. So is an
overwritten row's vector that LanceDB refused to retire, hence `~torn`.

The violations:

- `store_race`: `upsert_fact` and `add_vector_record` lock separately, so a memory
  superseded between them gets a live vector that nothing ever deactivates. The
  server's event loop excludes this (`store_server` and the theorems).
- `store_expiry`: `delete_expired` finds expired rows in SQLite only. (The bundled
  extractors never set `expires_at`; custom extractors, direct users of the store
  and `set-expiry` do.)
- `store_cleanup`: nothing commits the cleanup command's DELETE.
- `sim_run_number`: `start_simulation` passes `run_number=1` every time, so the validator
  replays the events of earlier runs too.
- `sim_facts_panel`: `get_user_facts` takes the last event with a fact's id, and the event
  that supersedes a fact has the new fact's.
- `cache_shared_user`: the plan measures from the previous read of the same scenario; the
  cache is the user's. `PlannedHold` says what does hold: the hit is one whenever the
  previous read filled the cache.
- `validation_silence`: "The validator no longer reports extractor silence ... as a correctness
  failure" (`RELEASE_NOTES.md:93`). A silent fact itself is left out of the comparison
  (`_extracted_nothing`, `validator_service.py:1182`), but if it replaces another one by the
  script, the runner logs `contradiction_resolved` all the same, and the fact that nothing has
  replaced is active by row, `/retrieve` and profile and inactive by the trail: a
  `CrossValidationError`, and the scenario fails. A cache scenario of which nothing was heard
  fails `recent_activity_populated`.

A false alarm that has no run of its own, since `NoFalseAlarm` without `Alone` shows it and
`CollisionsUnseen` says why: `validator_service.py:20-25` says that a fact which another scenario
deactivated is recorded as a collision and skipped. The runner resolves a contradiction inside
its scenario, so a trail never names another one; a fact that was overwritten under its natural
key is "unattributed", and `fact_retrievable` fails besides a disagreement of its methods. Only
events of an earlier run under the same number reach the forgiving branch.

## 4. The proofs

For any sets of keys and ingests and any bounds on ids, clock and faults:

- `TypeCorrect`: `Spec => []TypeOK`, in both modes.
- `Consistent`: `Spec => []IInv` on the server. `LiveVectorOwned` alone is not
  inductive: that the row of a key is the newest id, and that it is in place when
  its vector is added, needs `StoringNewest`; that in turn needs that nobody else is
  between its two writes (`Serial`) and that ids name facts of their own key
  (`IdsIssued`). `LiveVectorsOwned` and `NeverOlder` follow from it.
- `PromiseKept`: `Spec => KeepsPromise`. Each action is mapped to a step of
  `FactMemory` by one of five lemmas (`Begins`, `Learns`, `Abandons`, `Forgets`,
  `Withdraws`); that `knownIds` is a function of the state rests on
  `LiveVectorOwned`, which makes a key's answer unique.
- `OnlyNewest`: what keeps the promise never goes back to an older memory.

For any scripts, any number of runs and any bound on faults:

- `RunTypeCorrect`: `Spec => []TypeOK`.
- `RunConsistent`: `Spec => []IInv`. `OneGoing` says that only the run in the slot is
  going: `Start` looks at the slot alone, and without this it could start a second one.
  `AskedEnds` says that a cancelled task is not going to return, which is what makes
  "stopped" a true answer. `InOrder` says that nothing is skipped before the queue is
  done, without which the counts of `PlayedOut` would not add up.
- `CountsRight`: `Spec => []CountsAddUp`, with the cardinality theorems of the library.
- `LifecycleKept`: `Spec => KeepsLifecycle`. Each action is a step of `RunLifecycle`
  (lemmas `Records`, `Ends`) or leaves it alone (`Stutters`).
- `StatusIsRecorded`: `Spec => []StatusRecorded`. What it rests on is `Recording`: that the
  logger is open while the server is up, that a run in the slot has been started and not
  lost, that nobody is cancelled before its first step while the server is up, and that
  status and row change together. `IInv` gives that a step is that of the run in the slot.
- `TrailToldStates`: `Spec => []TrailTellsStates`. Its invariant is `Replayed`, in every state of
  the process, with `Filed`: an event's user is the one its fact belongs to, and the ids
  that a run knows are those of facts it has played. So an event never supersedes its own
  fact, and what it supersedes is its user's: appending it changes what the trail
  tells exactly as the states (`LogReplayed`). Ids need not be new: the synthetic ones recur.

For any scenarios that share users, any times, TTLs and delays:

- `ReadsTypeCorrect`: `Spec => []TypeOK`, which says that the plan moves reads only within the
  run and marks only repeated ones; a choice of the least gap (`BoundedLeast`) and the bound on
  the halved TTL carry it.
- `StalenessBounded`: `Spec => []BoundedStaleness`, from `RowsHold` (a row holds all that was
  stored before it was made) and `LearnedPlayed`.

For any batches, users, faults, defects and pre-fix checkers:

- `AllAccounted`: `Spec => []Accounted`. `EventsOwn` is added for
- `CollisionsNeverSeen`: `Spec => []CollisionsUnseen`. The last recorded fact of a scenario is
  one of it (`PriorRecorded`), an event supersedes only that (`RecordsRight`), a record is
  never taken back (`Steps`), so the first event that supersedes a fact is about one that was
  ingested by the same scenario (`SupersededWithin`). That a set of positions has a greatest one
  (`HasGreatest`) is well-founded minimality of the reversed order.

- `PassesMeanSo`: `Spec => PassMeansSo`, and `LeaksAreReal`: `Spec => NoFalseLeak`. Both rest on
  `VInv` (`SaidRight`), which TLC checks on the instance of the run too:
  - `TrailTold`: an event is what `Event` makes of its fact, and those of a scenario come in
    the order of its facts. That a record added later changes no earlier event is `EventOfRecord`;
  - `StoreKept`: each vector is the one of its key's active row, unless a deactivation was torn
    (`StoreAfter` for the first n triples of an ingest, `StoreStays` for the ways it fails);
  - `CurRight`, `SeenRight`, `AnswersKept`: what a method has said of a fact is what the store
    and the trail say, as long as nothing is stored late; what is remembered of `/retrieve` is
    the user's own. A late ingest during validation ends the first and not the second;
  - `InStep`: at the verdict all of the scenario's facts have been looked at (`AtVerdict`).

  A fact that is replaced and passes is gone because two methods would differ
  (`ReplacedIsGone`): if it were stored, `/retrieve` for its own text would bring it or be full
  of others with that text (`AskedIsFound`), while the trail has it superseded
  (`TrailSaysInactive`). One that is not replaced and passes is there because a missing one
  fails `fact_retrievable`: nothing forgives it (`NotForgiven`), and what is found by text is
  its own (`LastingIsThere`). No leak is reported because what the user was shown is in a row
  of the user's (`ShownIsOwned`).

For any threads, ids and faults of the shared store (`MemoryStoreProofs`):

- `CrashLosesNoWrite`: `Spec => []CrashLosesOnlyPrunes`, if `ResolveContradiction` is not among
  the callers; nobody commits the row that it writes. It is inductive once ids are known to name
  what was written under their row's key (`LossInv`).
- `RecallIsComplete`: `Spec => []RecallComplete`, if the only faults are those of LanceDB's update
  and delete, and the callers are `cleanup` and profile reads; `set-expiry` and `resolve` write
  rows without a vector. In `RecallInv` each active row that is not condemned has its vector, or
  an ingest that is about to add it, in SQLite's view of the process and in the committed one; and
  no vector is older than its row (`Dated`), so that a prune never takes it before the row.

For scripts whose contradictions stay in their scenario (`OwnTargets`, as the generator's do):

- `ContradictsActive`: `Spec => SupersedesActive`. A run plays in the order of its queue (`Queued`),
  and each fact that it knows is active or is followed by another one of its scenario
  (`LastActive`), so the last one, which is what `Resolves` takes, is active.

For the catalogue's cache scenarios (between two hits there is a miss):

- `ExpectationsMet`: `Spec => []PlannedHold`, from `PlanInv`: the plan leaves the facts of a
  scenario in ascending time (`Ascending`; a hit moved behind one that was moved before it could
  break that) and the reads that must hit close to what they follow (`HitsClose`); the queue is
  played in order (`InOrder`), neither early nor later than the run is behind (`OnTime`); and a
  row was filled by a read that missed, and is replaced by later ones only (`RowsFilled`).

The assumptions are the named ones on the constants: bounds are natural numbers,
`Null` is not a number; the scripts have finitely many events, each with a position of
its own in its scenario, in ascending time; a cache scenario has a miss between any two hits
(`_build_cache_specs`); batches are not empty, they and their facts are
finite sequences, and a triple has a text; reads are facts, hits or misses, and rows from
before a run are of before its start; and for the server `ServerAssumption`: one event loop, and
LanceDB's update does not raise (if it does, a row is inactive whose vector is
live, until the next ingest of its key).

Model-checked only: liveness (`IngestEnds`, `AgedOut`, `RunsEnd`, `Ends`), which is out of the
prover's reach, and `NoFalseAlarm`. Its conditions make the script, the trail and the natural keys
tell the same story of every batch of the catalogue's categories; a theorem needs that spelled out
as an assumption on batches (no contradiction in a generic scenario), and one lemma for each of
the 27 checkers.

## 5. What is not modelled

Ranking of retrieval results (floating point), prompt formatting and model
servers, `MariaDBStore` (raises `NotImplementedError`), the report scripts and
benchmarks, the rendering half of the frontend. CLI commands are modelled while no
server has the files open: two processes writing at once wait for SQLite's lock.
A clock that runs backwards is not modelled.

Of the simulation: the generator's selection of specs and its serialisation; `validate()` when a
database or an audit log cannot be read, without a client or without a run result; the
report's notes and counts; the standalone `cross_validate`, which does method 4 for one fact
over the same `_compare`; the engine client's GET probe, its metrics and callbacks; cache and
latency metrics; the schema migrations of `database.py`; the polling hook; the scripts, of
which `run_checker_ab.py` has its two arms in `Validation` as values of `legacy`. Latencies
and notes are left out of `SimulationRun`.

What was met while modelling and is no run of its own:

- A scenario whose only ingest failed has no fact to look at, so `fact_stored` is skipped
  (`validator_service.py:1499`). `tests/test_validator_service.py:670` tests the failing check with
  a fact that has a record and an error, which `Accounted` excludes.
- `_retrieval_leaks` looks at the queries that equal an utterance of the scenario
  (`validator_service.py:1696`), but queries are the stored triples where there are any. Most
  answers are never searched for leaks; a leak then shows in a profile or not at all.
- Texts that read alike ("salary 100k" and "salary 120k", three and five years of experience)
  make the methods disagree about a correct run. `RELEASE_NOTES.md:84` and
  `VALIDATION_RESULTS.md` report disagreements of real runs, without their causes; this is one that the model has.

## 6. Plan

Done: the store and its promise; the run, its records and its promise; the profile cache
and its plan; the run as its validator finds it, with late ingests, and the validation.
What would come next, in this order:

1. The engine client: the probe of the profile verb, one callback per request, close.
2. The polling hook (answers in the order in which they arrive), and the migrations of
   `database.py` (a start that is interrupted between two of them).
3. The split of a profile by `recent_days`, which the cache's key leaves out.
4. Theorems: `NoFalseAlarm`, for batches of the shapes that the generator has.
