# A TLA+ verification project for bambi-agent-api

bambi-agent-api collects news and other documents, keeps a personal LLM wiki per
user, writes reports and briefings from both, and hands them to a service database.
It is a set of Python processes (HTTP API, MCP server, scheduler, workers) that
share one PostgreSQL database and no memory. Its own logic is therefore in short
transactions with minutes of model or provider calls between them, and what is hard
about it is what happens in those minutes. This project models the parts where
several processes, attempts or requests meet in the same rows, and the graphs of
model calls whose routing decides what is stored; it checks them with TLC and proves
what matters most of thirteen of them with TLAPS.

Paths below are relative to `src/`; `persistence` is
`src/infrastructure/persistence`. `PROJECT.json` lists every component with what is
and is not modelled, the source lines of every definition, and the hazards of the
code at their lines with the properties that would catch them.

## 1. Inventory

| Component | State | Operations and who calls them | What is hard | What makes it correct |
|---|---|---|---|---|
| Agent job queue (`persistence/features/jobs.py`, `workers/features/batch_runner.py`) | `agent_jobs`, `agent_job_attempts`, `wiki_source_events`; a slot's memory of its claim | register, claim under a lease, heartbeat, complete, fail with retry, defer to the provider, reap, quiet window, cancel | leases that lapse under a running worker, crashes, one worker id for all slots of a process, sources that keep postponing builds | only the current attempt ends a job; attempt rows match the job; every job settles |
| Worker process, rate limits, LLM client and usage (`workers/main.py`, `runtime/features/queue.py`, `provider_rate_limits.py`, `agent/llm`, `usage.py`) | batches, slots and pools of a process; remaining requests of a provider; usage rows | consume, claim, wait for capacity, call, retry, use tools, observe, log | one slot that raises while others run, capacity that no header restores, a call that goes on in a thread | every job is ended, every call is accounted for |
| OpenAI batch pipeline (`llm_batches.py`, `workers/features/openai_batch.py`) | `llm_batches`, `llm_batch_items`, apply claims, the job of a report item | register, claim a group, upload, mark submitted, poll, save the lines, apply to the domain | crashes between claim and record, lost answers to a submission, two pollers, batches that expire with half of their results, handlers that outlive their claim | no result lost, mixed up or applied twice; every item settles |
| Publish snapshot delivery (`postgres_publish_snapshots.py`, `generation_runtime.py`) | `publish_snapshots`, `publish_attempts` | save a version, claim a batch, ACK a batch, ACK one by hand | lapsed leases seen by different clocks, late and repeated ACKs, two ways of numbering attempts | exclusive claims, confirmed verdicts stay, every snapshot settles |
| Collection scheduler and body fetcher (`scheduler/features/runtime.py`, `collection.py`, `global_source.py`, `workers/features/global_content_fetcher.py`) | schedules, runs of the day, due topics, manual jobs, the document pool | tick: manual run, scheduled searches per provider, body step; a worker that reads bodies | plans computed from stale counts, failing calls, midnight, two fetchers | quotas hold, one search per cron slot, one fetcher per document, the tick reaches its last step |
| Interests, taxonomy, profiles, bundles (`domain/interests`, `interest_*.py`) | taxonomy, contexts, profiles, subscriptions, collection targets, bundles | choose topics, give feedback, recalculate after a build and hourly, plan collection | two transactions of the same user under READ COMMITTED, two ways to follow one query | targets are collected as often as their subscribers ask, within the capacity |
| Source ingestion and URL collection (`source_ingestion.py`, `workers/features/url_collection.py`) | heads, versions, bindings, events and jobs of sources | clip, bookmark, remove, note, register a URL, fetch and save it | repeated deliveries, two unique indexes on heads, a retry after the save | a bound source has a live head, an event ends with its job |
| Onboarding (`app/services`, `generation_runtime.py`, `agent/graph.py`) | contexts, seed versions, the cache of meanings, report requests | choose interests, seed the wiki, build the seed, ask for reports | choices that cross, builds that are retried, partial failure after the context is stored | the wiki has the latest seed, a keyword has one meaning, answers are kept |
| Personal wiki builds (`persistence/features/personal_wiki.py`, `wiki_reset.py`, `agent/wiki_builder/features/full_rebuild_graph.py`, `orchestration.py`) | heads, versions and bindings, build jobs, pages, the active build | store a source, build it, remove a bookmark and rebuild, weekly rebuild, MCP submission and write, reset | builds that read in one transaction and write in another while removals, MCP writes and resets commit | nothing of before a reset comes back, a removed source leaves, a built source stays |
| Wiki page content (`agent/wiki_builder/features/*.py`, `persist_wiki_build`) | pages by slug, relations and their supports, snapshot rows | merge chunk answers, resolve identities, link, plan, store, delete a page | names with one surface and two slugs, decisions of a model, writes to a wiki that changed since it was read | no two pages of one surface, no lost name, no dangling relation |
| Weekly maintenance (`maintenance.py`, `maintenance_v3.py`, `semantic_audit.py`, `semantic_repairs.py`, `knowledge_gap_research.py`) | issues on pages, staged events, versions and their metrics | audit, rebuild, ask for issues, repair, research, summarise | crashes between stages, repairs whose page a later repair renders, what a run counts as healthy | repairs only add, a quiet wiki is not rebuilt |
| Change history (`agent/change_history`, `change_history_facts.py`) | facts of a topic, each with what it supersedes | extract, compare, write up, check, store | runs of one topic side by side, on one connection or two, workers that are refused and retried | what is stored passed the checks; chains point back; the graph ends within its limit |
| Report generation (`agent/graph.py`, `agent/report_builder`, `generation_runtime.py`) | a report's evidence, sections and references; versions | read the wiki, collect, research, write, review, renumber, store | attempts side by side, topics that share documents, timeouts, revisions | references resolve, coverage follows evidence, one version per attempt that ends |
| Assistant and selection (`agent/assistant`, `agent/selection`) | what was collected and reported, in the database or a file | collect, filter, cluster, deduplicate, try another query, record, report | two processes with a history each, days that pass, failing sources | what is published is new |
| Briefing (`briefing_preparation.py`, `briefing_topics.py`, `briefing_preparations.py`, `briefing_selections.py`) | the selection and the snapshot of a day | prepare, brief, reuse | a preparation beside a briefing, retries after the wiki changed | topics and evidence of a day are final and fit the request |
| Schedules, MCP server, migrations | single rows, sessions, tables | administration; tools that call the above; DDL | little of their own | the parts other components rely on are in their modules |
| Wiki reading, HTTP API and authentication, connectors, domain types, development pages, empty packages, benchmarks | none, or single rows | queries, parsing, conversions | little | unit tests; see section 5 |

The components meet in the database. The job queue runs the builds of the wiki and
the reports; a report job may wait for an item of the batch pipeline
(`waiting_provider`); a report's result is a publish snapshot; the scheduler's tick
also reaps jobs and registers maintenance rebuilds; a source event stores a head and
registers a job in the same transaction; the quiet window couples all builds of a
user; a profile is recalculated after a build and decides what the scheduler
collects; briefings and reports read the wiki and the pool that collection fills.

## 2. Modules

| Module | Models |
|---|---|
| `JobQueue` | the job queue, its slots, the reaper and the parts of a reset that touch jobs |
| `AttemptLog` | abstract: what a job promises, as a log of attempts that ends at most once |
| `JobQueueLog` | the refinement mapping from `JobQueue` to `AttemptLog` |
| `LlmBatch` | the batch pipeline, with the provider as its environment |
| `Workers` | worker processes, the provider's capacity, calls and their usage rows |
| `PublishSnapshots` | delivery, with the service worker as its environment |
| `GlobalCollection` | the scheduler's tick and the body fetchers |
| `Interests` | interests, profiles, subscriptions, targets, bundles |
| `Intake` | how sources and their events, jobs and bindings come about |
| `Onboarding` | choices, seeds, meanings of keywords, reports of chosen topics |
| `PersonalWiki` | sources, builds, rebuilds, MCP writes and resets of one user |
| `WikiBuild` | what a build, a rebuild, an MCP write or a deletion does to pages and relations |
| `WikiMaintenance` | the three pipelines of the weekly maintenance |
| `ChangeHistory` | the graph of the change history and the facts it stores |
| `Report` | the attempts of a report job |
| `Assistant` | requests of the keyword assistant, with content selection |
| `Briefing` | the topics and evidence of a morning |
| `JobQueueProofs` (with the refinement of `AttemptLog`), `LlmBatchProofs`, `PublishSnapshotsProofs` (with `Report`), `WorkersProofs`, `GlobalCollectionProofs` (with `Intake` and `Interests`), `PersonalWikiProofs`, `WikiMaintenanceProofs` (with `WikiBuild`), `BriefingProofs` (with `Onboarding`, `ChangeHistory` and `Assistant`) | theorems about the module of their name |
| `MC...` | instances for TLC |

A variable is a table, or what a process remembers between two transactions; an
action is one committed transaction with everything it writes, or one step of a
process between two. PostgreSQL row locks make transactions on the same rows atomic
with respect to each other; where two transactions do not lock a common row first
(a build and a reset in `PersonalWiki`, two pollers in `LlmBatch`, two saves of
subscriptions in `Interests`) they are separate actions, or a transaction is a
sequence of statements, and the interleaving is explored. Definitions that end in
`_Mutant` are the next definition with a plausible slip; the specification never uses
them. They show that a property can fail.

`MCReports`, `MCCollection` and `MCWikiPages` are sums of instances that share
nothing: the variable `part` is chosen in `Init` and stays. They extend the modules
(`Briefing`, `Onboarding`, `ChangeHistory`, `Assistant` and `Report`; `GlobalCollection`,
`Intake` and `Interests`; `WikiMaintenance` and `WikiBuild`) under their own names; the
modules of the other parts stand in their initial states. A property of a part says nothing
of the others. Of the parts one has its types as an invariant of its own (`TypeOK`), the others
have them in their property. This is how small instances of ten modules are checked in
three runs; it is not a composition. The properties of the extended modules are the very
ones their theorems state.

**JobQueue.** `job`, `att` and `event` are the rows of the three tables, `slot` what
an asyncio task of `run_job_batch` holds. Time is relative: a row keeps the ticks to
its lease, to `scheduled_at` and to the horizon `created_at + max_wait`, and `Tick`
moves them all. `Claim` is `claim_runnable_agent_jobs` with `_record_claimed_attempt`
and the effect on the source event; `ExtendLease` and `HeartbeatLost` the heartbeat;
`Complete`, `DeferToProvider`, `Raise`, `ReturnResult`, `RecordFailure`,
`ReportLeaseLost` the ends of an operation as `process_claimed_job` orders them;
`Reap`, `ResetWiki`, `SubmitSource`, `EnqueueNow`, `ReleaseWikiJobs`,
`CompleteWaitingProvider` the statements of other processes.

**Workers.** A process runs batches of slots over one pool of connections. A slot
claims, waits for the provider's capacity, runs the calls of its job with their
retries and tool turns, writes the usage rows and closes the job; a slot that raises
closes the pool under the others, whose operations go on as `orphan`s without a log.
`rate` is the provider's row: its limit, what remains of it, and the times of its
reset and of a block. `owed` is the call attempts whose usage row is still to be
written.

**LlmBatch.** A cycle of a process goes through `idle, submitting, accepted, claiming,
polling, saving, applying`; it may die (`Crash`) at any of them. The provider accepts,
runs and ends batches with any mix of successes, errors and missing lines. The answer
to a submission may be lost (`SubmitLost`): `_call_with_retry` then calls
`batches.create` again, without an idempotency key, or the error is raised and the
items are queued again, so that the provider has a batch whose id nobody got and which
nobody retrieves. `stray` is a history of the items in such batches; the provider may
answer and charge for them once more. `abandoned` is a history of the batches whose
process died while it submitted them, `effects` one of committed handlers. `fresh` is
whether the apply claim of an item is younger than its timeout.

**PublishSnapshots.** A claim's lease is `live`, then `doubtful` (one API process takes
it for over, another still accepts it, for each compares it with its own clock), then
`over`. The service worker is outside of the repository and may send any verdict on
what it holds, twice or late. A rejected request changes nothing and is no action.

**GlobalCollection.** `tick` is the step of the one scheduler process with its plan
and the number of runs left to each source, both read once per provider; a search is a
provider call and, when it succeeds, a transaction that records a run. `orphans` are
the searches of a manual run that go on after `asyncio.gather` passed on another one's
exception. `served` is a history. `Crash` forgets the tick.

**Interests.** Contexts and profiles are written in transactions that upsert targets
and reconcile subscriptions statement by statement; `tx` holds the writes of an open
transaction, and the tables change when it commits. The UPDATE that takes back the rows
of an origin finds them when it begins (`Deactivate`) and, where another transaction is
changing one of them, waits for its end (`Deactivated`); a row that was inactivated
meanwhile drops out of it when that one commits. A target of the taxonomy and one
of a custom query may be the same search. The capacity of the collector is spread
over the active targets (`BaseDemand` and the intervals scaled by it).

**Intake.** `db` is the tables (heads, events, bindings, jobs); each request is one
action (`SubmitWebClipping`, `SubmitContentMark`, `SubmitMcpSource`, `SubmitUrlSource`,
`DeleteContentMark`) built of operators that map the tables of before to those of
after or mark them `refused`, and it may happen again at any time. A request with a URL
takes a head without URL that has its hash before the head of the URL, for the
comparison it orders by is NULL there and NULL comes first (`Found`); so a clipping may be
bound anew. The URL worker saves in one transaction and
completes in a second; between them its lease may lapse.

**Onboarding.** A request stores a context, then a seed with its build, then report
jobs, each in its own transaction and each of which may fail without undoing the one
before. A build reads the versions that wait, rebuilds from the latest if there are
several, and resolves keywords by taxonomy, page, cache, model or a generic text.

**PersonalWiki.** A page stands for all entity and concept pages made of one source;
a source version is a pair of the generation of its head (a new one after a removal
or a reset) and its number. A build is `claimed`, `building` (its session lock held,
its sources read), `written`; `Fail` and `Vanish` may happen at any step, and a
running job may be claimed by another worker at any time, which over-approximates the
leases of `JobQueue`. The session lock is `LockFree`; MCP writes, removals and resets
do not take it. `WriteAllowed` joins the trigger of migration 0018, which refuses
pages of a cancelled build, with the foreign key that refuses versions a reset
deleted. Heads of MCP submissions are not shared with other services
(`EventsAssumption`): their builds are registered under the event that made the
version, which the model does not keep.

**WikiBuild.** A name has a slug (the key of its page) and a surface (the name without
case, blanks and punctuation). `docs` are the pages, `heads` and `supports` the active
relations and what they rest on. A relation has a type, which says the kinds it may join
(`RelationKindPairs`, the table of `relations.py`). `task` is a job that reads the wiki, classifies and
resolves, links and plans, and the transaction that stores pages, relations, supports
and the snapshot's rows (`listing`). What a model answers is any member of `AnswersOf`, and
its decision on a conflict any that it may give. An MCP write brings relations of any type;
where identities are in conflict they are rewritten with the decision, elsewhere they stay
as submitted, the identity check raises at one from a thing to itself and the gate at
kinds the type does not join. What a build's linker proposes is checked before it is
planned. Relations below their floor of confidence are left out. The answers to the chunks of a source are
one sequence, and merging them keeps the first node of a key, which is the page it names
or else its name without case, with the aliases of all (`MergeChunks`); a group of nodes and pages is the least set closed under shared surfaces
and named pages (`Component`), which is what the search of `_connected_components` visits.
`DeletePage` takes a page with its relations. `clean` is a history: whether the
plan stored last was made for the wiki it was stored in.

**WikiMaintenance.** A run of a job reads the wiki, decides (V1, V2, V3 differ in what
they count), rebuilds or asks for issues, stages repairs, researches gaps and
summarises, one transaction each, with crashes between; `AddSource`, `RemoveSource`,
`Build`, `Submit` and `Delete` are the other writers. The quality a version is found to
have is any of `Qualities`: the code counts orphans by the direction of relations, which
the model does not keep, and records of contradictions. A page is the set of sources it
lists, the issues its metadata records and the day it was rendered. `quiet` is a
history: a V3 run ended, and nothing but maintenance wrote since.

**ChangeHistory.** A run is a compiled graph with a supervisor that calls workers,
counts retries and stops at the recursion limit; the topics of a report share a
connection under `db_lock` (`dbLock`), two reports have two. `depth` is the nesting of
transactions on a connection, `graph` the state of each graph; a row of `facts` keeps its
index.

**Report.** Attempts of one job run side by side; each reads its evidence, may reuse a
prepared one, collects, researches and writes per topic, merges, reviews, renumbers
and stores a version. The two readers (with and without the agent) and the delta of
the change history are requests. `pinned` is the navigation snapshot of a topic.

**Assistant.** A request runs from `plan` over `collect`, `embed`, `scores`, `history`
and `record` to `route`, which ends it or tries another query (`reformulate`); the pure
functions of `agent/selection` are operators over small integers.
`chosen` is the history store of a process: the database, or a file when it did not
answer once. What is published is a set, for the order within a report decides nothing;
`known` and `judged` are histories: the rows an attempt found when it started and when it
looked for duplicates.

**Briefing.** Three kinds of job share the topics of a day: a preparation, a briefing
that prepares for itself, and a report about named topics. `lock` is the serialization
key of the runner, `selection` the cached choice with the digest it belongs to.

## 3. Runs

Passing runs:

| Run | Bounds | Distinct states | What it shows |
|---|---|---|---|
| `jobqueue` | 1 wiki build, 1 report, 2 slots with ids of their own, 2 attempts, lease 2, delay 1, wait 1 | 116 690 | rows of a job agree, only the current attempt ends it, decisions stay, the queue implements `AttemptLog`, every enqueued job settles |
| `workers` | 2 jobs in 2 slots, one that asks for more than the provider's limit and one with a tool turn, answers that succeed, use a tool, fail or hit the quota | 325 926 | every job ends, and every call of a job that left its slot has its usage row |
| `llmbatch_safety` | 2 items of one group, 2 batches, 2 processes with one id, 2 attempts, death at any step, lost answers (`VIEW` leaves out `stray`, which nothing reads) | 1 294 180 | no result is lost, mixed up or applied twice; items, batches, cycles and jobs agree |
| `llmbatch_live` | 1 item, 3 batches, 1 process that may die at any step, lost answers | 2 802 | every item settles or is stranded by a death in mid submission, completed results are applied, no cycle raises |
| `publish` | 1 content, 2 versions, 1 worker, 2 attempts, 6 claims, 2 lapses, 1 single ACK | 126 193 | claims are exclusive, numbers free, verdicts stay, every snapshot settles |
| `collection` | searches: 1 source, 2 queries of which one for a topic, 1 run a day, 1 document, 1 body worker; interests: 2 users, 2 processes; intake: a clipping, a bookmark of a report with two versions, a removal, a note; a URL with the same bookmark; a URL in 2 slots; a URL, a clipping of it and a note of the same body | 491 129 | quotas, cron slots and fetchers; targets follow subscriptions; sources are tracked; the tick reaches its last step |
| `wiki` | a bookmark and an MCP note, 2 generations of the article, 2 workers, a removal, a weekly rebuild | 1 014 285 | resets leave nothing behind, removed sources leave, built sources stay |
| `wikipages` | build: a build that may run again, a rebuild, an MCP write and a deletion over 2 sources, the names OpenAI, Open-AI, GPT and 2 types of relation, of which one joins a concept to an entity; the write may relate a thing to itself; maintenance: 2 sources, 3 pages, 5 issues, two V3 jobs and a V2 job, 1 day, 1 other write | 738 148 | identities are canonical, the wiki is sound, fresh writes and repairs only add, a quiet wiki is left alone |
| `reports` | history: 5 runs in 4 plans; reports: 6 requests, 2 attempts; assistant: 2 requests in 2 processes, 4 documents, 2 days; morning: 3 jobs, 3 versions of the wiki; seeds: 2 choices, 2 keywords, 2 workers; bundles: 1 choice, 1 interest | 1 166 817 | facts and references agree, news is new, the topics of a day are final and fit their request, the wiki follows the latest seed, answers are kept |

Runs in which the code disagrees with a statement of the repository, one property each:

| Run | Statement | What the code does |
|---|---|---|
| `jobqueue_shared_completion` | `workers/features/batch_runner.py` 260-261: after the lease was lost the completion fails | with one worker id per process the first slot completes the job of a later attempt |
| `report_evidence` | `agent/graph.py` 1097-1100: documents are told apart by what they are | a live article is known by the number of its reference, so the first one of a later topic counts as seen and the topic is left out |
| `intake_answer` | `docs/fastapi-mvp-api.md` 121: a body stored already is answered | two live heads, found by URL, come to one body; the UPDATE breaks the unique index and the request fails |

**What the conjunctions hold.** Several properties are conjunctions of named parts,
one per thing that can go wrong; the parts and their comments are in the modules.
`RowsAgree`, `DecisionsStay` (`JobQueue`), `ItemsAgree`, `ResultsAreKept` (`LlmBatch`),
`ClaimsAreSound`, `VerdictsStand` (`PublishSnapshots`), `CollectionKeepsToPlan`
(`GlobalCollection`), `SubscriptionsAgree` (`Interests`), `SourcesAreTracked` (`Intake`),
`PagesFollowSources` (`PersonalWiki`), `WikiIsSound` (`WikiBuild`), `HistoryIsTrue`
(`ChangeHistory`), `ReportsAgree` (`Report`), `NewsIsNew` (`Assistant`),
`SeedIsFollowed`, `AnswersAreKept` (`Onboarding`).

**Why the bounds are enough.** Every hazard needs few actors. Two slots are the
attempt that lost its lease and the one that replaced it; two attempts are the first,
which may be retried, and the last, which may not; a lease of two ticks is valid, at
its end, and over. Two processes are the poller with the stale snapshot and the one
that overtook it; two items in one batch make a partial success, and two batches a
resubmission. The delivery needs two versions of one content, since all tables are
keyed by it, and two lapses so that a batch can be overtaken twice; six claims let
each snapshot use its attempts and the lapses on top. Two searches and a quota of
one make the plan longer than the quota. The wiki needs two workers to interleave two
builds, two generations of a head to tell before and after a reset or removal, and a
second source whose pages must survive. The names of `wikipages` are the smallest set
with one surface and two slugs, and one other; the two types of relation are one whose
kinds the gate refuses between a concept and an entity and one whose kinds it takes;
a job that reruns is a lapsed lease.
Two users share a target, so that one may leave it while the other subscribes. Two
topics with one document each and the same one are the least that a report can number
differently. Two requests of the assistant in two processes have a history each, and
one day is as long as it takes a document to become one of yesterday; three
requests over three days were also run by hand (4 092 915 states), for what
`NewsIsReportedOnce` excepts as `Rewritten` takes a third one. A preparation, a
briefing and a named report are all the writers and readers of a day's topics.
What `Max...` constants bound (claims, lapses, generations, versions, days, ticks) is
unbounded in the code; the guards that use them say so. Deadlock is not checked: every
system here may have nothing left to do once its bounded supply of batches, claims,
requests or job keys is used up. The workers of `PersonalWiki` and the processes of
`LlmBatch` on one host are symmetric, and these runs check invariants only.

**Fairness.** `JobQueue`: worker loops keep claiming, an operation ends because every
model call has a timeout, the failure path runs, the scheduler reaps and time passes.
Nothing is assumed of the heartbeat, crashes or users. `Workers`: the loop of each
process, its slots and the operations in them take their next step, and time passes;
what a call answers is not fair to anyone. `LlmBatch`: each process keeps running
cycles and each step that is possible again and again is taken (strong fairness, since
a crash or another process may disable it); retrieving and applying do not fail for
ever, the provider ends its batches, claims lapse. `PublishSnapshots`: the service
worker, which is external, keeps polling and acknowledges what it could handle; leases
lapse without fairness, within their bound. `GlobalCollection`: the scheduler's loop
takes its next step; `PendingIsClaimed` assumes that the process does not keep dying.
All other modules state safety only.

## 4. Proofs

All theorems hold for every value of the constants that satisfies the named assumptions:
bounds that are numbers, null values outside of their sets, constants with the shape
their use in the module supposes. They are ASSUMEs of the module (`EventsAssumption` and
`JobsAssumption` of `PersonalWiki`, `Sound` of
`Workers`) or hypotheses of the theorems (`ConstantsAreSound` of `GlobalCollection` and
of `WikiMaintenance`, of which `QuietWikiIsKept` needs `None \notin Jobs` only;
`RequestsAreSound` of `Briefing`, `RequestsAreWellFormed` and `ValuesDiffer` of
`Intake`, `InterestsAreSound` of `Interests`, `ChoicesAreSound` of `Onboarding`, `RunsAreSound` of `ChangeHistory`, `BuildIsSound` of `WikiBuild`, `AskingIsSound` of
`Assistant`, `ReportsAreSound` of `Report`); the MC
modules assert the hypotheses of the constants of their runs. No theorem bounds the number
of actors or of rows. `RunsAreSound` bounds one number by another: with n =
`WORKER_MAX_RETRIES` + 1 calls of a worker, 5 + 8n^2 nodes have to fit into the recursion
limit. The code's values do, with 37 of 40 (`graph.py` 619); two retries would need 77.
`ReportsAreSound` has every topic in a report once, as `normalize_topics` leaves them
(`app/schemas/mvp.py` 453), and prepared evidence of topics only.

Every inductive invariant was an invariant of a run on the bounds of section 3 before it
was proved (`JobQueue` 116 690 distinct states, `LlmBatch` 1 294 180, `Workers` 325 926,
`GlobalCollection` 45 648, `Briefing` 200 282; `WikiMaintenance` 5 774 668 with two
other writes instead of one, its `WikiInv` 564 841 with one; `Intake` in all of `collection`, with 491 129;
`Onboarding` 70 196 with two choices and 2 681 860 with three; `ChangeHistory` 277 549;
`Assistant` 80 468; `Report` 537 922; `Interests` 301 468; `WikiBuild` in all of `wikipages`,
with 738 148; where an invariant quantifies over all sequences or functions, TLC was given
the one the recursion defines). A proof has a lemma per
action; under it is a step per conjunct that the action can disturb, and frame lemmas
say what an action that touches none of a conjunct's variables keeps.

**JobQueue** (`JobQueueProofs`): for every number of jobs, slots, worker ids, attempts
and ticks. The properties are not inductive: that a completion belongs to the current
attempt depends on who holds the lease, and that on what slots remember. `IInv` adds

- `SlotInv`: the attempt a slot remembers is one the job has made;
- `OneSlot`: no two slots remember the same attempt;
- `OwnerIsCurrent`: when a job is running under the worker id of a slot that works on
  it, the slot's attempt is the current one;
- `RowInv`: a lock owner exactly while running, attempts without gaps, one running
  row, a completed row exactly when the job is completed or waits for the provider,
  and a source event that agrees.

`OwnerIsCurrent` needs `UniqueWorkers`, no two slots with one worker id. All theorems
assume it, and `jobqueue_shared_completion` is the counterexample without it: a process
with a concurrency above one is outside of what they say. Proved are
`RowsAlwaysAgree`, `DecisionsAlwaysStay`, `OnlyCurrentAttemptEnds` and `TypeCorrect`,
which are the run's properties, and their parts `InductiveInvariant`, `NoZombies`,
`QueuedJobsAreClaimable`, `SuccessOnce`, `OneSlotHoldsAttempt`, `VerdictsAreFinal`,
`EndedJobsStayEnded`, `StaleFailuresAreDropped`.

`QueueImplementsLog` is the refinement: under the mapping of `JobQueueLog` the initial
state is the empty log of every job, and every step of the queue is for every job a
step of `AttemptLog` or leaves its log and phase as they are. A lemma per kind of step
(an attempt opened, judged, delegated, resolved, given up) relates the rows that change
to the log, from `RowInv`: the log has an entry per attempt, and only the last may be
open. So whatever leases lapse, a job's attempts read as one sequence that is decided
at most once.

**LlmBatch** (`LlmBatchProofs`): for every number of items, batches, processes and
attempts. `IInv` relates the rows of the database, what the provider has and what each
cycle remembers from before its call:

- `RowInv`: what the row of an item says of its batch (a queued item has none, a
  submitted one is in a batch that is submitted, a completed one has a line that
  succeeded);
- `ProviderInv`, `LinkInv`: the provider has lines only of a batch that ended, and runs
  or has answered only items that are still linked to that batch, which is why of the
  batches whose id the service got no two return a success for one item;
- `CycleInv`: a snapshot taken before the poll lease lapsed is stale but of a batch that
  went forward only, and one that saw an end saw the provider's end;
- `HoldersDiffer`: a batch in submission is held by one cycle, although processes of one
  host have one id.

`ItemsAlwaysAgree`, `ResultsAreAlwaysKept`, `AppliedAtMostOnce` and `BatchTypes` are
the run's properties. `PreparingIsHeld`, a part of `ItemsAgree`, is inductive by itself:
only a death in mid submission takes the holder from an item in preparation.
`OneProcessNeverRaises`, the invariant of the other run, has the hypothesis `Alone` (one
process, which may die anywhere). `SoloInv` adds that its snapshots are of batches still
submitted, and that what it sent waits for the answer. The hypothesis is needed: on the
bounds of `llmbatch_safety`, with two processes, TLC finds a cycle that raises.

**PublishSnapshots** (`PublishSnapshotsProofs`): for every number of contents,
versions, workers and batches. `Inv` adds that an unused claim id names nothing
(`UnusedIsEmpty`), that claim ids bound attempt counts (`AttemptsAreClaims`), that
attempt numbers have no gap and only single ACKs go beyond `attempt_count`
(`NumbersInOrder`), that a held snapshot has its attempt open and an open attempt with
a live lease holds its snapshot (`HeldIsOpen`, `OpenIsHeld`), and that a published
attempt left its mark (`Confirmed`). `NumbersInOrder` is why the unique index never
rejects a claim although the two ways of acknowledging number attempts differently.
Proved are `ClaimsAreAlwaysSound`, `VerdictsAlwaysStand` and `PublishTypes`, the run's
properties, and `PublishInvariant`, `ClaimNumbersAreFree`, `ClaimsAreExclusive`,
`RetriesHaveAttempts`, `ConfirmedPublications`, `OnlyDirectAcksOverrule`.

**PersonalWiki** (`PersonalWikiProofs`): for every number of documents, events,
removals, jobs, workers, generations and versions. What a build writes depends on what
it read long before, so `IInv` relates every worker's memory to the tables:

- `Heads`, `Bindings`, `Claims`: numbers of heads and versions, bindings to live
  heads, and at most one worker past the session lock;
- `Builders`: a build of a source holds only that source;
- `Author`: what an MCP client read lives, or a reset deleted it;
- `Reads`: what a worker holds lives, or was deleted by a reset (so that its write
  will be refused), or an open removal other than its own job will clean it up;
- `Pages`: the same of the wiki, together with what workers are about to write;
- `Kept`: what was built and lives is in the wiki and in every read that would
  overwrite it.

`PagesAlwaysFollowSources` and `TypeCorrect` are the run's properties; `ResetIsFinal` is
the part about resets alone. The argument for a full rebuild is that of the session
lock: between its read and its write no other build writes, MCP writes only add what
its read will keep, and a reset cancels the job, which `WriteAllowed` sees.

**Workers** (`WorkersProofs`): for every number of processes, slots, jobs, calls, tool
turns and faults. `Stage` relates the slot of a job to the job's row (which step it is
at, whether the row is running, whether an error is kept), and `Owing` says that a call
whose usage row is missing is of the current attempt and still in the list of the slot
that will store it. From them follow `WorkerTypes`, with a provider row that never has
more remaining than its limit, and `UsageIsAlwaysComplete`: what a job that left its
slot owes is nothing, except for what the property names (rows that could not be
stored, and calls that went on after a cancellation).

**GlobalCollection** (`GlobalCollectionProofs`): for every number of sources, providers,
searches, documents and fetchers. The plan of a tick is read before the searches run,
so `IInv` has `QuotaIsKept` (what the plan leaves to a source is not more than what its
quota leaves now: a manual run in between, midnight and a crash keep this) and
`SlotIsFree` (a search that is planned has not been served in its cron slot).
`CollectionIsPlanned` is the run's property, `CollectionTypes` its types.

**WikiMaintenance** (`WikiMaintenanceProofs`): for any jobs, pages, sources, issues,
other writers, days and crashes. That a quiet wiki is not rebuilt rests on one thing:
the active version ends with known quality. `IInv` follows the version through a V3
graph beside which nobody wrote (`Calm`): up to the repairs it is the audited one, or,
after a rebuild, the graph's own and sound; afterwards it is the version that the
summary will name; at the end it is settled. `OneGraph` is the session lock, and
`KeepsPath` that inspection and repairs belong to V3. `MaintenanceInvariant` is the
invariant and `QuietWikiIsKept` the run's property; of the repairs only the version
they leave matters to it.

What repairs leave on the pages is a second invariant, `WikiInv`: pages and relations
rest on known sources (`Stored`), and what a graph was told and saw is still what it
repairs, its snapshot the wiki itself when nobody wrote beside it (`Snapshot`).
`Applied` recurs on the batches that came before, so what it computes needs induction:
`Least` (a nonempty set of numbers has a least one, from `WFMin`) gives that the
recursive function exists (`FoldExists`) and that every batch keeps `Grown`
(`BatchGrows`, `AppliedGrows`): the number of the first batch that broke it would be the
least. From that `MaintenanceTypes` and `RepairsAlwaysOnlyAdd` follow: no batch drops
what an earlier one recorded or cited, however many of them touch a page.

**WikiBuild** (in `WikiMaintenanceProofs`): for any names, slugs, surfaces, sources,
answers, jobs, candidates and deletions. Assumed of names is that those with one slug have
one surface. Three parts. Identity: a component is closed and is the component of each of
its members (`ComponentIs`), so groups share no surface and no page (`GroupsApart`); what a
group becomes carries the surfaces of all its nodes and, if it takes the page, is called
what the page is called (`StandsFor`, for a merge `MergeStandsFor` and for any decision
`DecisionStandsFor`). So nodes are as many as the keys they plan (`KeysApart`,
`AsManyKeys`), and of the checks behind the resolution only two can fail, and both for what was
submitted (`Unfit`): a page that does not exist, and a relation of a thing with itself
(`ResolutionIs`). Plans: what a plan puts over the pages only adds to them (`PlannedIs`)
and covers what was found (`PlannedCovers`); a stored plan keeps relations between pages
there are, and supports under relations (`PersistKeeps`), also for a page another job
deleted or changed meanwhile. That the relations of an MCP write are well formed is known
only once the gate has passed it, so the invariant says it of jobs that have not failed
(`HasSound`). Jobs: `BuildInv` says of each job separately (`TaskInv`) what
its next step relies on (`MayGoOn`) and what it foresees (`Foresees`): a rebuild knows the
pages its plans make of none, a job beside which nobody wrote those its plan makes of the
wiki, which is why the gate it passed in memory is a fact about the database after it
stored. `Makes` says this without recursion: there is a sequence of wikis from the base to
the pages, each the one before with a plan on it. The recursive function that stores the
plans of a rebuild exists, and each of its values is sound, by `Least`. A job that stored
keeps its cover until somebody else writes (`UnfreshKeeps`). `ResolutionAlwaysCanonical`,
`WikiAlwaysSound` and `FreshWritesAlwaysOnlyAdd` are the run's properties, `BuildInvariant`
the invariant.

**Briefing** (`BriefingProofs`): for every number of requests, days, topics, wiki
versions and attempts. `RunOf` says that a worker past the lock holds it, that the day
it prepares is not prepared, and that what it carries is no more than its request
allows; `LockOf` that a lock is held by a worker at work; `SnapshotOf` that the topics
of a stored day are those of its evidence. `SnapshotsFitRequests`, `SnapshotsAreFinal`
and `BriefingTypes` are the run's properties: the only preparation of a day that may
store it is the one that found it unprepared under the lock.

**Intake** (in `GlobalCollectionProofs`): for any requests, URLs, bodies, versions and
slots. A request is a sequence of statements in one transaction, and an index may refuse
one of them, so what is kept (`Kept`) is stated of the tables and not of the state: every
operator that maps tables to tables has a lemma that it keeps them, and a request is the
composition of these. `OneHead` (live heads differ in URL and in hash) holds up to the
statement that the index refuses; `HashIs` (a hash that is a URL is that of its own head)
is why a link finds its head by its hash; `BoundLive` that a bound event has a live head
with a version; `OwnJob` and `LinkJobs` that an event is linked to a job of its own and
that the builds of a link follow the link's job and are of versions its head has; `Ends`
that an event delivered once ends with its job, for which a request that was not
delivered must have left nothing (`Unsent`). `SourcesTracked` is the property of the
run, `IntakeInvariant` the invariant.

**Interests** (in `GlobalCollectionProofs`): for any users, processes, wikis, contexts,
topics and capacity. Transactions overlap, so the invariant speaks of those that are open.
`TxSound`: one takes back and adds rows of its user and its origin only, for targets that
exist or that it has upserted itself; this is why a committed row always has a target
to count it. `OneRow`: the rows that two open transactions add differ, and a committed row
that one of them would double is taken back by it; that an insert waits for rows `Held` is
what makes it hold. `SavingSound` and `OneSaver` are the lock of the context: of one user
one transaction saves a context, it is newer than the stored one, and from its first
statement on it has every onboarding row of the user among those it takes back, since
nobody else can add one. Together with the guard on the version they give
`OnboardingFollowsContext`. The capacity is arithmetic over a finite set of targets. A
fold over a set recurs on its subsets; `SmallestOf` (of sets of subsets of a finite set
one has none inside it) takes the place of induction and gives that the recursive function
exists (`FoldExists`), that sums compare element by element (`SumsCompare`) and that a
factor can be taken out of a product whatever the order (`ProductWithout`). Each interval
is, up to the rounding of `CeilDiv`, no shorter than its share of the capacity
(`IntervalsAre`), and `SharesFit` adds up the shares after multiplying by all
intervals, as the property does to stay in whole numbers. The shorter base intervals divide the
longest (`BasesAre`, from `InterestsAreSound`; 360, 720 and 1440 minutes in
`interest_taxonomy.py` 236-238), so the whole quotients of the model are what the code's floats are.
`SubscriptionsAlwaysAgree` is the property of the run, with its types,
`InterestInvariant` the invariant.

**Onboarding** (in `BriefingProofs`): for any choices, keywords, taxonomies, requests,
versions and workers. The properties speak of the wiki and the contexts; a build reads
the seed long before it writes. `StartedSound` says what the first read decides: a
rebuild began with several versions, a build that is none is of the first, and if
another version was stored since, that one is not built. `LoadedSound` says that what
is being built has the keywords of the version that matters when it is written
(`Building`), and that nobody else has a context for what is asked; it rests on
`OneBuilder`, the session lock. `FirstPages` is why a build may add to the wiki: with
one version all pages are of its choice. From these follow `SeedAlwaysFollowed`
(`LatestPages`) and, with `BundlesSound` (what was accepted has a job and a context),
`AnswersAlwaysKept`.

**ChangeHistory** (in `BriefingProofs`): for any runs, topics, connections, answers and
retries. `WithinBudget` counts the nodes: `NodesBefore` is what a graph may have used when
its next diff is called, `NodesOf` adds the calls of the writers since, and every way into
the supervisor and out of it keeps the two (`SupervisedSound`); since a new diff resets the
writers' counts, the retries multiply. `Decided` says what the supervisor saw last,
`Carried` where each fact of the diff is by now (among the checked or the valid ones, or in
a problem), `Checked` that a valid update says otherwise than the fact it was checked
against. That fact may be superseded before the run stores, but rows are only added and
keep what they say (`Grows`), so the update is still real (`StoredFacts`); a promoted fact
needs the newest of a finite set (`Greatest`). `DepthsAre` counts the open transactions of a
connection. `HistoryAlwaysTrue` is the property of the run, `HistoryInvariant` the invariant.

**Assistant** (in `BriefingProofs`): for any requests, processes, documents, sources and
queries. Selection is a chain of operators over documents; what matters of it for news is
that it is a function: `FilterSound` and `OfToday` say that what a request carries, once it
has judged, is the value of the chain at what it collected and at the rows it `judged`. That
gives `SameDayRepeats` without a look inside: two requests with the same arguments have the
same value, because rows of today are not among them (`SameInput`). For `NewsIsReportedOnce`
the inside is needed at one place, that every published item is the representative of a
cluster its duplicate check left, and so not the text of a row the check read. `HistoryKept`
links that row to the one the attempt started from: until it judges, a row of the last week
stays as it is unless another request rewrote it. `TriedSound` is that a query is recorded
before another is proposed, and the proposal compared with all of them. `AskKinds` is the
types: of the histories, and that what the filters leave was collected (`SubsequenceIs`).
`NewsIsAlwaysNew` is the property of the run, `AskingInvariant` the invariant.

The proof was first tried of a stronger property, which TLC had confirmed for two requests,
and failed at the upsert of `record_report_items`: with a third request around midnight it is
false (section 6), and `Rewritten` was stated as the exception.

**Report** (in `PublishSnapshotsProofs`): for any jobs, topics, documents, failures, timeouts
and attempts. Three parts. That a reference stands for one document is a fact about the
operators: `Firsts` keeps one document of each id (`FirstsIs`), so merging by `Key` and
numbering by kind leaves distinct references (`MergeIs`, `RenumberedIs`), and so does
selecting one document per reference (`SelectIs`); what remains for the invariant is that a topic's
contexts are among the report's after the numbering (`Renumbered`). That a topic is
collected for once is the invariant `WriterSound`: three places collect, and after each of
them the topic is in `completed`, in `attempted` or without documents in a way that the
next place sees, also when the reader timed out or failed after its collection. A reader of
one topic that fails after it collected leaves no trace, so there the property allows two.
That versions tell the truth is `VersionsSound`: a version is of an attempt that is past
storing, and only the last is not superseded. `ReportsAlwaysAgree` is the property of the
run, `ReportInvariant` the invariant. `OwnEvidenceIsKept` is no part of it: it is false
(`report_evidence`).

Only model-checked is all liveness (`EnqueuedJobSettles`, `SnapshotSettles`, `ItemsReachTheirEnd`,
`JobsSettle`, `PendingIsClaimed`): the prover handles neither fairness nor ENABLED.

## 5. What the models leave out

Not modelled, and why:

- Wiki reading, navigation and the graph view: queries and a bounded walk that change
  no state.
- HTTP API, authentication, API keys, schemas: request parsing, tokens, updates of
  single rows.
- Source connectors: parsing of external feeds and pages. Their outcomes (results,
  nothing, an exception) are choices in `GlobalCollection`, `Report` and `Assistant`.
- Domain types, shared helpers, development pages, empty packages, benchmarks and
  scripts: no state, or none in production.
- Texts, scores with floating point, embeddings, prompts and layout, everywhere. Where
  a score decides, it is a small integer; where a model answers, it is a choice.
- Row-level security, and row locks in an order that may deadlock: every step is one
  transaction. `atomic_persist` (`full_rebuild_graph.py:549`) updates wiki rows before
  the user's transaction lock is taken while a reset takes them the other way round;
  PostgreSQL breaks the deadlock and the loser is retried, which `Fail` covers.
- Of the queue: the per-user serialization lock inside a slot (in `PersonalWiki` and
  `Briefing`) and the listing statements. Of delivery: the in-memory repository. Of
  schedules: edits of keywords and limits, and the one-shot run of the scheduler that is
  forced past the cron condition (`scheduler/main.py:84`), which keeps to the quota. Of
  wikis: chunks, the schema page.
- The command line collector (`workers/main.py:171`): it records runs without looking at
  quotas, so `CollectionKeepsToPlan` is about the scheduler and the requests of the API.
- Of the stores: the file store of the development setup reads outside of its lock while
  `_save` truncates the file (`agent/assistant/features/storage.py:104-112`, 214); the
  model reads it at once. The topics of a day are stored on another connection than the
  one with the lock; the model has no worker that lives on after its lock's connection died.

Smaller hazards seen in the source and not followed further:

- a source paused after its provider's rows were read is searched to the end of its
  plan; a manual run counts as a source's last run and may take the slot of the
  scheduled one; two schedulers would exceed a quota together, and the scheduler's
  docstring asks for one;
- a retried build of an old version may write over a newer one; a late duplicate of a
  mark event binds its source again; a removal event whose payload a reset redacted
  ends in a KeyError (`source_ingestion.py:919`); a URL source has no binding row
  until it is fetched;
- a batch ACK is rejected as a whole when one of its items was taken over;
- a report stores version 2 while the snapshot of version 1 is still ready or claimed
  (`generation_runtime.py:1861`); the service database orders them by version;
- the navigation snapshot of a report may be overwritten by a second reader after a
  timeout; renumbering by document may drop the only page of a topic that is still
  listed as covered (`agent/graph.py:2046-2060`);
- V2 maintenance counts orphan pages and contradictions as structural, and ordinary builds leave no
  metrics, so V2 and V3 always rebuild after an ordinary build
  (`docs/wiki-loop-v2-rollout.md:82`);
- the upsert of a taxonomy does not reconcile the policy of its targets, and a
  taxonomy target and a custom target of one query may both be active.

## 6. Known disagreements

Besides the three runs above, these are places where a document or a comment says
something else than the code does, seen while the modules were written:

- the status of a batch may go back to active: a snapshot read before a poll lease
  lapsed is stored after a newer one (`llm_batches.py:382`; against
  `docs/openai-batch-processing-design.md:62`);
- slots whose batch raised go on with a closed pool
  (`workers/features/batch_runner.py:396`; the same document, lines 24-27, describes
  slots that are refilled until their batch is done);
- failed calls are not counted as runs (against `README.md:268`, where
  `daily_max_runs` counts the external calls);
- a batch of bodies that failed stays `fetching`, which nothing reads
  (`global_content_fetcher.py:222`; against `scheduler/features/runtime.py:529`);
- a source stored again after a reset under its old event id meets the key of its
  first job and gets no build (`jobs.py:1256`; against `docs/fastapi-mvp-api.md:79-80`);
- the snapshot of a build repeats rows a retry already inserted and does not list
  exactly the pages of its moment (`personal_wiki.py:1951`; against
  `docs/agent-db-design.md:167`);
- repairs of several issues are stored under one source of their plan
  (`semantic_repairs.py:579`; against the docstring at line 67, the source a batch
  rests on);
- the id a model names as superseded is not looked up
  (`agent/change_history/features/graph.py:464`; against
  `shared/change_history_models.py:52-53`);
- transactions on a shared connection are not nested where the code says so
  (`validation.py:256`; `agent/graph.py:2227`);
- the cap on the live topics of a report (`agent/graph.py:852-858`) is applied twice,
  to the topics whose collection was deferred (line 1321) and again to those that are
  still short of evidence (line 1959);
- whether a user has no history yet is judged again for every query, when the one
  before has recorded its documents (`agent/assistant/features/pipeline.py:627-628`
  asks for it before anything is recorded);
- saving a context drops the wiki's interest in the same topic
  (`interest_taxonomy.py:202-205`);
- a failed choice of topics is stored as a ready day without topics
  (`briefing_topics.py:111-113`, 181);
- manual runs are not counted in `runs_today` (`global_source.py:229-235`; against the
  docstring at `scheduler/features/management.py:258-259`);
- a document has one row of the report history, and an upsert moves it to today
  (`agent/assistant/features/storage.py:456-462`): of three requests around midnight the
  second can move the first one's row to the new day, where the third leaves it out
  (`agent/selection/features/dedup.py:106`) and reports it again; in the same way a request that
  is still of yesterday takes today's report for an earlier one. `NewsIsReportedOnce` excepts
  both (`Rewritten`), and `SameDayRepeats` compares requests that found the same rows of
  other days; two requests, as in the run, need neither;
- `load_change_history_facts_by_ids` compares topics exactly where the comment of
  `_TOPIC_MATCH` asks for normalised ones.

## 7. Plan

Done: the queue with its abstract log, the workers, the batch pipeline, delivery,
collection, interests, intake, onboarding, the wiki's builds, its pages, its
maintenance, the change history, reports, the assistant and briefings; theorems about
all fifteen, with the refinement of the abstract log.

Left, in this order:

1. Compositions: `Intake` with `PersonalWiki` (jobs of sources as they come about),
   `Report` with `Briefing` (prepared evidence), `Workers` with `JobQueue` (slots that
   raise under leases).
2. An abstract specification of the wiki's pages per source that `WikiBuild`
   implements, to join it with `PersonalWiki`.
3. Liveness of `PersonalWiki` and `Intake` under the fairness of the queue.
