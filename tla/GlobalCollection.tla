-------------------------- MODULE GlobalCollection --------------------------
(***************************************************************************)
(* The collection scheduler of bambi-agent-api: one process whose tick     *)
(* (scheduler/features/runtime.py) runs a manual collection, the scheduled *)
(* collections of each provider in turn, and then reads the bodies of the  *)
(* documents found.  A worker process may read bodies beside it.           *)
(*                                                                         *)
(* A source is due when its cron time came after its last recorded run; a  *)
(* topic is due when its next_collection_at came.  The rows of sources and *)
(* topics are read once per provider and tick and used for all its         *)
(* searches.  Every search is a provider call and, if the call succeeds, a *)
(* transaction that records a run; a failed call records nothing.          *)
(***************************************************************************)
EXTENDS Integers, FiniteSets

CONSTANTS
  Sources,      \* global_sources with a cron and a quota
  Providers,
  ProviderOf,   \* connector_type of a source
  Queries,      \* the searches the schedules can plan
  SourceOf,     \* the source that plans a search
  TopicOf,      \* target_key of a search, None for a fixed keyword
  Topics,       \* interest_collection_targets
  None,
  DailyMax,     \* quota_policy.daily_max_runs of a source
  Docs,         \* URLs the providers may return
  Workers,      \* global-content worker processes
  FetchLimit    \* documents claimed at once

Scheduler == "scheduler"
Fetchers == Workers \cup {Scheduler}

\* What is assumed of the constants.
FetchersDiffer == Scheduler \notin Workers
SourcesAreWellFormed == /\ ProviderOf \in [Sources -> Providers]
                        /\ SourceOf \in [Queries -> Sources]
                        /\ TopicOf \in [Queries -> Topics \cup {None}]
                        /\ None \notin Topics
LimitsArePositive == DailyMax \in [Sources -> Nat] /\ FetchLimit \in Nat \ {0}

VARIABLES
  active,   \* sources whose status is active
  due,      \* sources whose cron time has come since the last recorded run
  topicDue, \* topics whose next_collection_at has come
  runs,     \* runs_today: today's runs with trigger_source schedule
  manual,   \* the queued or running global_collection_run job of a source
  tick,     \* the scheduler: step, the source of its manual job, the providers
            \* to come, the planned searches, the runs left to each source
  orphans,  \* manual searches still running after another one raised
  doc,      \* content_status of a document
  fetch,    \* documents a fetcher holds in memory, and the downloads
  served    \* history: scheduled successes of a search since it came due

vars == <<active, due, topicDue, runs, manual, tick, orphans, doc, fetch, served>>
config == <<active, topicDue, manual>>

TickSteps == {"idle", "manual", "between", "collect", "fetch"}
Idle == [step |-> "idle", job |-> None, pending |-> {}, plan |-> {},
         left |-> [s \in Sources |-> 0]]
NoFetch == [step |-> "idle", docs |-> {}, bodies |-> {}]

Init ==
  /\ active = Sources /\ due = Sources /\ topicDue = Topics
  /\ runs = [s \in Sources |-> 0]
  /\ manual = [s \in Sources |-> "none"]
  /\ tick = Idle
  /\ orphans = {}
  /\ doc = [d \in Docs |-> "absent"]
  /\ fetch = [f \in Fetchers |-> NoFetch]
  /\ served = [q \in Queries |-> 0]

----------------------------------------------------------------------------
(* The clock and the administrator. *)

CronFires(s) ==
  /\ s \notin due
  /\ due' = due \cup {s}
  /\ served' = [q \in Queries |-> IF SourceOf[q] = s THEN 0 ELSE served[q]]
  /\ UNCHANGED <<config, runs, tick, orphans, doc, fetch>>

TopicComesDue(t) ==
  /\ t \notin topicDue
  /\ topicDue' = topicDue \cup {t}
  /\ UNCHANGED <<active, due, runs, manual, tick, orphans, doc, fetch, served>>

\* runs_today counts from midnight in Korea.
DayStarts ==
  /\ runs' = [s \in Sources |-> 0]
  /\ UNCHANGED <<config, due, tick, orphans, doc, fetch, served>>

PauseOrResume(s) ==
  /\ active' = IF s \in active THEN active \ {s} ELSE active \cup {s}
  /\ UNCHANGED <<due, topicDue, runs, manual, tick, orphans, doc, fetch, served>>

\* Each request is a job of its own; the model keeps one per source at a time.
RequestManual(s) ==
  /\ manual[s] = "none"
  /\ manual' = [manual EXCEPT ![s] = "queued"]
  /\ UNCHANGED <<active, due, topicDue, runs, tick, orphans, doc, fetch, served>>

\* A job the scheduler could not finish is claimed again once its lease is over
\* (JobQueue counts its attempts; here they are not bounded).
ManualLeaseExpires(s) ==
  /\ manual[s] = "running" /\ tick.job # s
  /\ manual' = [manual EXCEPT ![s] = "queued"]
  /\ UNCHANGED <<active, due, topicDue, runs, tick, orphans, doc, fetch, served>>

----------------------------------------------------------------------------
(* One search: the provider call and the transaction that records it. *)

Plan(s) == {q \in Queries : SourceOf[q] = s /\ TopicOf[q] \in topicDue \cup {None}}

\* Mutant: a manual run counts in the daily quota.
Persist_Counted_Mutant(q, found, trigger) ==
  LET s == SourceOf[q]
  IN /\ due' = due \ {s}
     /\ runs' = [runs EXCEPT ![s] = @ + 1]
     /\ topicDue' = topicDue \ {TopicOf[q]}
     /\ doc' = [d \in Docs |-> IF d \in found /\ doc[d] = "absent" THEN "pending" ELSE doc[d]]

\* Mutant: the run is recorded for the provider's own source.
Persist_Elsewhere_Mutant(q, found, trigger) ==
  LET s == SourceOf[q]
  IN /\ due' = due
     /\ runs' = [runs EXCEPT ![s] = IF trigger = "schedule" THEN @ + 1 ELSE @]
     /\ topicDue' = topicDue \ {TopicOf[q]}
     /\ doc' = [d \in Docs |-> IF d \in found /\ doc[d] = "absent" THEN "pending" ELSE doc[d]]

\* The run counts for the source that ordered it; its documents are new URLs
\* only; the topic waits for its refresh interval even when nothing was found.
Persist(q, found, trigger) ==
  LET s == SourceOf[q]
  IN /\ due' = due \ {s}
     /\ runs' = [runs EXCEPT ![s] = IF trigger = "schedule" THEN @ + 1 ELSE @]
     /\ topicDue' = topicDue \ {TopicOf[q]}
     /\ doc' = [d \in Docs |-> IF d \in found /\ doc[d] = "absent" THEN "pending" ELSE doc[d]]

----------------------------------------------------------------------------
(* The tick: a manual run first. *)

ClaimManualRun(s) ==
  /\ tick.step = "idle" /\ manual[s] = "queued"
  /\ manual' = [manual EXCEPT ![s] = "running"]
  /\ tick' = [tick EXCEPT !.step = "manual", !.job = s, !.plan = Plan(s)]
  /\ UNCHANGED <<active, due, topicDue, runs, orphans, doc, fetch, served>>

NoManualRun ==
  /\ tick.step = "idle" /\ \A s \in Sources : manual[s] # "queued"
  /\ tick' = [tick EXCEPT !.step = "between", !.pending = Providers]
  /\ UNCHANGED <<config, due, runs, orphans, doc, fetch, served>>

\* Manual searches run concurrently, without quota, paused or not.
ManualSearch(q, found) ==
  /\ tick.step = "manual" /\ q \in tick.plan
  /\ \/ Persist(q, found, "manual")
     \/ UNCHANGED <<due, runs, topicDue, doc>>
  /\ tick' = [tick EXCEPT !.plan = @ \ {q}]
  /\ UNCHANGED <<active, manual, orphans, fetch, served>>

\* The job ends, or its end could not be written and its lease must run out.
EndManual ==
  /\ tick.step = "manual" /\ tick.plan = {}
  /\ tick' = [Idle EXCEPT !.step = "between", !.pending = Providers]
  /\ manual' \in {manual, [manual EXCEPT ![tick.job] = "none"]}
  /\ UNCHANGED <<active, topicDue, due, runs, orphans, doc, fetch, served>>

\* gather passes the first exception on; the other searches keep running.
ManualSearchRaises(q) ==
  /\ tick.step = "manual" /\ q \in tick.plan
  /\ orphans' = orphans \cup (tick.plan \ {q})
  /\ tick' = [tick EXCEPT !.plan = {}]
  /\ UNCHANGED <<config, due, runs, doc, fetch, served>>

OrphanEnds(q, found) ==
  /\ q \in orphans
  /\ orphans' = orphans \ {q}
  /\ \/ Persist(q, found, "manual")
     \/ UNCHANGED <<due, runs, topicDue, doc>>
  /\ UNCHANGED <<active, manual, tick, fetch, served>>

----------------------------------------------------------------------------
(* The scheduled collections. *)

Runnable(s) == s \in active \cap due /\ Plan(s) # {} /\ runs[s] < DailyMax[s]

\* Mutant: what is left is only known for the chosen sources.
LoadSchedules_Mutant(p) ==
  LET chosen == {s \in Sources : ProviderOf[s] = p /\ Runnable(s)}
  IN /\ tick.step = "between" /\ p \in tick.pending
     /\ tick' = [tick EXCEPT
          !.step = "collect", !.pending = @ \ {p},
          !.plan = UNION {Plan(s) : s \in chosen},
          !.left = [s \in chosen |-> DailyMax[s] - runs[s]]]
     /\ UNCHANGED <<config, due, runs, orphans, doc, fetch, served>>

\* The rows of a provider are read once; plan and remaining come from them.
LoadSchedules(p) ==
  LET chosen == {s \in Sources : ProviderOf[s] = p /\ Runnable(s)}
  IN /\ tick.step = "between" /\ p \in tick.pending
     /\ tick' = [tick EXCEPT
          !.step = "collect", !.pending = @ \ {p},
          !.plan = UNION {Plan(s) : s \in chosen},
          !.left = [s \in Sources |-> IF s \in chosen THEN DailyMax[s] - runs[s] ELSE 0]]
     /\ UNCHANGED <<config, due, runs, orphans, doc, fetch, served>>

Spend(q) == tick' = [tick EXCEPT !.plan = @ \ {q}, !.left[SourceOf[q]] = @ - 1]

ScheduledSearch(q, found) ==
  /\ tick.step = "collect" /\ q \in tick.plan /\ tick.left[SourceOf[q]] > 0
  /\ Spend(q)
  /\ \/ /\ Persist(q, found, "schedule")
        /\ served' = [served EXCEPT ![q] = @ + 1]
     \/ UNCHANGED <<due, runs, topicDue, doc, served>>
  /\ UNCHANGED <<active, manual, orphans, fetch>>

SkipSearch(q) ==
  /\ tick.step = "collect" /\ q \in tick.plan /\ tick.left[SourceOf[q]] <= 0
  /\ tick' = [tick EXCEPT !.plan = @ \ {q}]
  /\ UNCHANGED <<config, due, runs, orphans, doc, fetch, served>>

NextStep == IF tick.pending = {} THEN "fetch" ELSE "between"

ProviderDone ==
  /\ tick.step = "collect" /\ tick.plan = {}
  /\ tick' = [Idle EXCEPT !.step = NextStep, !.pending = tick.pending]
  /\ UNCHANGED <<config, due, runs, orphans, doc, fetch, served>>

\* Mutant: the exception ends the tick.
ProviderRaises_Mutant ==
  /\ tick.step = "collect" /\ tick.plan # {}
  /\ tick' = Idle
  /\ UNCHANGED <<config, due, runs, orphans, doc, fetch, served>>

\* What is not a provider error, a lost database connection for one, ends the
\* provider's turn and only that.
ProviderRaises ==
  /\ tick.step = "collect" /\ tick.plan # {}
  /\ tick' = [Idle EXCEPT !.step = NextStep, !.pending = tick.pending]
  /\ UNCHANGED <<config, due, runs, orphans, doc, fetch, served>>

----------------------------------------------------------------------------
(* Reading the bodies. *)

Pending == {d \in Docs : doc[d] = "pending"}
MayFetch(f) == f = Scheduler => tick.step = "fetch"

AfterFetch(f) == IF f = Scheduler THEN Idle ELSE tick

NothingToFetch ==
  /\ tick.step = "fetch" /\ Pending = {} /\ fetch[Scheduler] = NoFetch
  /\ tick' = Idle
  /\ UNCHANGED <<config, due, runs, orphans, doc, fetch, served>>

\* Mutant: the claimed documents are not marked.
ClaimDocuments_Mutant(f, S) ==
  /\ fetch[f].step = "idle" /\ MayFetch(f)
  /\ S # {} /\ S \subseteq Pending /\ Cardinality(S) <= FetchLimit
  /\ S = Pending \/ Cardinality(S) = FetchLimit
  /\ fetch' = [fetch EXCEPT ![f] = [step |-> "download", docs |-> S, bodies |-> {}]]
  /\ UNCHANGED <<config, due, runs, tick, orphans, doc, served>>

ClaimDocuments(f, S) ==
  /\ fetch[f].step = "idle" /\ MayFetch(f)
  /\ S # {} /\ S \subseteq Pending /\ Cardinality(S) <= FetchLimit
  /\ S = Pending \/ Cardinality(S) = FetchLimit
  /\ doc' = [d \in Docs |-> IF d \in S THEN "fetching" ELSE doc[d]]
  /\ fetch' = [fetch EXCEPT ![f] = [step |-> "download", docs |-> S, bodies |-> {}]]
  /\ UNCHANGED <<config, due, runs, tick, orphans, served>>

\* All downloads end, each with a body or with a failure.
Download(f, bodies) ==
  /\ fetch[f].step = "download" /\ bodies \subseteq fetch[f].docs
  /\ fetch' = [fetch EXCEPT ![f].step = "save", ![f].bodies = bodies]
  /\ UNCHANGED <<config, due, runs, tick, orphans, doc, served>>

SaveDocument(f, d) ==
  LET rest == fetch[f].docs \ {d}
  IN /\ fetch[f].step = "save" /\ d \in fetch[f].docs
     /\ doc' = [doc EXCEPT ![d] = IF d \in fetch[f].bodies THEN "fetched" ELSE "failed"]
     /\ fetch' = [fetch EXCEPT ![f] = IF rest = {} THEN NoFetch ELSE [fetch[f] EXCEPT !.docs = rest]]
     /\ tick' = IF rest = {} THEN AfterFetch(f) ELSE tick
     /\ UNCHANGED <<config, due, runs, orphans, served>>

\* A download that raises anything but JinaReadError, or a transaction that
\* fails, ends the batch; the scheduler goes on with the next tick.
FetchRaises(f) ==
  /\ fetch[f].step # "idle"
  /\ fetch' = [fetch EXCEPT ![f] = NoFetch]
  /\ tick' = AfterFetch(f)
  /\ UNCHANGED <<config, due, runs, orphans, doc, served>>

\* Reported failures may be put back by hand.
RetryFailed(d) ==
  /\ doc[d] = "failed"
  /\ doc' = [doc EXCEPT ![d] = "pending"]
  /\ UNCHANGED <<config, due, runs, tick, orphans, fetch, served>>

Crash ==
  /\ tick # Idle \/ orphans # {}
  /\ tick' = Idle
  /\ orphans' = {}
  /\ fetch' = [fetch EXCEPT ![Scheduler] = NoFetch]
  /\ UNCHANGED <<config, due, runs, doc, served>>

----------------------------------------------------------------------------

Search(q) ==
  \E found \in SUBSET Docs : ManualSearch(q, found) \/ ScheduledSearch(q, found)

\* What the scheduler does by itself, failures of a search or a batch aside.
SchedulerStep ==
  \/ \E s \in Sources : ClaimManualRun(s)
  \/ NoManualRun \/ EndManual \/ ProviderDone \/ NothingToFetch
  \/ \E p \in Providers : LoadSchedules(p)
  \/ \E q \in Queries : Search(q) \/ SkipSearch(q)
  \/ \E S \in SUBSET Docs : ClaimDocuments(Scheduler, S) \/ Download(Scheduler, S)
  \/ \E d \in Docs : SaveDocument(Scheduler, d)

WorkerStep(w) ==
  \/ \E S \in SUBSET Docs : ClaimDocuments(w, S) \/ Download(w, S)
  \/ \E d \in Docs : SaveDocument(w, d)

Failure ==
  \/ \E q \in Queries : ManualSearchRaises(q)
  \/ ProviderRaises
  \/ \E f \in Fetchers : FetchRaises(f)
  \/ Crash

Environment ==
  \/ \E s \in Sources : CronFires(s) \/ PauseOrResume(s) \/ RequestManual(s)
                        \/ ManualLeaseExpires(s)
  \/ \E t \in Topics : TopicComesDue(t)
  \/ \E d \in Docs : RetryFailed(d)
  \/ \E q \in orphans, found \in SUBSET Docs : OrphanEnds(q, found)
  \/ DayStarts

Next == SchedulerStep \/ (\E w \in Workers : WorkerStep(w)) \/ Failure \/ Environment

Spec == Init /\ [][Next]_vars

\* The loop of the scheduler takes its next step unless the process dies.
FairSpec == Spec /\ WF_vars(SchedulerStep)

----------------------------------------------------------------------------
(* Properties *)

\* Every variable has its type.
TypeOK ==
  /\ active \subseteq Sources /\ due \subseteq Sources /\ topicDue \subseteq Topics
  /\ runs \in [Sources -> Nat]
  /\ manual \in [Sources -> {"none", "queued", "running"}]
  /\ tick \in [step : TickSteps, job : Sources \cup {None}, pending : SUBSET Providers,
               plan : SUBSET Queries, left : [Sources -> Int]]
  /\ orphans \subseteq Queries
  /\ doc \in [Docs -> {"absent", "pending", "fetching", "fetched", "failed"}]
  /\ fetch \in [Fetchers -> [step : {"idle", "download", "save"},
                             docs : SUBSET Docs, bodies : SUBSET Docs]]
  /\ served \in [Queries -> Nat]

\* The scheduled runs recorded on a day keep to the quota of the source, across
\* stale plans, midnight in the middle of a plan, restarts and manual runs.
ScheduledRunsWithinLimit == \A s \in Sources : runs[s] <= DailyMax[s]

\* Between two cron times the schedule makes a search succeed at most once, so
\* a tick every minute does not repeat it.
SearchedOncePerSlot == \A q \in Queries : served[q] <= 1

\* No two fetchers hold the same document, and a held document is not offered.
FetchIsExclusive ==
  \A f \in Fetchers : \A d \in fetch[f].docs :
    doc[d] = "fetching" /\ \A g \in Fetchers \ {f} : d \notin fetch[g].docs

\* Failing providers, manual runs and raised searches do not keep the tick from
\* its last step: what is pending is claimed, unless the process keeps dying.
PendingIsClaimed ==
  <>[][~Crash]_vars => \A d \in Docs : doc[d] = "pending" ~> doc[d] # "pending"

\* Searches keep to their quota and their cron slots, and fetchers to what they claimed.
CollectionKeepsToPlan ==
  /\ ScheduledRunsWithinLimit
  /\ SearchedOncePerSlot
  /\ FetchIsExclusive
=============================================================================
