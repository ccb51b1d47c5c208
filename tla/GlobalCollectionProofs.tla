------------------------ MODULE GlobalCollectionProofs ------------------------
(***************************************************************************)
(* Proofs about GlobalCollection for any number of sources, providers,     *)
(* searches, documents and fetchers: stale plans, midnight, manual runs    *)
(* and crashes leave the daily quota, the cron slots and the claims of the *)
(* fetchers intact.  And about Intake, the other way in, for any requests, *)
(* URLs, bodies and slots: events hang on live heads and end with their    *)
(* jobs.  And about Interests, which decides what is searched, for any     *)
(* users, processes and topics: targets follow what is subscribed to,      *)
(* within the capacity.  The three share nothing.                          *)
(***************************************************************************)
EXTENDS GlobalCollection, Intake, Interests, SequenceTheorems, FiniteSetTheorems, WellFoundedInduction, TLAPS

ConstantsAreSound == SourcesAreWellFormed /\ LimitsArePositive

\* What is left to a source in the plan of the tick is not more than what its
\* quota leaves now, although the rows were read before other steps.
QuotaIsKept == \A s \in Sources : tick.left[s] >= 0 /\ tick.left[s] + runs[s] <= DailyMax[s]

\* A search still planned, and one whose source is due, has not been served
\* since the source came due.
SlotIsFree(q) ==
  /\ served[q] <= 1
  /\ SourceOf[q] \in due => served[q] = 0
  /\ tick.step = "collect" /\ q \in tick.plan => served[q] = 0

IInv ==
  /\ TypeOK
  /\ QuotaIsKept
  /\ \A q \in Queries : SlotIsFree(q)
  /\ FetchIsExclusive

----------------------------------------------------------------------------
(* Types of the rows, and what a step may leave as it is.                   *)

Ticks == [step : TickSteps, job : Sources \cup {None}, pending : SUBSET Providers,
          plan : SUBSET Queries, left : [Sources -> Int]]
Holdings == [step : {"idle", "download", "save"}, docs : SUBSET Docs, bodies : SUBSET Docs]
Statuses == {"absent", "pending", "fetching", "fetched", "failed"}

LEMMA Fields ==
  ASSUME TypeOK
  PROVE  /\ tick \in Ticks /\ tick.plan \in SUBSET Queries /\ tick.left \in [Sources -> Int]
         /\ tick.pending \in SUBSET Providers
         /\ fetch \in [Fetchers -> Holdings] /\ doc \in [Docs -> Statuses]
BY DEF TypeOK, Ticks, Holdings, Statuses

\* The tick between two rounds.
Between(st, ps) == [Idle EXCEPT !.step = st, !.pending = ps]

LEMMA IdleIsTick == Idle \in Ticks /\ Idle.step = "idle" /\ Idle.plan = {} /\ \A s \in Sources : Idle.left[s] = 0
BY DEF Idle, Ticks, TickSteps

LEMMA BetweenIsTick ==
  ASSUME NEW st \in TickSteps, NEW ps \in SUBSET Providers
  PROVE  Between(st, ps) \in Ticks /\ Between(st, ps).step = st /\ \A s \in Sources : Between(st, ps).left[s] = 0
<1>1. \A x \in Ticks : /\ [x EXCEPT !.step = st, !.pending = ps] \in Ticks
                       /\ [x EXCEPT !.step = st, !.pending = ps].step = st
                       /\ [x EXCEPT !.step = st, !.pending = ps].left = x.left
  BY DEF Ticks
<1> QED
  BY <1>1, IdleIsTick DEF Between

LEMMA NoFetchIsHolding == NoFetch \in Holdings /\ NoFetch.docs = {}
BY DEF NoFetch, Holdings

LEMMA QuotaFrame ==
  ASSUME QuotaIsKept, \A s \in Sources : tick'.left[s] = tick.left[s] /\ runs'[s] = runs[s]
  PROVE  QuotaIsKept'
BY DEF QuotaIsKept

\* What nothing plans is left nothing.
LEMMA QuotaIdle ==
  ASSUME ConstantsAreSound, TypeOK, QuotaIsKept, runs' = runs, \A s \in Sources : tick'.left[s] = 0
  PROVE  QuotaIsKept'
BY DEF QuotaIsKept, ConstantsAreSound, LimitsArePositive, TypeOK

LEMMA SlotFrame ==
  ASSUME \A q \in Queries : SlotIsFree(q), served' = served, due' \subseteq due,
         tick'.step = "collect" => tick.step = "collect" /\ tick'.plan \subseteq tick.plan
  PROVE  \A q \in Queries : SlotIsFree(q)'
BY DEF SlotIsFree

LEMMA FetchFrame ==
  ASSUME FetchIsExclusive, fetch' = fetch, \A d \in Docs : doc[d] = "fetching" => doc'[d] = "fetching", TypeOK
  PROVE  FetchIsExclusive'
BY DEF FetchIsExclusive, TypeOK

\* A fetcher lets documents go, and their status with them.
LEMMA FetchLess ==
  ASSUME TypeOK, FetchIsExclusive, NEW f \in Fetchers, NEW h \in Holdings, fetch' = [fetch EXCEPT ![f] = h],
         h.docs \subseteq fetch[f].docs,
         \A d \in Docs : doc[d] = "fetching" /\ d \notin fetch[f].docs \ h.docs => doc'[d] = "fetching"
  PROVE  FetchIsExclusive'
<1>1. \A g \in Fetchers : fetch'[g].docs \subseteq fetch[g].docs /\ (g # f => fetch'[g] = fetch[g]) /\ fetch'[f] = h
  BY DEF TypeOK
<1>2. \A g \in Fetchers : fetch[g].docs \subseteq Docs
  BY DEF TypeOK
<1> QED
  BY <1>1, <1>2 DEF FetchIsExclusive

LEMMA PersistFacts ==
  ASSUME ConstantsAreSound, TypeOK, NEW q \in Queries, NEW found \in SUBSET Docs,
         NEW trigger \in {"manual", "schedule"}, Persist(q, found, trigger)
  PROVE  /\ SourceOf[q] \in Sources
         /\ due' = due \ {SourceOf[q]} /\ topicDue' \in SUBSET Topics
         /\ runs' \in [Sources -> Nat]
         /\ \A s \in Sources : runs'[s] = IF s = SourceOf[q] /\ trigger = "schedule" THEN runs[s] + 1 ELSE runs[s]
         /\ doc' \in [Docs -> Statuses]
         /\ \A d \in Docs : doc[d] = "fetching" => doc'[d] = "fetching"
<1>1. SourceOf[q] \in Sources
  BY DEF ConstantsAreSound, SourcesAreWellFormed
<1>2. due' = due \ {SourceOf[q]} /\ topicDue' \in SUBSET Topics
  BY DEF Persist, TypeOK
<1>3. /\ runs' \in [Sources -> Nat]
      /\ \A s \in Sources : runs'[s] = IF s = SourceOf[q] /\ trigger = "schedule" THEN runs[s] + 1 ELSE runs[s]
  BY <1>1 DEF Persist, TypeOK
<1>4. /\ doc' \in [Docs -> Statuses]
      /\ \A d \in Docs : doc[d] = "fetching" => doc'[d] = "fetching"
  BY DEF Persist, TypeOK, Statuses
<1> QED
  BY <1>1, <1>2, <1>3, <1>4

LEMMA InitInv == ASSUME ConstantsAreSound, Init PROVE IInv
<1>1. TypeOK
  <2>1. tick \in Ticks /\ \A f \in Fetchers : fetch[f] \in Holdings
    BY IdleIsTick, NoFetchIsHolding DEF Init, TickSteps
  <2> QED
    BY <2>1 DEF Init, TypeOK, Ticks, Holdings
<1>2. QuotaIsKept
  BY DEF Init, QuotaIsKept, Idle, ConstantsAreSound, LimitsArePositive
<1>3. \A q \in Queries : SlotIsFree(q)
  BY DEF Init, SlotIsFree, Idle
<1>4. FetchIsExclusive
  BY DEF Init, FetchIsExclusive, NoFetch
<1> QED
  BY <1>1, <1>2, <1>3, <1>4 DEF IInv

----------------------------------------------------------------------------
(* One lemma per action: the clock and the administrator.                   *)

LEMMA CronKeeps == ASSUME ConstantsAreSound, IInv, NEW s \in Sources, CronFires(s) PROVE IInv'
<1>1. served' \in [Queries -> Nat] /\ \A q \in Queries : served'[q] = IF SourceOf[q] = s THEN 0 ELSE served[q]
  BY DEF CronFires, IInv, TypeOK
<1>2. due' = due \cup {s} /\ runs' = runs /\ tick' = tick /\ doc' = doc /\ fetch' = fetch
  BY DEF CronFires
<1>3. TypeOK'
  BY <1>1, <1>2 DEF CronFires, config, IInv, TypeOK
<1>4. QuotaIsKept'
  BY <1>2 DEF IInv, QuotaIsKept
<1>5. \A q \in Queries : SlotIsFree(q)'
  BY <1>1, <1>2 DEF IInv, SlotIsFree
<1>6. FetchIsExclusive'
  BY <1>2 DEF IInv, FetchIsExclusive
<1> QED
  BY <1>3, <1>4, <1>5, <1>6 DEF IInv

\* At midnight more is left, not less.
LEMMA DayKeeps == ASSUME ConstantsAreSound, IInv, DayStarts PROVE IInv'
<1>1. runs' \in [Sources -> Nat] /\ \A s \in Sources : runs'[s] = 0
  BY DEF DayStarts
<1>2. due' = due /\ served' = served /\ tick' = tick /\ doc' = doc /\ fetch' = fetch
  BY DEF DayStarts
<1>3. TypeOK'
  BY <1>1, <1>2 DEF DayStarts, config, IInv, TypeOK
<1>4. QuotaIsKept'
  <2> SUFFICES ASSUME NEW s \in Sources PROVE tick.left[s] >= 0 /\ tick.left[s] + 0 <= DailyMax[s]
    BY <1>1, <1>2 DEF QuotaIsKept
  <2>1. tick.left[s] \in Int /\ runs[s] \in Nat /\ DailyMax[s] \in Nat
    BY Fields DEF IInv, TypeOK, ConstantsAreSound, LimitsArePositive
  <2> QED
    BY <2>1 DEF IInv, QuotaIsKept
<1>5. \A q \in Queries : SlotIsFree(q)'
  BY <1>2, SlotFrame DEF IInv
<1>6. FetchIsExclusive'
  BY <1>2 DEF IInv, FetchIsExclusive
<1> QED
  BY <1>3, <1>4, <1>5, <1>6 DEF IInv

\* Steps that touch neither the tick, nor what is due, nor a run, nor a document.
LEMMA OtherRowsKeep ==
  ASSUME IInv, TypeOK', due' = due, runs' = runs, tick' = tick, doc' = doc, fetch' = fetch, served' = served
  PROVE  IInv'
<1>1. QuotaIsKept'
  BY DEF IInv, QuotaIsKept
<1>2. \A q \in Queries : SlotIsFree(q)'
  BY SlotFrame DEF IInv
<1>3. FetchIsExclusive'
  BY DEF IInv, FetchIsExclusive
<1> QED
  BY <1>1, <1>2, <1>3 DEF IInv

LEMMA AdministratorKeeps ==
  ASSUME IInv, NEW s \in Sources, PauseOrResume(s) \/ RequestManual(s) \/ ManualLeaseExpires(s)
  PROVE  IInv'
<1>1. /\ due' = due /\ runs' = runs /\ tick' = tick /\ doc' = doc /\ fetch' = fetch /\ served' = served
      /\ topicDue' = topicDue /\ orphans' = orphans
  BY DEF PauseOrResume, RequestManual, ManualLeaseExpires
<1>2. active' \subseteq Sources
  BY DEF PauseOrResume, RequestManual, ManualLeaseExpires, IInv, TypeOK
<1>3. manual' \in [Sources -> {"none", "queued", "running"}]
  BY DEF PauseOrResume, RequestManual, ManualLeaseExpires, IInv, TypeOK
<1>4. TypeOK'
  BY <1>1, <1>2, <1>3 DEF IInv, TypeOK
<1> QED
  BY <1>1, <1>4, OtherRowsKeep

LEMMA TopicKeeps == ASSUME IInv, NEW t \in Topics, TopicComesDue(t) PROVE IInv'
<1>1. TypeOK'
  BY DEF TopicComesDue, IInv, TypeOK
<1> QED
  BY <1>1, OtherRowsKeep DEF TopicComesDue

LEMMA OrphanKeeps ==
  ASSUME ConstantsAreSound, IInv, NEW q \in orphans, NEW found \in SUBSET Docs, OrphanEnds(q, found)
  PROVE  IInv'
<1>1. q \in Queries /\ orphans' \subseteq Queries
  BY DEF IInv, TypeOK, OrphanEnds
<1>2. /\ active' = active /\ manual' = manual /\ tick' = tick /\ fetch' = fetch /\ served' = served
  BY DEF OrphanEnds
<1>3. CASE Persist(q, found, "manual")
  <2>1. /\ due' \subseteq due /\ topicDue' \in SUBSET Topics /\ runs' \in [Sources -> Nat]
        /\ \A s \in Sources : runs'[s] = runs[s]
        /\ doc' \in [Docs -> Statuses]
        /\ \A d \in Docs : doc[d] = "fetching" => doc'[d] = "fetching"
    BY <1>1, <1>3, PersistFacts DEF IInv
  <2>2. TypeOK'
    BY <1>1, <1>2, <2>1 DEF IInv, TypeOK, Statuses
  <2>3. QuotaIsKept'
    BY <1>2, <2>1, QuotaFrame DEF IInv
  <2>4. \A x \in Queries : SlotIsFree(x)'
    BY <1>2, <2>1, SlotFrame DEF IInv
  <2>5. FetchIsExclusive'
    BY <1>2, <2>1, FetchFrame DEF IInv
  <2> QED
    BY <2>2, <2>3, <2>4, <2>5 DEF IInv
<1>4. CASE UNCHANGED <<due, runs, topicDue, doc>>
  <2>1. TypeOK'
    BY <1>1, <1>2, <1>4 DEF IInv, TypeOK
  <2> QED
    BY <1>2, <1>4, <2>1, OtherRowsKeep
<1> QED
  BY <1>3, <1>4 DEF OrphanEnds

----------------------------------------------------------------------------
(* The tick.                                                                *)

\* Steps of the tick that run no search: the plan is dropped or made anew.
LEMMA TickKeeps ==
  ASSUME ConstantsAreSound, IInv, NEW t \in Ticks, tick' = t,
         due' = due, runs' = runs, doc' = doc, fetch' = fetch, served' = served,
         active' = active, topicDue' = topicDue, orphans' \subseteq Queries,
         manual' \in [Sources -> {"none", "queued", "running"}],
         \A s \in Sources : t.left[s] = 0 \/ t.left[s] = tick.left[s],
         t.step = "collect" => tick.step = "collect" /\ t.plan \subseteq tick.plan
  PROVE  IInv'
<1>1. TypeOK'
  BY DEF IInv, TypeOK, Ticks
<1>2. QuotaIsKept'
  BY DEF IInv, QuotaIsKept, TypeOK, ConstantsAreSound, LimitsArePositive
<1>3. \A q \in Queries : SlotIsFree(q)'
  BY SlotFrame DEF IInv
<1>4. FetchIsExclusive'
  BY DEF IInv, FetchIsExclusive
<1> QED
  BY <1>1, <1>2, <1>3, <1>4 DEF IInv

LEMMA ClaimManualKeeps == ASSUME ConstantsAreSound, IInv, NEW s \in Sources, ClaimManualRun(s) PROVE IInv'
<1> DEFINE t == [tick EXCEPT !.step = "manual", !.job = s, !.plan = Plan(s)]
<1>1. Plan(s) \in SUBSET Queries /\ tick \in Ticks
  BY Fields DEF Plan, IInv
<1>2. t \in Ticks /\ t.step = "manual" /\ t.left = tick.left
  BY <1>1 DEF Ticks, TickSteps
<1>3. tick' = t /\ manual' \in [Sources -> {"none", "queued", "running"}]
  BY DEF ClaimManualRun, IInv, TypeOK
<1> HIDE DEF t
<1>4. orphans' \subseteq Queries
  BY DEF ClaimManualRun, IInv, TypeOK
<1> QED
  BY <1>2, <1>3, <1>4, TickKeeps DEF ClaimManualRun

LEMMA NoManualKeeps == ASSUME ConstantsAreSound, IInv, NoManualRun PROVE IInv'
<1> DEFINE t == [tick EXCEPT !.step = "between", !.pending = Providers]
<1>1. t \in Ticks /\ t.step = "between" /\ t.left = tick.left
  BY Fields DEF Ticks, TickSteps, IInv
<1>2. tick' = t
  BY DEF NoManualRun
<1> HIDE DEF t
<1>3. orphans' \subseteq Queries /\ manual' \in [Sources -> {"none", "queued", "running"}]
  BY DEF NoManualRun, IInv, TypeOK, config
<1> QED
  BY <1>1, <1>2, <1>3, TickKeeps DEF NoManualRun, config

LEMMA ManualSearchKeeps ==
  ASSUME ConstantsAreSound, IInv, NEW q \in Queries, NEW found \in SUBSET Docs, ManualSearch(q, found)
  PROVE  IInv'
<1> DEFINE t == [tick EXCEPT !.plan = tick.plan \ {q}]
<1>1. t \in Ticks /\ t.step = tick.step /\ t.left = tick.left
  BY Fields DEF Ticks, IInv
<1>2. tick' = t /\ tick.step = "manual"
  BY DEF ManualSearch
<1> HIDE DEF t
<1>3. active' = active /\ manual' = manual /\ orphans' = orphans /\ fetch' = fetch /\ served' = served
  BY DEF ManualSearch
<1>4. CASE Persist(q, found, "manual")
  <2>1. /\ due' \subseteq due /\ topicDue' \in SUBSET Topics /\ runs' \in [Sources -> Nat]
        /\ \A s \in Sources : runs'[s] = runs[s]
        /\ doc' \in [Docs -> Statuses]
        /\ \A d \in Docs : doc[d] = "fetching" => doc'[d] = "fetching"
    BY <1>4, PersistFacts DEF IInv
  <2>2. TypeOK'
    BY <1>1, <1>2, <1>3, <2>1 DEF IInv, TypeOK, Statuses, Ticks
  <2>3. QuotaIsKept'
    BY <1>1, <1>2, <2>1, QuotaFrame DEF IInv
  <2>4. \A x \in Queries : SlotIsFree(x)'
    BY <1>1, <1>2, <1>3, <2>1, SlotFrame DEF IInv
  <2>5. FetchIsExclusive'
    BY <1>3, <2>1, FetchFrame DEF IInv
  <2> QED
    BY <2>2, <2>3, <2>4, <2>5 DEF IInv
<1>5. CASE UNCHANGED <<due, runs, topicDue, doc>>
  <2>1. orphans' \subseteq Queries /\ manual' \in [Sources -> {"none", "queued", "running"}]
    BY <1>3 DEF IInv, TypeOK
  <2> QED
    BY <1>1, <1>2, <1>3, <1>5, <2>1, TickKeeps
<1> QED
  BY <1>4, <1>5 DEF ManualSearch

LEMMA ManualRaisesKeeps ==
  ASSUME ConstantsAreSound, IInv, NEW q \in Queries, ManualSearchRaises(q)
  PROVE  IInv'
<1> DEFINE t == [tick EXCEPT !.plan = {}]
<1>1. t \in Ticks /\ t.step = tick.step /\ t.left = tick.left
  BY Fields DEF Ticks, IInv
<1>2. tick' = t /\ tick.step = "manual"
  BY DEF ManualSearchRaises
<1> HIDE DEF t
<1>3. orphans' \subseteq Queries /\ manual' \in [Sources -> {"none", "queued", "running"}]
  BY Fields DEF ManualSearchRaises, IInv, TypeOK, config
<1> QED
  BY <1>1, <1>2, <1>3, TickKeeps DEF ManualSearchRaises, config

LEMMA EndManualKeeps == ASSUME ConstantsAreSound, IInv, EndManual PROVE IInv'
<1> DEFINE t == Between("between", Providers)
<1>1. "between" \in TickSteps /\ Providers \in SUBSET Providers
  BY DEF TickSteps
<1>2. tick' = t
  BY DEF EndManual, Between
<1>4. t \in Ticks /\ t.step = "between" /\ \A s \in Sources : t.left[s] = 0
  BY <1>1, BetweenIsTick
<1> HIDE DEF t
<1>3. orphans' \subseteq Queries /\ manual' \in [Sources -> {"none", "queued", "running"}]
  BY DEF EndManual, IInv, TypeOK
<1> QED
  BY <1>1, <1>2, <1>3, <1>4, TickKeeps DEF EndManual

\* A provider's turn ends, with or without an exception.
LEMMA ProviderEndKeeps == ASSUME ConstantsAreSound, IInv, ProviderDone \/ ProviderRaises PROVE IInv'
<1> DEFINE t == Between(NextStep, tick.pending)
<1>1. NextStep \in {"fetch", "between"} /\ tick.pending \in SUBSET Providers
  BY Fields DEF NextStep, IInv
<1>2. t \in Ticks /\ t.step # "collect" /\ \A s \in Sources : t.left[s] = 0
  <2>1. NextStep \in TickSteps
    BY <1>1 DEF TickSteps
  <2>2. t \in Ticks /\ t.step = NextStep /\ \A s \in Sources : t.left[s] = 0
    BY <1>1, <2>1, BetweenIsTick
  <2> HIDE DEF t
  <2> QED
    BY <1>1, <2>2
<1>3. tick' = t
  BY DEF ProviderDone, ProviderRaises, Between
<1> HIDE DEF t
<1>4. orphans' \subseteq Queries /\ manual' \in [Sources -> {"none", "queued", "running"}]
  BY DEF ProviderDone, ProviderRaises, IInv, TypeOK, config
<1> QED
  BY <1>2, <1>3, <1>4, TickKeeps DEF ProviderDone, ProviderRaises, config

LEMMA SkipKeeps == ASSUME ConstantsAreSound, IInv, NEW q \in Queries, SkipSearch(q) PROVE IInv'
<1> DEFINE t == [tick EXCEPT !.plan = tick.plan \ {q}]
<1>1. t \in Ticks /\ t.step = tick.step /\ t.left = tick.left /\ t.plan \subseteq tick.plan
  BY Fields DEF Ticks, IInv
<1>2. tick' = t
  BY DEF SkipSearch
<1> HIDE DEF t
<1>3. orphans' \subseteq Queries /\ manual' \in [Sources -> {"none", "queued", "running"}]
  BY DEF SkipSearch, IInv, TypeOK, config
<1> QED
  BY <1>1, <1>2, <1>3, TickKeeps DEF SkipSearch, config

LEMMA NothingKeeps == ASSUME ConstantsAreSound, IInv, NothingToFetch PROVE IInv'
<1>1. Idle \in Ticks /\ Idle.step = "idle" /\ \A s \in Sources : Idle.left[s] = 0
  BY IdleIsTick DEF TickSteps
<1>2. orphans' \subseteq Queries /\ manual' \in [Sources -> {"none", "queued", "running"}]
  BY DEF NothingToFetch, IInv, TypeOK, config
<1> QED
  BY <1>1, <1>2, TickKeeps DEF NothingToFetch, config

\* The plan of a provider: what its due sources have left, and searches that
\* were not served since.
LEMMA LoadKeeps == ASSUME ConstantsAreSound, IInv, NEW p \in Providers, LoadSchedules(p) PROVE IInv'
<1> DEFINE chosen == {s \in Sources : ProviderOf[s] = p /\ Runnable(s)}
           plan == UNION {Plan(s) : s \in chosen}
           left == [s \in Sources |-> IF s \in chosen THEN DailyMax[s] - runs[s] ELSE 0]
           t == [tick EXCEPT !.step = "collect", !.pending = tick.pending \ {p}, !.plan = plan, !.left = left]
<1>1. tick' = t
  BY DEF LoadSchedules
<1>2. \A s \in chosen : s \in Sources /\ s \in due /\ runs[s] < DailyMax[s]
  BY DEF Runnable
<1>3. \A s \in Sources : runs[s] \in Nat /\ DailyMax[s] \in Nat /\ runs[s] <= DailyMax[s]
  <2> SUFFICES ASSUME NEW s \in Sources PROVE runs[s] \in Nat /\ DailyMax[s] \in Nat /\ runs[s] <= DailyMax[s]
    OBVIOUS
  <2>1. runs[s] \in Nat /\ DailyMax[s] \in Nat /\ tick.left[s] \in Int
    BY Fields DEF IInv, TypeOK, ConstantsAreSound, LimitsArePositive
  <2> QED
    BY <2>1 DEF IInv, QuotaIsKept
<1>4. \A q \in plan : q \in Queries /\ SourceOf[q] \in due
  BY <1>2 DEF Plan
<1>5. left \in [Sources -> Int] /\ \A s \in Sources : left[s] >= 0 /\ left[s] + runs[s] <= DailyMax[s]
  BY <1>3
<1> HIDE DEF plan, left
<1>6. t \in Ticks /\ t.plan = plan /\ t.left = left
  BY <1>4, <1>5, Fields DEF Ticks, TickSteps, IInv
<1> HIDE DEF t
<1>7. /\ due' = due /\ runs' = runs /\ doc' = doc /\ fetch' = fetch /\ served' = served
      /\ active' = active /\ topicDue' = topicDue /\ orphans' = orphans /\ manual' = manual
  BY DEF LoadSchedules, config
<1>8. TypeOK'
  BY <1>1, <1>6, <1>7 DEF IInv, TypeOK, Ticks
<1>9. QuotaIsKept'
  BY <1>1, <1>5, <1>6, <1>7 DEF QuotaIsKept
<1>10. \A q \in Queries : SlotIsFree(q)'
  BY <1>1, <1>4, <1>6, <1>7 DEF IInv, SlotIsFree
<1>11. FetchIsExclusive'
  BY <1>7 DEF IInv, FetchIsExclusive
<1> QED
  BY <1>8, <1>9, <1>10, <1>11 DEF IInv

\* A search takes one of the runs left, whether it succeeds or not.
LEMMA ScheduledKeeps ==
  ASSUME ConstantsAreSound, IInv, NEW q \in Queries, NEW found \in SUBSET Docs, ScheduledSearch(q, found)
  PROVE  IInv'
<1> DEFINE s == SourceOf[q]
           left == [tick.left EXCEPT ![s] = tick.left[s] - 1]
           t == [tick EXCEPT !.plan = tick.plan \ {q}, !.left = left]
<1>1. s \in Sources /\ tick.step = "collect" /\ q \in tick.plan /\ tick.left[s] > 0
  BY DEF ScheduledSearch, ConstantsAreSound, SourcesAreWellFormed
<1>2. tick' = t
  BY DEF ScheduledSearch, Spend
<1>3. \A x \in Sources : tick.left[x] \in Int /\ runs[x] \in Nat /\ DailyMax[x] \in Nat
  BY Fields DEF IInv, TypeOK, ConstantsAreSound, LimitsArePositive
<1>4. /\ left \in [Sources -> Int]
      /\ \A x \in Sources : left[x] = IF x = s THEN tick.left[x] - 1 ELSE tick.left[x]
  BY <1>1, Fields DEF IInv
<1> HIDE DEF left
<1>5. t \in Ticks /\ t.step = tick.step /\ t.plan = tick.plan \ {q} /\ t.left = left
  BY <1>4, Fields DEF Ticks, IInv
<1> HIDE DEF t, s
<1>6. active' = active /\ manual' = manual /\ orphans' = orphans /\ fetch' = fetch
  BY DEF ScheduledSearch
<1>7. CASE Persist(q, found, "schedule") /\ served' = [served EXCEPT ![q] = @ + 1]
  <2>1. /\ due' = due \ {s} /\ topicDue' \in SUBSET Topics /\ runs' \in [Sources -> Nat]
        /\ \A x \in Sources : runs'[x] = IF x = s THEN runs[x] + 1 ELSE runs[x]
        /\ doc' \in [Docs -> Statuses]
        /\ \A d \in Docs : doc[d] = "fetching" => doc'[d] = "fetching"
    BY <1>7, PersistFacts DEF IInv, s
  <2>2. /\ served' \in [Queries -> Nat] /\ served'[q] = served[q] + 1
        /\ \A x \in Queries : x # q => served'[x] = served[x]
    BY <1>7 DEF IInv, TypeOK
  <2>3. TypeOK'
    BY <1>2, <1>5, <1>6, <2>1, <2>2 DEF IInv, TypeOK, Statuses, Ticks
  <2>4. QuotaIsKept'
    BY <1>1, <1>2, <1>3, <1>4, <1>5, <2>1 DEF IInv, QuotaIsKept
  <2>5. \A x \in Queries : SlotIsFree(x)'
    <3>1. served[q] = 0
      BY <1>1 DEF IInv, SlotIsFree
    <3>2. SlotIsFree(q)'
      BY <3>1, <1>2, <1>5, <2>1, <2>2 DEF SlotIsFree, s
    <3>3. ASSUME NEW x \in Queries, x # q PROVE SlotIsFree(x)'
      BY <3>3, <1>2, <1>5, <2>1, <2>2 DEF IInv, SlotIsFree
    <3> QED
      BY <3>2, <3>3
  <2>6. FetchIsExclusive'
    BY <1>6, <2>1, FetchFrame DEF IInv
  <2> QED
    BY <2>3, <2>4, <2>5, <2>6 DEF IInv
<1>8. CASE UNCHANGED <<due, runs, topicDue, doc, served>>
  <2>1. TypeOK'
    BY <1>2, <1>5, <1>6, <1>8 DEF IInv, TypeOK, Ticks
  <2>2. QuotaIsKept'
    BY <1>1, <1>2, <1>3, <1>4, <1>5, <1>8 DEF IInv, QuotaIsKept
  <2>3. \A x \in Queries : SlotIsFree(x)'
    BY <1>2, <1>5, <1>8, SlotFrame DEF IInv
  <2>4. FetchIsExclusive'
    BY <1>6, <1>8 DEF IInv, FetchIsExclusive
  <2> QED
    BY <2>1, <2>2, <2>3, <2>4 DEF IInv
<1> QED
  BY <1>7, <1>8 DEF ScheduledSearch

----------------------------------------------------------------------------
(* Reading the bodies, and the end of the process.                          *)

\* A fetcher's step may end the tick.
LEMMA TickMayEnd ==
  ASSUME ConstantsAreSound, IInv, tick' = tick \/ tick' = Idle, due' = due, runs' = runs, served' = served
  PROVE  /\ tick' \in Ticks /\ QuotaIsKept' /\ \A q \in Queries : SlotIsFree(q)'
<1>1. CASE tick' = tick
  <2>1. tick' \in Ticks
    BY <1>1, Fields DEF IInv
  <2>2. QuotaIsKept'
    BY <1>1 DEF IInv, QuotaIsKept
  <2>3. \A q \in Queries : SlotIsFree(q)'
    BY <1>1, SlotFrame DEF IInv
  <2> QED
    BY <2>1, <2>2, <2>3
<1>2. CASE tick' = Idle
  <2>1. tick' \in Ticks /\ tick'.step = "idle" /\ \A s \in Sources : tick'.left[s] = 0
    BY <1>2, IdleIsTick DEF TickSteps
  <2>2. QuotaIsKept'
    BY <2>1, QuotaIdle DEF IInv
  <2>3. \A q \in Queries : SlotIsFree(q)'
    BY <2>1, SlotFrame DEF IInv
  <2> QED
    BY <2>1, <2>2, <2>3
<1> QED
  BY <1>1, <1>2

\* Only what is pending is claimed, so nobody holds it.
LEMMA ClaimKeeps ==
  ASSUME ConstantsAreSound, IInv, NEW f \in Fetchers, NEW S \in SUBSET Docs, ClaimDocuments(f, S)
  PROVE  IInv'
<1> DEFINE h == [step |-> "download", docs |-> S, bodies |-> {}]
<1>1. h \in Holdings /\ h.docs = S
  BY DEF Holdings
<1>2. /\ S \subseteq Pending /\ fetch' = [fetch EXCEPT ![f] = h]
      /\ due' = due /\ runs' = runs /\ tick' = tick /\ served' = served /\ orphans' = orphans
      /\ active' = active /\ topicDue' = topicDue /\ manual' = manual
  BY DEF ClaimDocuments, config
<1>3. doc' \in [Docs -> Statuses] /\ \A d \in Docs : doc'[d] = IF d \in S THEN "fetching" ELSE doc[d]
  BY Fields DEF ClaimDocuments, Statuses, IInv
<1> HIDE DEF h
<1>4. /\ fetch' \in [Fetchers -> Holdings] /\ fetch'[f] = h
      /\ \A g \in Fetchers : g # f => fetch'[g] = fetch[g]
  BY <1>1, <1>2, Fields DEF IInv
<1>5. TypeOK'
  BY <1>2, <1>3, <1>4 DEF IInv, TypeOK, Statuses, Holdings
<1>6. \A d \in S : d \in Docs /\ \A g \in Fetchers : d \notin fetch[g].docs
  BY <1>2 DEF Pending, IInv, FetchIsExclusive
<1>7. \A g \in Fetchers : \A d \in fetch[g].docs : d \in Docs
  BY Fields DEF IInv, Holdings
<1>8. FetchIsExclusive'
  BY <1>1, <1>3, <1>4, <1>6, <1>7 DEF IInv, FetchIsExclusive
<1>9. QuotaIsKept' /\ \A q \in Queries : SlotIsFree(q)'
  BY <1>2, TickMayEnd
<1> QED
  BY <1>5, <1>8, <1>9 DEF IInv

\* A fetcher goes on with what it holds, or drops it.
LEMMA HoldsLess ==
  ASSUME ConstantsAreSound, IInv, NEW f \in Fetchers, NEW h \in Holdings, fetch' = [fetch EXCEPT ![f] = h],
         h.docs \subseteq fetch[f].docs, tick' = tick \/ tick' = Idle, UNCHANGED <<config, due, runs, served>>,
         orphans' \subseteq Queries, doc' \in [Docs -> Statuses],
         \A d \in Docs : doc[d] = "fetching" /\ d \notin fetch[f].docs \ h.docs => doc'[d] = "fetching"
  PROVE  IInv'
<1>1. /\ due' = due /\ runs' = runs /\ served' = served
      /\ active' = active /\ topicDue' = topicDue /\ manual' = manual
  BY DEF config
<1>2. tick' \in Ticks /\ QuotaIsKept' /\ \A q \in Queries : SlotIsFree(q)'
  BY <1>1, TickMayEnd
<1>3. fetch' \in [Fetchers -> Holdings]
  BY Fields DEF IInv
<1>4. TypeOK'
  BY <1>1, <1>2, <1>3 DEF IInv, TypeOK, Statuses, Holdings, Ticks
<1>5. FetchIsExclusive'
  BY FetchLess DEF IInv
<1> QED
  BY <1>2, <1>4, <1>5 DEF IInv

LEMMA DownloadKeeps ==
  ASSUME ConstantsAreSound, IInv, NEW f \in Fetchers, NEW bodies \in SUBSET Docs, Download(f, bodies)
  PROVE  IInv'
<1> DEFINE h == [fetch[f] EXCEPT !.step = "save", !.bodies = bodies]
<1>1. h \in Holdings /\ h.docs = fetch[f].docs
  BY Fields DEF Holdings, IInv
<1>2. fetch' = [fetch EXCEPT ![f] = h]
  BY Fields DEF Download, IInv
<1> HIDE DEF h
<1>3. doc' = doc /\ doc \in [Docs -> Statuses] /\ orphans' \subseteq Queries /\ tick' = tick
  BY Fields DEF Download, IInv, TypeOK
<1>4. UNCHANGED <<config, due, runs, served>>
  BY DEF Download
<1> QED
  BY <1>1, <1>2, <1>3, <1>4, HoldsLess

LEMMA SaveKeeps ==
  ASSUME ConstantsAreSound, IInv, NEW f \in Fetchers, NEW d \in Docs, SaveDocument(f, d)
  PROVE  IInv'
<1> DEFINE rest == fetch[f].docs \ {d}
           h == IF rest = {} THEN NoFetch ELSE [fetch[f] EXCEPT !.docs = rest]
<1>1. fetch[f] \in Holdings /\ fetch[f].docs \in SUBSET Docs
  BY Fields DEF IInv, Holdings
<1>2. h \in Holdings /\ h.docs = rest
  <2>1. CASE rest = {}
    BY <2>1, NoFetchIsHolding
  <2>2. CASE rest # {}
    <3>1. \A x \in Holdings, S \in SUBSET Docs : [x EXCEPT !.docs = S] \in Holdings /\ [x EXCEPT !.docs = S].docs = S
      BY DEF Holdings
    <3> QED
      BY <1>1, <2>2, <3>1
  <2> QED
    BY <2>1, <2>2
<1>3. fetch' = [fetch EXCEPT ![f] = h] /\ (tick' = tick \/ tick' = Idle) /\ UNCHANGED <<config, due, runs, served>>
  BY DEF SaveDocument, AfterFetch
<1>4. doc' \in [Docs -> Statuses] /\ \A e \in Docs : e # d => doc'[e] = doc[e]
  BY Fields DEF SaveDocument, IInv, Statuses
<1>5. d \in fetch[f].docs /\ orphans' \subseteq Queries
  BY DEF SaveDocument, IInv, TypeOK
<1>6. rest \subseteq fetch[f].docs /\ fetch[f].docs \ rest = {d}
  BY <1>5
<1> HIDE DEF h, rest
<1> QED
  BY <1>2, <1>3, <1>4, <1>5, <1>6, HoldsLess

LEMMA FetchRaisesKeeps ==
  ASSUME ConstantsAreSound, IInv, NEW f \in Fetchers, FetchRaises(f)
  PROVE  IInv'
<1>1. fetch' = [fetch EXCEPT ![f] = NoFetch] /\ (tick' = tick \/ tick' = Idle) /\ UNCHANGED <<config, due, runs, served>>
  BY DEF FetchRaises, AfterFetch
<1>2. doc' = doc /\ doc \in [Docs -> Statuses] /\ orphans' \subseteq Queries
  BY Fields DEF FetchRaises, IInv, TypeOK
<1> QED
  BY <1>1, <1>2, NoFetchIsHolding, HoldsLess

LEMMA RetryKeeps ==
  ASSUME ConstantsAreSound, IInv, NEW d \in Docs, RetryFailed(d)
  PROVE  IInv'
<1>1. doc' \in [Docs -> Statuses] /\ \A e \in Docs : doc[e] = "fetching" => doc'[e] = "fetching"
  BY Fields DEF RetryFailed, IInv, Statuses
<1>2. /\ due' = due /\ runs' = runs /\ tick' = tick /\ served' = served /\ orphans' = orphans /\ fetch' = fetch
      /\ active' = active /\ topicDue' = topicDue /\ manual' = manual
  BY DEF RetryFailed, config
<1>3. TypeOK'
  BY <1>1, <1>2 DEF IInv, TypeOK, Statuses
<1>4. FetchIsExclusive'
  BY <1>1, <1>2, FetchFrame DEF IInv
<1>5. QuotaIsKept' /\ \A q \in Queries : SlotIsFree(q)'
  BY <1>2, TickMayEnd
<1> QED
  BY <1>3, <1>4, <1>5 DEF IInv

LEMMA CrashKeeps == ASSUME ConstantsAreSound, IInv, Crash PROVE IInv'
<1>1. Scheduler \in Fetchers
  BY DEF Fetchers
<1>2. fetch' = [fetch EXCEPT ![Scheduler] = NoFetch] /\ tick' = Idle /\ UNCHANGED <<config, due, runs, served>>
  BY DEF Crash
<1>3. doc' = doc /\ doc \in [Docs -> Statuses] /\ orphans' \subseteq Queries
  BY Fields DEF Crash, IInv
<1> QED
  BY <1>1, <1>2, <1>3, NoFetchIsHolding, HoldsLess

LEMMA NextInv == ASSUME ConstantsAreSound, IInv, [Next]_vars PROVE IInv'
<1>1. CASE UNCHANGED vars
  <2>1. /\ due' = due /\ runs' = runs /\ tick' = tick /\ doc' = doc /\ fetch' = fetch /\ served' = served
        /\ active' = active /\ topicDue' = topicDue /\ manual' = manual /\ orphans' = orphans
    BY <1>1 DEF vars
  <2>2. TypeOK'
    BY <2>1 DEF IInv, TypeOK
  <2> QED
    BY <2>1, <2>2, OtherRowsKeep
<1>2. ASSUME NEW f \in Fetchers,
             (\E S \in SUBSET Docs : ClaimDocuments(f, S) \/ Download(f, S)) \/ \E d \in Docs : SaveDocument(f, d)
      PROVE  IInv'
  BY <1>2, ClaimKeeps, DownloadKeeps, SaveKeeps
<1>3. CASE SchedulerStep
  <2>1. Scheduler \in Fetchers
    BY DEF Fetchers
  <2>2. ASSUME NEW q \in Queries, Search(q) \/ SkipSearch(q) PROVE IInv'
    BY <2>2, ManualSearchKeeps, ScheduledKeeps, SkipKeeps DEF Search
  <2> QED
    BY <1>2, <1>3, <2>1, <2>2, ClaimManualKeeps, NoManualKeeps, EndManualKeeps, ProviderEndKeeps, NothingKeeps, LoadKeeps
       DEF SchedulerStep
<1>4. CASE \E w \in Workers : WorkerStep(w)
  <2>1. \A w \in Workers : w \in Fetchers
    BY DEF Fetchers
  <2> QED
    BY <1>2, <1>4, <2>1 DEF WorkerStep
<1>5. CASE Failure
  BY <1>5, ManualRaisesKeeps, ProviderEndKeeps, FetchRaisesKeeps, CrashKeeps DEF Failure
<1>6. CASE Environment
  BY <1>6, CronKeeps, AdministratorKeeps, TopicKeeps, RetryKeeps, OrphanKeeps, DayKeeps DEF Environment
<1> QED
  BY <1>1, <1>3, <1>4, <1>5, <1>6 DEF Next

----------------------------------------------------------------------------
(* The theorems.                                                            *)

\* Whatever was read before, the plan of a tick never exceeds the quota, its
\* searches were not served since their source came due, and no two fetchers
\* hold one document.
THEOREM CollectionInvariant == ASSUME ConstantsAreSound PROVE Spec => []IInv
<1>1. Init => IInv
  BY InitInv
<1>2. IInv /\ [Next]_vars => IInv'
  BY NextInv
<1> QED
  BY <1>1, <1>2, PTL DEF Spec

\* The variables of scheduler and fetchers keep their types.
THEOREM CollectionTypes == ASSUME ConstantsAreSound PROVE Spec => []TypeOK
<1>1. IInv => TypeOK
  BY DEF IInv
<1> QED
  BY <1>1, CollectionInvariant, PTL

\* The scheduled runs of a day keep to the quota, a search succeeds at most once
\* between two cron times, and a document is held by one fetcher: across stale
\* plans, midnight, manual runs, orphaned searches, exceptions and crashes.
THEOREM CollectionIsPlanned == ASSUME ConstantsAreSound PROVE Spec => []CollectionKeepsToPlan
<1>1. IInv => CollectionKeepsToPlan
  <2> SUFFICES ASSUME IInv PROVE CollectionKeepsToPlan
    OBVIOUS
  <2>1. ASSUME NEW s \in Sources PROVE runs[s] <= DailyMax[s]
    <3>1. runs[s] \in Nat /\ tick.left[s] \in Int
      BY Fields DEF IInv, TypeOK
    <3>2. DailyMax[s] \in Nat
      BY DEF ConstantsAreSound, LimitsArePositive
    <3> QED
      BY <3>1, <3>2 DEF IInv, QuotaIsKept
  <2>2. SearchedOncePerSlot
    BY DEF SearchedOncePerSlot, IInv, SlotIsFree
  <2> QED
    BY <2>1, <2>2 DEF CollectionKeepsToPlan, ScheduledRunsWithinLimit, IInv
<1> QED
  BY <1>1, CollectionInvariant, PTL

-----------------------------------------------------------------------------
(* Intake: what is kept of the tables.                                     *)

HeadRow == [url : Urls \cup {Null}, hash : Bodies \cup Urls, live : BOOLEAN,
            vers : Seq([body : Bodies, event : Events])]
EventRow == [status : {"absent", "received", "processing", "completed", "failed"}, job : Jobs \cup {Null}]
JobRow == [status : {"absent", "queued", "running", "completed", "failed"}, head : Nat,
           owner : Slots \cup {Null}]
\* The tables in a transaction, which may yet meet a bound.
Typed(d) == d \in [head : Seq(HeadRow), event : [Events -> EventRow], binding : [Events -> Nat],
                   job : [Jobs -> JobRow], refused : BOOLEAN]

\* Rows point to heads that there are.
Pointed(d) ==
  /\ \A e \in Events : d.binding[e] <= Len(d.head)
  /\ \A k \in Jobs : d.job[k].head <= Len(d.head)

\* Live heads differ in their hashes and URLs, and a hash that is a URL is that of its head.
OneHead(d) == \A h, i \in DOMAIN d.head :
  (/\ d.head[h].live /\ d.head[i].live
   /\ d.head[h].hash = d.head[i].hash \/ (d.head[h].url # Null /\ d.head[h].url = d.head[i].url))
    => h = i
HashIs(d) == \A h \in DOMAIN d.head : d.head[h].hash \in Urls => d.head[h].url = d.head[h].hash

BoundLive(d) == \A e \in Events : d.binding[e] # 0 =>
  d.binding[e] \in DOMAIN d.head /\ d.head[d.binding[e]].live /\ d.head[d.binding[e]].vers # <<>>

\* An event is linked to a job of its own.
OwnJob(d) == \A e \in Events : d.event[e].job # Null => d.event[e].job \in {e} \X (0 .. MaxVersions)

\* The builds of a link come after its own job, and are of versions that its head has.
LinkJobs(d) == \A e \in Links :
  /\ d.job[<<e, 0>>].status # "absent" => d.job[<<e, 0>>].head \in DOMAIN d.head
  /\ \A n \in 1 .. MaxVersions : d.job[<<e, n>>].status # "absent" =>
       d.job[<<e, 0>>].status # "absent" /\ n <= Version(d, d.job[<<e, 0>>].head)

Unsent(d, e) == d.event[e].job = Null /\ \A n \in 0 .. MaxVersions : d.job[<<e, n>>].status = "absent"
Ends(d, e) ==
  LET k == d.event[e].job
  IN k # Null /\ d.job[k].status \in {"completed", "failed"} => d.event[e].status \in {"completed", "failed"}

\* What holds of the tables in a transaction, too.
Kept(d) == Typed(d) /\ Pointed(d) /\ (~d.refused => OneHead(d)) /\ HashIs(d) /\ BoundLive(d) /\ OwnJob(d) /\ LinkJobs(d)

SlotsWork ==
  \A w \in Slots : fetcher[w].step # "idle" =>
    \E e \in Links : fetcher[w].job = <<e, 0>> /\ db.job[<<e, 0>>].status # "absent"

IntakeInv ==
  /\ Kept(db) /\ ~db.refused /\ Bounded(db)
  /\ \A e \in Events : answer[e] = "none" => Unsent(db, e)
  /\ \A e \in Events \ again : Ends(db, e)
  /\ report \in [Marks -> Nat] /\ \A e \in Marks : report[e] \in DOMAIN ReportOf[e]
  /\ fetcher \in [Slots -> [step : {"idle", "claimed", "fetched", "saved"}, job : Jobs \cup {Null},
                            body : Bodies \cup {Unreadable, Null}]]
  /\ \A w \in Slots : fetcher[w].step = "fetched" => fetcher[w].body # Null
  /\ SlotsWork
  /\ answer \in [Events \cup Removals -> {"none", "accepted", "error", "not found"}]
  /\ again \subseteq Events \cup Removals

-----------------------------------------------------------------------------
(* Statements about heads.                                                 *)

\* No head is lost by a statement that writes heads, and no version.
Grows(d, c) ==
  /\ Len(d.head) <= Len(c.head)
  /\ \A h \in DOMAIN d.head : /\ c.head[h].live = d.head[h].live
                              /\ Len(d.head[h].vers) <= Len(c.head[h].vers)

LEMMA HeadsAre ==
  ASSUME NEW d, Typed(d)
  PROVE  /\ d.head \in Seq(HeadRow) /\ Len(d.head) \in Nat /\ DOMAIN d.head = 1 .. Len(d.head)
         /\ \A h \in DOMAIN d.head :
              /\ d.head[h] \in HeadRow /\ Version(d, h) \in Nat
              /\ (d.head[h].vers # <<>> <=> Version(d, h) > 0)
<1>1. d.head \in Seq(HeadRow)
  BY DEF Typed
<1>2. Len(d.head) \in Nat /\ DOMAIN d.head = 1 .. Len(d.head) /\ \A h \in DOMAIN d.head : d.head[h] \in HeadRow
  BY <1>1
<1>3. \A h \in DOMAIN d.head : d.head[h].vers \in Seq([body : Bodies, event : Events])
  BY <1>2 DEF HeadRow
<1>4. \A h \in DOMAIN d.head : Version(d, h) \in Nat /\ (d.head[h].vers # <<>> <=> Version(d, h) > 0)
  BY <1>3, EmptySeq DEF Version
<1> QED
  BY <1>1, <1>2, <1>4

\* What events, bindings and jobs owe to heads is kept while heads only grow.
LEMMA PointersGrow ==
  ASSUME NEW d, NEW c, ValuesDiffer, Typed(d), Typed(c), Grows(d, c), Pointed(d), BoundLive(d), OwnJob(d), LinkJobs(d),
         c.event = d.event, c.binding = d.binding, c.job = d.job
  PROVE  Pointed(c) /\ BoundLive(c) /\ OwnJob(c) /\ LinkJobs(c)
<1>1. /\ Len(d.head) \in Nat /\ Len(c.head) \in Nat
      /\ DOMAIN d.head = 1 .. Len(d.head) /\ DOMAIN c.head = 1 .. Len(c.head)
  BY HeadsAre
<1>2. /\ \A h \in DOMAIN d.head : Version(d, h) \in Nat /\ (d.head[h].vers # <<>> <=> Version(d, h) > 0)
      /\ \A h \in DOMAIN c.head : Version(c, h) \in Nat /\ (c.head[h].vers # <<>> <=> Version(c, h) > 0)
  BY HeadsAre
<1>3. \A h \in DOMAIN d.head : h \in DOMAIN c.head /\ c.head[h].live = d.head[h].live /\ Version(d, h) <= Version(c, h)
  BY <1>1 DEF Grows, Version
<1>4. (\A e \in Events : d.binding[e] \in Nat) /\ (\A k \in Jobs : d.job[k].head \in Nat)
  BY DEF Typed, JobRow
<1>5. Pointed(c)
  BY <1>1, <1>4 DEF Pointed, Grows
<1>6. BoundLive(c)
  BY <1>2, <1>3 DEF BoundLive
<1>7. OwnJob(c)
  BY DEF OwnJob
<1>8. LinkJobs(c)
  <2>1. ASSUME NEW e \in Links, d.job[<<e, 0>>].status # "absent" PROVE d.job[<<e, 0>>].head \in DOMAIN c.head
    BY <1>3, <2>1 DEF LinkJobs
  <2>2. ASSUME NEW e \in Links, NEW n \in 1 .. MaxVersions, d.job[<<e, n>>].status # "absent"
        PROVE  d.job[<<e, 0>>].status # "absent" /\ n <= Version(c, d.job[<<e, 0>>].head)
    <3>1. d.job[<<e, 0>>].status # "absent" /\ n <= Version(d, d.job[<<e, 0>>].head)
      BY <2>2 DEF LinkJobs
    <3>2. d.job[<<e, 0>>].head \in DOMAIN d.head /\ d.job[<<e, 0>>].head \in DOMAIN c.head
      BY <3>1, <1>3 DEF LinkJobs
    <3>3. n \in Int
      BY DEF ValuesDiffer
    <3> QED
      BY <3>1, <3>2, <3>3, <1>2, <1>3
  <2> QED
    BY <2>1, <2>2 DEF LinkJobs
<1> QED
  BY <1>5, <1>6, <1>7, <1>8

LEMMA NewHeadKeeps ==
  ASSUME ValuesDiffer, NEW d, Kept(d), ~d.refused, NEW u \in Urls \cup {Null}, NEW hash \in Bodies \cup Urls,
         ByUrl(d, u) = {}, ByHash(d, hash) = {}, hash \in Urls => u = hash
  PROVE  LET c == NewHead(d, u, hash)
         IN  /\ Kept(c) /\ ~c.refused /\ c.event = d.event /\ c.binding = d.binding /\ c.job = d.job
             /\ Len(c.head) = Len(d.head) + 1 /\ Grows(d, c)
             /\ c.head[Len(c.head)] = [url |-> u, hash |-> hash, live |-> TRUE, vers |-> <<>>]
             /\ \A h \in DOMAIN d.head : c.head[h] = d.head[h]
<1> DEFINE c == NewHead(d, u, hash)
           row == [url |-> u, hash |-> hash, live |-> TRUE, vers |-> <<>>]
<1>1. Typed(d) /\ OneHead(d)
  BY DEF Kept
<1>2. d.head \in Seq(HeadRow) /\ Len(d.head) \in Nat /\ DOMAIN d.head = 1 .. Len(d.head)
  BY <1>1, HeadsAre
<1>3. row \in HeadRow
  <2>1. row.vers \in Seq([body : Bodies, event : Events])
    BY EmptySeq
  <2> QED
    BY <2>1 DEF HeadRow
<1>4. c = [d EXCEPT !.head = Append(d.head, row)]
  BY DEF NewHead
<1>5. c.head = Append(d.head, row) /\ c.event = d.event /\ c.binding = d.binding /\ c.job = d.job /\ c.refused = d.refused
  BY <1>1, <1>4 DEF Typed
<1> HIDE DEF row
<1>6. /\ c.head \in Seq(HeadRow) /\ Len(c.head) = Len(d.head) + 1 /\ c.head[Len(d.head) + 1] = row
      /\ \A h \in 1 .. Len(d.head) : c.head[h] = d.head[h]
  BY <1>2, <1>3, <1>5, AppendProperties
<1>7. Typed(c)
  BY <1>1, <1>4, <1>5, <1>6 DEF Typed
<1> HIDE DEF c
<1>8. DOMAIN c.head = 1 .. Len(d.head) + 1
  BY <1>6, <1>7, HeadsAre
<1>9. row.live /\ row.hash = hash /\ row.url = u /\ row.vers = <<>>
  BY DEF row
<1>10. \A h \in DOMAIN d.head : d.head[h].live => d.head[h].hash # hash /\ (u # Null => d.head[h].url # u)
  BY DEF ByUrl, ByHash, Live
<1>11. OneHead(c)
  <2> SUFFICES ASSUME NEW h \in DOMAIN c.head, NEW i \in DOMAIN c.head, c.head[h].live, c.head[i].live,
                      c.head[h].hash = c.head[i].hash \/ (c.head[h].url # Null /\ c.head[h].url = c.head[i].url)
               PROVE  h = i
    BY DEF OneHead
  <2>1. h = Len(d.head) + 1 \/ (h \in DOMAIN d.head /\ c.head[h] = d.head[h])
    BY <1>2, <1>6, <1>8
  <2>2. i = Len(d.head) + 1 \/ (i \in DOMAIN d.head /\ c.head[i] = d.head[i])
    BY <1>2, <1>6, <1>8
  <2>3. CASE h = Len(d.head) + 1 /\ i # Len(d.head) + 1
    BY <2>2, <2>3, <1>6, <1>9, <1>10
  <2>4. CASE h # Len(d.head) + 1 /\ i = Len(d.head) + 1
    BY <2>1, <2>4, <1>6, <1>9, <1>10
  <2>5. CASE h # Len(d.head) + 1 /\ i # Len(d.head) + 1
    BY <2>1, <2>2, <2>5, <1>1 DEF OneHead
  <2> QED
    BY <2>3, <2>4, <2>5
<1>12. HashIs(c)
  <2> SUFFICES ASSUME NEW h \in DOMAIN c.head, c.head[h].hash \in Urls PROVE c.head[h].url = c.head[h].hash
    BY DEF HashIs
  <2>1. h = Len(d.head) + 1 \/ (h \in DOMAIN d.head /\ c.head[h] = d.head[h])
    BY <1>2, <1>6, <1>8
  <2> QED
    BY <2>1, <1>6, <1>9 DEF HashIs, Kept
<1>13. Grows(d, c)
  <2>1. \A h \in DOMAIN d.head : Len(d.head[h].vers) <= Len(c.head[h].vers)
    BY <1>2, <1>6, <1>1, HeadsAre DEF Version
  <2> QED
    BY <2>1, <1>2, <1>6 DEF Grows
<1>14. Pointed(c) /\ BoundLive(c) /\ OwnJob(c) /\ LinkJobs(c)
  BY <1>1, <1>5, <1>7, <1>13, PointersGrow DEF Kept
<1>15. Kept(c) /\ ~c.refused
  BY <1>5, <1>7, <1>11, <1>12, <1>14 DEF Kept
<1> QED
  BY <1>2, <1>5, <1>6, <1>9, <1>13, <1>15 DEF c, row

LEMMA ChangedKeeps ==
  ASSUME ValuesDiffer, NEW d, Kept(d), ~d.refused, NEW h \in DOMAIN d.head, NEW e \in Events, NEW b \in Bodies
  PROVE  LET c == Changed(d, h, e, b)
         IN  /\ Kept(c) /\ c.event = d.event /\ c.binding = d.binding /\ c.job = d.job
             /\ Len(c.head) = Len(d.head) /\ Grows(d, c) /\ c.head[h].vers # <<>>
             /\ Latest(d, h) # b => Version(c, h) = Version(d, h) + 1
<1>1. Typed(d) /\ OneHead(d)
  BY DEF Kept
<1>2. /\ d.head \in Seq(HeadRow) /\ Len(d.head) \in Nat /\ DOMAIN d.head = 1 .. Len(d.head)
      /\ \A x \in DOMAIN d.head : d.head[x] \in HeadRow /\ Version(d, x) \in Nat
  BY <1>1, HeadsAre
<1>3. CASE Latest(d, h) = b
  <2>1. Changed(d, h, e, b) = d
    BY <1>3 DEF Changed
  <2>2. d.head[h].vers # <<>>
    BY <1>3 DEF Latest, ValuesDiffer
  <2>3. Grows(d, d)
    BY <1>2 DEF Grows, Version
  <2> QED
    BY <1>3, <2>1, <2>2, <2>3
<1>4. CASE Latest(d, h) # b
  <2> DEFINE row == [d.head[h] EXCEPT !.vers = Append(@, [body |-> b, event |-> e]), !.hash = b]
             c == [d EXCEPT !.head = [d.head EXCEPT ![h] = row],
                            !.refused = @ \/ (d.head[h].live /\ ByHash(d, b) \ {h} # {})]
  <2>1. Changed(d, h, e, b) = c
    BY <1>1, <1>2, <1>4 DEF Changed, Typed
  <2>2. /\ c.head = [d.head EXCEPT ![h] = row] /\ c.event = d.event /\ c.binding = d.binding /\ c.job = d.job
        /\ c.refused = (d.refused \/ (d.head[h].live /\ ByHash(d, b) \ {h} # {})) /\ c.refused \in BOOLEAN
    BY <1>1 DEF Typed
  <2>3. /\ row.vers = Append(d.head[h].vers, [body |-> b, event |-> e]) /\ row.hash = b
        /\ row.url = d.head[h].url /\ row.live = d.head[h].live /\ row \in HeadRow
        /\ Len(row.vers) = Version(d, h) + 1 /\ row.vers # <<>>
    <3>1. d.head[h] \in HeadRow /\ d.head[h].vers \in Seq([body : Bodies, event : Events])
      BY <1>2 DEF HeadRow
    <3>2. [body |-> b, event |-> e] \in [body : Bodies, event : Events]
      OBVIOUS
    <3>3. row.vers = Append(d.head[h].vers, [body |-> b, event |-> e]) /\ row.hash = b
          /\ row.url = d.head[h].url /\ row.live = d.head[h].live
      BY <3>1 DEF HeadRow
    <3>4. row.vers \in Seq([body : Bodies, event : Events]) /\ Len(row.vers) = Version(d, h) + 1 /\ row.vers # <<>>
      BY <3>1, <3>2, <3>3, AppendProperties DEF Version
    <3>5. row \in HeadRow
      BY <3>1, <3>3, <3>4 DEF HeadRow
    <3> QED
      BY <3>3, <3>4, <3>5
  <2> HIDE DEF row
  <2>4. /\ c.head \in Seq(HeadRow) /\ Len(c.head) = Len(d.head)
        /\ \A x \in 1 .. Len(d.head) : c.head[x] = IF x = h THEN row ELSE d.head[x]
    BY <1>2, <2>2, <2>3, ExceptSeq
  <2>5. Typed(c)
    BY <1>1, <2>2, <2>4 DEF Typed
  <2> HIDE DEF c
  <2>6. DOMAIN c.head = DOMAIN d.head /\ \A x \in DOMAIN d.head : c.head[x] = IF x = h THEN row ELSE d.head[x]
    BY <1>2, <2>4, <2>5, HeadsAre
  <2>7. Grows(d, c)
    BY <1>2, <2>3, <2>4, <2>6 DEF Grows, Version
  <2>8. ~c.refused => OneHead(c)
    <3> SUFFICES ASSUME ~c.refused, NEW x \in DOMAIN c.head, NEW y \in DOMAIN c.head, c.head[x].live, c.head[y].live,
                        c.head[x].hash = c.head[y].hash \/ (c.head[x].url # Null /\ c.head[x].url = c.head[y].url)
                 PROVE  x = y
      BY DEF OneHead
    <3>1. d.head[h].live => \A z \in DOMAIN d.head : z # h /\ d.head[z].live => d.head[z].hash # b
      BY <2>2 DEF ByHash, Live
    <3>2. /\ d.head[x].live /\ d.head[y].live
          /\ c.head[x].url = d.head[x].url /\ c.head[y].url = d.head[y].url
      BY <2>3, <2>6
    <3>3. CASE c.head[x].url # Null /\ c.head[x].url = c.head[y].url
      BY <1>1, <2>6, <3>2, <3>3 DEF OneHead
    <3>4. CASE c.head[x].hash = c.head[y].hash
      <4>1. CASE x = h /\ y # h
        BY <2>3, <2>6, <3>1, <3>2, <3>4, <4>1
      <4>2. CASE x # h /\ y = h
        BY <2>3, <2>6, <3>1, <3>2, <3>4, <4>2
      <4>3. CASE x # h /\ y # h
        BY <1>1, <2>6, <3>2, <3>4, <4>3 DEF OneHead
      <4> QED
        BY <4>1, <4>2, <4>3
    <3> QED
      BY <3>3, <3>4
  <2>9. HashIs(c)
    BY <2>3, <2>6 DEF HashIs, Kept, ValuesDiffer
  <2>10. Pointed(c) /\ BoundLive(c) /\ OwnJob(c) /\ LinkJobs(c)
    BY <1>1, <2>2, <2>5, <2>7, PointersGrow DEF Kept
  <2>11. Kept(c)
    BY <2>5, <2>8, <2>9, <2>10 DEF Kept
  <2>12. c.head[h].vers # <<>> /\ Version(c, h) = Version(d, h) + 1
    BY <2>3, <2>6 DEF Version
  <2> QED
    BY <2>1, <2>2, <2>4, <2>7, <2>11, <2>12
<1> QED
  BY <1>3, <1>4

LEMMA UserVersionKeeps ==
  ASSUME ValuesDiffer, NEW d, Kept(d), ~d.refused, NEW e \in Events, NEW u \in Urls \cup {Null}, NEW b \in Bodies
  PROVE  LET c == UserVersion(d, e, u, b)
         IN  /\ Kept(c) /\ c.event = d.event /\ c.job = d.job
             /\ c.binding[e] \in DOMAIN c.head /\ Version(c, c.binding[e]) > 0
<1> DEFINE found == Found(d, u, b)
           d1 == IF found = {} THEN NewHead(d, u, b) ELSE d
           h == IF found = {} THEN Len(d1.head) ELSE CHOOSE x \in found : TRUE
           c1 == Changed(d1, h, e, b)
           c == [c1 EXCEPT !.binding[e] = h]
<1>1. UserVersion(d, e, u, b) = c
  BY DEF UserVersion
<1>2. Typed(d) /\ DOMAIN d.head = 1 .. Len(d.head) /\ Len(d.head) \in Nat
  BY HeadsAre DEF Kept
<1>3. Kept(d1) /\ ~d1.refused /\ d1.event = d.event /\ d1.job = d.job /\ h \in DOMAIN d1.head /\ d1.head[h].live
  <2>1. CASE found = {}
    <3>1. ByUrl(d, u) = {} /\ ByHash(d, b) = {}
      BY <2>1 DEF Found
    <3>2. b \in Bodies \cup Urls /\ b \notin Urls
      BY DEF ValuesDiffer
    <3>3. /\ Kept(d1) /\ ~d1.refused /\ d1.event = d.event /\ d1.job = d.job /\ Len(d1.head) = Len(d.head) + 1
          /\ d1.head[Len(d1.head)] = [url |-> u, hash |-> b, live |-> TRUE, vers |-> <<>>]
      BY <2>1, <3>1, <3>2, NewHeadKeeps
    <3>4. DOMAIN d1.head = 1 .. Len(d1.head)
      BY <3>3, HeadsAre DEF Kept
    <3> QED
      BY <1>2, <2>1, <3>3, <3>4
  <2>2. CASE found # {}
    <3>1. h \in found
      BY <2>2
    <3>2. found \subseteq Live(d)
      BY DEF Found, ByUrl, ByHash
    <3> QED
      BY <2>2, <3>1, <3>2 DEF Live
  <2> QED
    BY <2>1, <2>2
<1> HIDE DEF d1, h
<1>4. /\ Kept(c1) /\ c1.event = d.event /\ c1.job = d.job /\ Len(c1.head) = Len(d1.head) /\ Grows(d1, c1)
      /\ c1.head[h].vers # <<>>
  BY <1>3, ChangedKeeps
<1>5. Typed(c1) /\ Typed(d1)
  BY <1>3, <1>4 DEF Kept
<1> HIDE DEF c1
<1>6. /\ DOMAIN c1.head = 1 .. Len(c1.head) /\ Len(c1.head) \in Nat /\ DOMAIN d1.head = 1 .. Len(d1.head)
      /\ \A x \in DOMAIN c1.head : c1.head[x].vers # <<>> <=> Version(c1, x) > 0
  BY <1>5, HeadsAre
<1>7. h \in 1 .. Len(c1.head) /\ h \in Nat /\ h \in DOMAIN c1.head /\ c1.head[h].live /\ Version(c1, h) > 0
  BY <1>3, <1>4, <1>6 DEF Grows
<1>8. /\ c.head = c1.head /\ c.event = c1.event /\ c.job = c1.job /\ c.refused = c1.refused
      /\ c.binding = [c1.binding EXCEPT ![e] = h]
  BY <1>5 DEF Typed
<1>9. Typed(c)
  BY <1>5, <1>7 DEF Typed
<1>10. c.binding[e] = h /\ \A f \in Events : f # e => c.binding[f] = c1.binding[f]
  BY <1>5, <1>8 DEF Typed
<1> HIDE DEF c
<1>11. Pointed(c) /\ BoundLive(c)
  BY <1>4, <1>7, <1>8, <1>10 DEF Kept, Pointed, BoundLive
<1>12. (c.refused \/ OneHead(c)) /\ HashIs(c) /\ OwnJob(c)
  BY <1>4, <1>8 DEF Kept, OneHead, HashIs, OwnJob
<1>13. LinkJobs(c)
  BY <1>4, <1>8 DEF Kept, LinkJobs, Version
<1>14. Kept(c)
  BY <1>9, <1>11, <1>12, <1>13 DEF Kept
<1>15. c.binding[e] \in DOMAIN c.head /\ Version(c, c.binding[e]) > 0
  BY <1>7, <1>8, <1>10 DEF Version
<1> QED
  BY <1>1, <1>4, <1>8, <1>14, <1>15

-----------------------------------------------------------------------------
(* Statements about events and jobs.                                       *)

EventStatuses == {"absent", "received", "processing", "completed", "failed"}

LEMMA StatusKeeps ==
  ASSUME NEW d, Kept(d), NEW e \in Events, NEW s \in EventStatuses
  PROVE  LET c == [d EXCEPT !.event[e].status = s]
         IN  /\ Kept(c) /\ c.head = d.head /\ c.binding = d.binding /\ c.job = d.job /\ c.refused = d.refused
             /\ c.event[e].status = s /\ c.event[e].job = d.event[e].job
             /\ \A f \in Events : f # e => c.event[f] = d.event[f]
<1> DEFINE c == [d EXCEPT !.event[e].status = s]
<1>1. Typed(d) /\ d.event \in [Events -> EventRow]
  BY DEF Kept, Typed
<1>2. /\ c.head = d.head /\ c.binding = d.binding /\ c.job = d.job /\ c.refused = d.refused
      /\ c.event = [d.event EXCEPT ![e].status = s]
  BY <1>1 DEF Typed
<1>3. /\ c.event[e].status = s /\ c.event[e].job = d.event[e].job /\ c.event \in [Events -> EventRow]
      /\ \A f \in Events : f # e => c.event[f] = d.event[f]
  BY <1>1, <1>2 DEF EventRow, EventStatuses
<1>4. Typed(c)
  BY <1>1, <1>2, <1>3 DEF Typed
<1> HIDE DEF c
<1>5. OwnJob(c)
  BY <1>3 DEF Kept, OwnJob
<1>6. Pointed(c) /\ (~c.refused => OneHead(c)) /\ HashIs(c) /\ BoundLive(c)
  BY <1>2 DEF Kept, Pointed, OneHead, HashIs, BoundLive
<1>7. LinkJobs(c)
  BY <1>2 DEF Kept, LinkJobs, Version
<1> QED
  BY <1>2, <1>3, <1>4, <1>5, <1>6, <1>7 DEF Kept, c

\* What is received, opened again or noted is, of its event, no more than the status.
LEMMA ReceivedKeeps ==
  ASSUME NEW d, Kept(d), NEW e \in Events, NEW c, c \in {Received(d, e), Reopened(d, e), Noted(d, e)}
  PROVE  /\ Kept(c) /\ c.head = d.head /\ c.binding = d.binding /\ c.job = d.job /\ c.refused = d.refused
         /\ c.event[e].job = d.event[e].job /\ \A f \in Events : f # e => c.event[f] = d.event[f]
<1>1. d.event[e].status \in EventStatuses
  BY DEF Kept, Typed, EventRow, EventStatuses
<1>2. PICK s \in EventStatuses : c = [d EXCEPT !.event[e].status = s]
  <2>1. CASE c = Received(d, e)
    BY <1>1, <2>1 DEF Received, EventStatuses
  <2>2. CASE c = Reopened(d, e)
    BY <2>2 DEF Reopened, EventStatuses
  <2>3. CASE c = Noted(d, e)
    BY <1>1, <2>3 DEF Noted, EventStatuses
  <2> QED
    BY <2>1, <2>2, <2>3
<1> QED
  BY <1>2, StatusKeeps

\* A job of an event: that of a link comes first, and its builds are of versions there are.
MayEnqueue(d, e, n) ==
  e \in Links /\ n # 0 => /\ d.job[<<e, 0>>].status # "absent"
                          /\ n <= Version(d, d.job[<<e, 0>>].head)

LEMMA EnqueuedKeeps ==
  ASSUME ValuesDiffer, NEW d, Kept(d), NEW e \in Events, NEW n \in 0 .. MaxVersions, NEW h \in DOMAIN d.head,
         MayEnqueue(d, e, n)
  PROVE  LET c == Enqueued(d, <<e, n>>, h)
         IN  /\ Kept(c) /\ c.head = d.head /\ c.binding = d.binding /\ c.refused = d.refused
             /\ c.event[e].job = <<e, n>> /\ \A f \in Events : f # e => c.event[f] = d.event[f]
             /\ c.job[<<e, n>>].status # "absent"
             /\ d.job[<<e, n>>].status = "absent" => c.job[<<e, n>>].status = "queued"
             /\ \A k \in Jobs : k # <<e, n>> => c.job[k] = d.job[k]
<1> DEFINE k0 == <<e, n>>
           row == IF d.job[k0].status = "absent" THEN [status |-> "queued", head |-> h, owner |-> Null] ELSE d.job[k0]
           c == [d EXCEPT !.job = [d.job EXCEPT ![k0] = row], !.event = [d.event EXCEPT ![e].job = k0]]
<1>1. Typed(d) /\ d.event \in [Events -> EventRow] /\ d.job \in [Jobs -> JobRow] /\ k0 \in Jobs
  BY DEF Kept, Typed, Jobs
<1>2. /\ DOMAIN d.head = 1 .. Len(d.head) /\ Len(d.head) \in Nat
      /\ \A x \in DOMAIN d.head : Version(d, x) \in Nat
  BY <1>1, HeadsAre
<1>3. Enqueued(d, k0, h) = c
  <2>1. k0[1] = e
    OBVIOUS
  <2> QED
    BY <1>1, <2>1 DEF Enqueued, Typed
<1>4. row \in JobRow /\ row.status # "absent" /\ row.head <= Len(d.head) /\ row.head \in DOMAIN d.head \cup {d.job[k0].head}
  <2>1. d.job[k0] \in JobRow /\ d.job[k0].head <= Len(d.head) /\ d.job[k0].head \in Nat
    BY <1>1 DEF Kept, Pointed, JobRow
  <2>2. h \in Nat /\ h <= Len(d.head)
    BY <1>2
  <2> QED
    BY <2>1, <2>2 DEF JobRow
<1>5. d.job[k0].status = "absent" => row.status = "queued" /\ row.head = h
  OBVIOUS
<1>6. d.job[k0].status # "absent" => row = d.job[k0]
  OBVIOUS
<1> HIDE DEF row
<1>7. /\ c.head = d.head /\ c.binding = d.binding /\ c.refused = d.refused
      /\ c.job = [d.job EXCEPT ![k0] = row] /\ c.event = [d.event EXCEPT ![e].job = k0]
  BY <1>1 DEF Typed
<1>8. /\ c.event[e].job = k0 /\ \A f \in Events : f # e => c.event[f] = d.event[f]
      /\ c.event \in [Events -> EventRow]
  BY <1>1, <1>7 DEF EventRow
<1>9. c.job[k0] = row /\ (\A k \in Jobs : k # k0 => c.job[k] = d.job[k]) /\ c.job \in [Jobs -> JobRow]
  BY <1>1, <1>4, <1>7
<1>10. Typed(c)
  BY <1>1, <1>7, <1>8, <1>9 DEF Typed
<1> HIDE DEF c
<1>11. OwnJob(c)
  <2>1. k0 \in {e} \X (0 .. MaxVersions)
    OBVIOUS
  <2> QED
    BY <1>8, <2>1 DEF Kept, OwnJob
<1>12. Pointed(c) /\ (~c.refused => OneHead(c)) /\ HashIs(c) /\ BoundLive(c)
  BY <1>4, <1>7, <1>9 DEF Kept, Pointed, OneHead, HashIs, BoundLive
<1>13. LinkJobs(c)
  <2> SUFFICES ASSUME NEW f \in Links
               PROVE  /\ c.job[<<f, 0>>].status # "absent" => c.job[<<f, 0>>].head \in DOMAIN c.head
                      /\ \A m \in 1 .. MaxVersions : c.job[<<f, m>>].status # "absent" =>
                           c.job[<<f, 0>>].status # "absent" /\ m <= Version(c, c.job[<<f, 0>>].head)
    BY DEF LinkJobs
  <2>1. f \in Events /\ \A m \in 0 .. MaxVersions : <<f, m>> \in Jobs /\ (<<f, m>> = k0 <=> f = e /\ m = n)
    BY DEF Events, Jobs
  <2>2. 0 \in 0 .. MaxVersions /\ 1 .. MaxVersions \subseteq 0 .. MaxVersions
    BY DEF ValuesDiffer
  <2>3. \A x : Version(c, x) = Version(d, x)
    BY <1>7 DEF Version
  <2>4. LinkJobs(d)
    BY DEF Kept
  <2>5. CASE f # e
    BY <1>7, <1>9, <2>1, <2>2, <2>3, <2>4, <2>5 DEF LinkJobs
  <2>6. CASE f = e /\ n = 0
    <3>1. \A m \in 1 .. MaxVersions : c.job[<<f, m>>] = d.job[<<f, m>>]
      BY <1>9, <2>1, <2>2, <2>6
    <3>2. \A m \in 1 .. MaxVersions : d.job[<<f, m>>].status # "absent" =>
            d.job[<<f, 0>>].status # "absent" /\ m <= Version(d, d.job[<<f, 0>>].head)
      BY <2>4 DEF LinkJobs
    <3>3. c.job[<<f, 0>>] = row
      BY <1>9, <2>6
    <3>4. d.job[<<f, 0>>].status # "absent" => row = d.job[<<f, 0>>] /\ row.head \in DOMAIN d.head
      BY <1>6, <2>4, <2>6 DEF LinkJobs
    <3>5. row.head \in DOMAIN c.head
      BY <1>5, <1>7, <2>6, <3>4
    <3> QED
      BY <1>4, <2>3, <3>1, <3>2, <3>3, <3>4, <3>5
  <2>7. CASE f = e /\ n # 0
    <3>1. c.job[<<f, 0>>] = d.job[<<f, 0>>] /\ d.job[<<f, 0>>].status # "absent" /\ n <= Version(d, d.job[<<f, 0>>].head)
      BY <1>9, <2>1, <2>2, <2>7 DEF MayEnqueue
    <3>2. d.job[<<f, 0>>].head \in DOMAIN c.head
      BY <1>7, <2>4, <3>1 DEF LinkJobs
    <3>3. \A m \in 1 .. MaxVersions : c.job[<<f, m>>].status # "absent" => m <= Version(d, d.job[<<f, 0>>].head)
      BY <1>9, <2>1, <2>2, <2>4, <2>7, <3>1 DEF LinkJobs
    <3> QED
      BY <2>3, <3>1, <3>2, <3>3
  <2> QED
    BY <2>5, <2>6, <2>7
<1>14. Kept(c)
  BY <1>10, <1>11, <1>12, <1>13 DEF Kept
<1> QED
  BY <1>3, <1>4, <1>5, <1>7, <1>8, <1>9, <1>14

\* A job that there is changes its status and owner.
LEMMA JobKeeps ==
  ASSUME RequestsAreWellFormed, NEW d, Kept(d), NEW k \in Jobs,
         d.job[k].status # "absent" \/ k \in Removals \X {0},
         NEW r \in JobRow, r.status # "absent", r.head = d.job[k].head
  PROVE  LET c == [d EXCEPT !.job[k] = r]
         IN  /\ Kept(c) /\ c.head = d.head /\ c.binding = d.binding /\ c.refused = d.refused /\ c.event = d.event
             /\ c.job[k] = r /\ \A i \in Jobs : i # k => c.job[i] = d.job[i]
<1> DEFINE c == [d EXCEPT !.job[k] = r]
<1>1. Typed(d) /\ d.job \in [Jobs -> JobRow]
  BY DEF Kept, Typed
<1>2. /\ c.head = d.head /\ c.binding = d.binding /\ c.refused = d.refused /\ c.event = d.event
      /\ c.job = [d.job EXCEPT ![k] = r]
  BY <1>1 DEF Typed
<1>3. c.job[k] = r /\ (\A i \in Jobs : i # k => c.job[i] = d.job[i]) /\ c.job \in [Jobs -> JobRow]
  BY <1>1, <1>2
<1>4. Typed(c)
  BY <1>1, <1>2, <1>3 DEF Typed
<1> HIDE DEF c
<1>5. (~c.refused => OneHead(c)) /\ HashIs(c) /\ BoundLive(c) /\ OwnJob(c) /\ Pointed(c)
  BY <1>2, <1>3 DEF Kept, OneHead, HashIs, BoundLive, OwnJob, Pointed
<1>6. LinkJobs(c)
  <2>1. ASSUME NEW e \in Links, NEW n, <<e, n>> \in Jobs
        PROVE  c.job[<<e, n>>].head = d.job[<<e, n>>].head
               /\ (c.job[<<e, n>>].status # "absent" <=> d.job[<<e, n>>].status # "absent")
    <3>1. <<e, n>> \notin Removals \X {0}
      BY DEF RequestsAreWellFormed, Events
    <3> QED
      BY <1>3, <2>1, <3>1
  <2>2. \A e \in Links : \A n \in 0 .. MaxVersions : <<e, n>> \in Jobs
    BY DEF Jobs, Events
  <2>3. \A x : Version(c, x) = Version(d, x)
    BY <1>2 DEF Version
  <2> SUFFICES ASSUME NEW f \in Links
               PROVE  /\ c.job[<<f, 0>>].status # "absent" => c.job[<<f, 0>>].head \in DOMAIN c.head
                      /\ \A m \in 1 .. MaxVersions : c.job[<<f, m>>].status # "absent" =>
                           c.job[<<f, 0>>].status # "absent" /\ m <= Version(c, c.job[<<f, 0>>].head)
    BY DEF LinkJobs
  <2> QED
    BY <1>2, <2>1, <2>2, <2>3 DEF Kept, LinkJobs
<1> QED
  BY <1>2, <1>3, <1>4, <1>5, <1>6 DEF Kept, c

\* The events that are linked to a job take its end or start.
LEMMA LinkedKeeps ==
  ASSUME NEW d, Kept(d), NEW k, NEW s \in EventStatuses
  PROVE  LET c == Linked(d, k, s)
         IN  /\ Kept(c) /\ c.head = d.head /\ c.binding = d.binding /\ c.refused = d.refused /\ c.job = d.job
             /\ \A e \in Events : /\ c.event[e].job = d.event[e].job
                                  /\ c.event[e].status = IF d.event[e].job = k THEN s ELSE d.event[e].status
<1> DEFINE c == Linked(d, k, s)
<1>1. Typed(d) /\ d.event \in [Events -> EventRow]
  BY DEF Kept, Typed
<1>2. /\ c.head = d.head /\ c.binding = d.binding /\ c.refused = d.refused /\ c.job = d.job
      /\ c.event = [e \in Events |-> IF d.event[e].job = k THEN [d.event[e] EXCEPT !.status = s] ELSE d.event[e]]
  BY <1>1 DEF Linked, Typed
<1>3. /\ c.event \in [Events -> EventRow]
      /\ \A e \in Events : /\ c.event[e].job = d.event[e].job
                           /\ c.event[e].status = IF d.event[e].job = k THEN s ELSE d.event[e].status
  BY <1>1, <1>2 DEF EventRow, EventStatuses
<1>4. Typed(c)
  BY <1>1, <1>2, <1>3 DEF Typed, Linked
<1> HIDE DEF c
<1>5. OwnJob(c)
  BY <1>3 DEF Kept, OwnJob
<1>6. Pointed(c) /\ (~c.refused => OneHead(c)) /\ HashIs(c) /\ BoundLive(c)
  BY <1>2 DEF Kept, Pointed, OneHead, HashIs, BoundLive
<1>7. LinkJobs(c)
  BY <1>2 DEF Kept, LinkJobs, Version
<1> QED
  BY <1>2, <1>3, <1>4, <1>5, <1>6, <1>7 DEF Kept, c

-----------------------------------------------------------------------------
(* Intake: what requests and jobs leave.                                   *)

\* What a step leaves of the tables.
Carried(d) ==
  /\ Kept(d) /\ ~d.refused /\ Bounded(d)
  /\ \A e \in Events : answer[e] = "none" => Unsent(d, e)
  /\ \A e \in Events \ again : Ends(d, e)
  /\ \A j \in Jobs : db.job[j].status # "absent" => d.job[j].status # "absent"

FetcherRow == [step : {"idle", "claimed", "fetched", "saved"}, job : Jobs \cup {Null},
               body : Bodies \cup {Unreadable, Null}]

\* A slot works on, or is given a job that there is.
SlotKeeps(w) ==
  fetcher'[w].step # "idle" =>
    \/ fetcher[w].step # "idle" /\ fetcher'[w].job = fetcher[w].job
    \/ \E e \in Links : fetcher'[w].job = <<e, 0>> /\ db.job[<<e, 0>>].status # "absent"

LEMMA CarriedKeeps ==
  ASSUME ValuesDiffer, IntakeInv, Carried(db'), UNCHANGED <<report, answer, again>>, fetcher' \in [Slots -> FetcherRow],
         \A w \in Slots : SlotKeeps(w) /\ (fetcher'[w].step = "fetched" => fetcher'[w].body # Null)
  PROVE  IntakeInv'
<1>1. SlotsWork'
  <2> SUFFICES ASSUME NEW w \in Slots, fetcher'[w].step # "idle"
               PROVE  \E e \in Links : fetcher'[w].job = <<e, 0>> /\ db'.job[<<e, 0>>].status # "absent"
    BY DEF SlotsWork
  <2>1. PICK e \in Links : fetcher'[w].job = <<e, 0>> /\ db.job[<<e, 0>>].status # "absent"
    BY DEF SlotKeeps, IntakeInv, SlotsWork
  <2>2. <<e, 0>> \in Jobs
    BY DEF Jobs, Events, ValuesDiffer
  <2> QED
    BY <2>1, <2>2 DEF Carried
<1> QED
  BY <1>1 DEF IntakeInv, Carried, FetcherRow
\* A request is one transaction: it touches its own event and jobs, and what it leaves
\* unlinked ends; one that an index refused leaves the tables.
LEMMA CommitKeeps ==
  ASSUME RequestsAreWellFormed, ValuesDiffer, IntakeInv, NEW r \in Events \cup Removals, NEW d, Kept(d), Commit(r, d),
         \A f \in Events \ {r} : /\ d.event[f] = db.event[f]
                                 /\ \A n \in 0 .. MaxVersions : d.job[<<f, n>>] = db.job[<<f, n>>],
         \A j \in Jobs : db.job[j].status # "absent" => d.job[j].status # "absent",
         r \in Events /\ answer[r] = "none" => Ends(d, r)
  PROVE  IntakeInv'
<1>1. /\ Bounded(d) /\ r \notin again /\ db' = (IF d.refused THEN db ELSE d)
      /\ answer' = [answer EXCEPT ![r] = IF d.refused THEN "error" ELSE "accepted"]
      /\ again' = (IF answer[r] = "none" THEN again ELSE again \cup {r})
      /\ report' = report /\ fetcher' = fetcher
  BY DEF Commit
<1>2. answer' \in [Events \cup Removals -> {"none", "accepted", "error", "not found"}] /\ answer'[r] # "none"
      /\ \A f \in Events \ {r} : answer'[f] = answer[f]
  BY <1>1 DEF IntakeInv
<1>3. d.refused \in BOOLEAN /\ Kept(db') /\ ~db'.refused /\ Bounded(db')
  BY <1>1 DEF IntakeInv, Kept, Typed
<1>4. /\ \A f \in Events \ {r} : /\ db'.event[f] = db.event[f]
                                 /\ \A n \in 0 .. MaxVersions : db'.job[<<f, n>>] = db.job[<<f, n>>]
      /\ \A j \in Jobs : db.job[j].status # "absent" => db'.job[j].status # "absent"
  BY <1>1
<1>5. ASSUME NEW e \in Events, answer'[e] = "none" PROVE Unsent(db', e)
  <2>1. e # r /\ Unsent(db, e)
    BY <1>2, <1>5 DEF IntakeInv
  <2> QED
    BY <1>4, <2>1 DEF Unsent
<1>6. ASSUME NEW e \in Events \ again' PROVE Ends(db', e)
  <2>1. e \notin again
    BY <1>1
  <2>2. Ends(db, e)
    BY <2>1 DEF IntakeInv
  <2>3. CASE e # r
    <3>1. db'.event[e] = db.event[e]
      BY <1>4, <2>3
    <3>2. CASE db.event[e].job = Null
      BY <3>1, <3>2 DEF Ends
    <3>3. CASE db.event[e].job # Null
      <4> db.event[e].job \in {e} \X (0 .. MaxVersions)
        BY <3>3 DEF IntakeInv, Kept, OwnJob
      <4>1. PICK n \in 0 .. MaxVersions : db.event[e].job = <<e, n>>
        OBVIOUS
      <4>2. db'.job[<<e, n>>] = db.job[<<e, n>>]
        BY <1>4, <2>3
      <4> QED
        BY <2>2, <3>1, <4>1, <4>2 DEF Ends
    <3> QED
      BY <3>2, <3>3
  <2>4. CASE e = r
    <3>1. Ends(d, r)
      BY <1>1, <1>6, <2>4
    <3> QED
      BY <1>1, <2>2, <2>4, <3>1
  <2> QED
    BY <2>3, <2>4
<1>7. SlotsWork'
  <2>1. \A e \in Links : <<e, 0>> \in Jobs
    BY DEF Jobs, Events, ValuesDiffer
  <2> SUFFICES ASSUME NEW w \in Slots, fetcher[w].step # "idle"
               PROVE  \E e \in Links : fetcher[w].job = <<e, 0>> /\ db'.job[<<e, 0>>].status # "absent"
    BY <1>1 DEF SlotsWork
  <2>2. PICK e \in Links : fetcher[w].job = <<e, 0>> /\ db.job[<<e, 0>>].status # "absent"
    BY DEF IntakeInv, SlotsWork
  <2> QED
    BY <1>4, <2>1, <2>2
<1>8. again' \subseteq Events \cup Removals
  BY <1>1 DEF IntakeInv
<1> QED
  BY <1>1, <1>2, <1>3, <1>5, <1>6, <1>7, <1>8 DEF IntakeInv

\* A job that starts or ends sets the events that are linked to it.
LEMMA JobStepKeeps ==
  ASSUME RequestsAreWellFormed, ValuesDiffer, IntakeInv, NEW k \in Jobs, db.job[k].status # "absent",
         NEW r \in JobRow, r.status # "absent", r.head = db.job[k].head, NEW s \in EventStatuses,
         r.status \in {"completed", "failed"} => s \in {"completed", "failed"}
  PROVE  Carried(Linked([db EXCEPT !.job[k] = r], k, s))
<1> DEFINE c == [db EXCEPT !.job[k] = r]
           d == Linked(c, k, s)
<1>1. Kept(db) /\ ~db.refused /\ Bounded(db)
  BY DEF IntakeInv
<1>2. /\ Kept(c) /\ c.head = db.head /\ c.refused = db.refused /\ c.event = db.event
      /\ c.job[k] = r /\ \A i \in Jobs : i # k => c.job[i] = db.job[i]
  BY <1>1, JobKeeps
<1> HIDE DEF c
<1>3. /\ Kept(d) /\ d.head = c.head /\ d.refused = c.refused /\ d.job = c.job
      /\ \A e \in Events : /\ d.event[e].job = c.event[e].job
                           /\ d.event[e].status = IF c.event[e].job = k THEN s ELSE c.event[e].status
  BY <1>2, LinkedKeeps
<1> HIDE DEF d
<1>4. ~d.refused /\ Bounded(d)
  BY <1>1, <1>2, <1>3 DEF Bounded, Version
<1>5. ASSUME NEW e \in Events, answer[e] = "none" PROVE Unsent(d, e)
  <2>1. Unsent(db, e)
    BY <1>5 DEF IntakeInv
  <2>2. \A n \in 0 .. MaxVersions : <<e, n>> \in Jobs /\ <<e, n>> # k
    BY <2>1 DEF Unsent, Jobs
  <2> QED
    BY <1>2, <1>3, <2>1, <2>2 DEF Unsent
<1>6. ASSUME NEW e \in Events \ again PROVE Ends(d, e)
  <2>1. Ends(db, e)
    BY DEF IntakeInv
  <2>2. CASE db.event[e].job = k
    BY <1>2, <1>3, <2>2 DEF Ends
  <2>3. CASE db.event[e].job # k
    <3>1. db.event[e].job \in Jobs \cup {Null}
      BY <1>1 DEF Kept, Typed, EventRow
    <3> QED
      BY <1>2, <1>3, <2>1, <2>3, <3>1 DEF Ends
  <2> QED
    BY <2>2, <2>3
<1>7. \A j \in Jobs : db.job[j].status # "absent" => d.job[j].status # "absent"
  BY <1>2, <1>3
<1>8. Carried(d)
  BY <1>3, <1>4, <1>5, <1>6, <1>7 DEF Carried
<1> QED
  BY <1>8 DEF d, c

LEMMA EndedCarried ==
  ASSUME RequestsAreWellFormed, ValuesDiffer, IntakeInv, NEW k \in Jobs, db.job[k].status # "absent",
         NEW s \in {"completed", "failed"}
  PROVE  Carried(Ended(k, s))
<1> DEFINE r == [db.job[k] EXCEPT !.status = s, !.owner = Null]
<1>1. db.job \in [Jobs -> JobRow] /\ Typed(db)
  BY DEF IntakeInv, Kept, Typed
<1>2. r \in JobRow /\ r.status = s /\ r.head = db.job[k].head
  BY <1>1 DEF JobRow
<1>3. [db EXCEPT !.job[k].status = s, !.job[k].owner = Null] = [db EXCEPT !.job[k] = r]
  BY <1>1 DEF Typed, JobRow
<1> HIDE DEF r
<1>4. s \in EventStatuses
  BY DEF EventStatuses
<1> QED
  BY <1>2, <1>3, <1>4, JobStepKeeps DEF Ended

LEMMA DbCarried ==
  ASSUME IntakeInv
  PROVE  Carried(db)
BY DEF IntakeInv, Carried

\* The same of tables that are given a name.
LEMMA EnqueuedLeaves ==
  ASSUME ValuesDiffer, NEW d, Kept(d), NEW e \in Events, NEW n \in 0 .. MaxVersions, NEW h \in DOMAIN d.head,
         MayEnqueue(d, e, n), NEW c, c = Enqueued(d, <<e, n>>, h)
  PROVE  /\ Kept(c) /\ c.head = d.head /\ c.binding = d.binding /\ c.refused = d.refused
         /\ c.event[e].job = <<e, n>> /\ \A f \in Events : f # e => c.event[f] = d.event[f]
         /\ c.job[<<e, n>>].status # "absent"
         /\ d.job[<<e, n>>].status = "absent" => c.job[<<e, n>>].status = "queued"
         /\ \A k \in Jobs : k # <<e, n>> => c.job[k] = d.job[k]
<1>1. \A m \in 0 .. MaxVersions : MayEnqueue(d, e, m) =>
        LET x == Enqueued(d, <<e, m>>, h)
        IN  /\ Kept(x) /\ x.head = d.head /\ x.binding = d.binding /\ x.refused = d.refused
            /\ x.event[e].job = <<e, m>> /\ \A f \in Events : f # e => x.event[f] = d.event[f]
            /\ x.job[<<e, m>>].status # "absent"
            /\ d.job[<<e, m>>].status = "absent" => x.job[<<e, m>>].status = "queued"
            /\ \A k \in Jobs : k # <<e, m>> => x.job[k] = d.job[k]
  BY EnqueuedKeeps
<1> QED
  BY <1>1

LEMMA BuildKeeps ==
  ASSUME ValuesDiffer, NEW d, Kept(d), NEW e \in Events, NEW h \in DOMAIN d.head, NEW n, n = Version(d, h),
         MayEnqueue(d, e, n), NEW c, c = BuildEnqueued(d, e, h), Bounded(c)
  PROVE  /\ n \in 0 .. MaxVersions
         /\ Kept(c) /\ c.head = d.head /\ c.binding = d.binding /\ c.refused = d.refused
         /\ c.event[e].job = <<e, n>> /\ \A f \in Events : f # e => c.event[f] = d.event[f]
         /\ c.job[<<e, n>>].status # "absent"
         /\ d.job[<<e, n>>].status = "absent" => c.job[<<e, n>>].status = "queued"
         /\ \A k \in Jobs : k # <<e, n>> => c.job[k] = d.job[k]
<1>1. c = Enqueued(d, <<e, n>>, h)
  BY DEF BuildEnqueued
<1>2. c.head = d.head
  BY <1>1 DEF Enqueued, Kept, Typed
<1>3. n <= MaxVersions
  BY <1>2 DEF Bounded, Version
<1>4. n \in 0 .. MaxVersions
  BY <1>3, HeadsAre DEF Kept, ValuesDiffer
<1> QED
  BY <1>1, <1>4, EnqueuedLeaves

\* An event whose build is registered, and nothing else of it was there, ends with it.
LEMMA SavedAndBuilt ==
  ASSUME RequestsAreWellFormed, ValuesDiffer, IntakeInv, NEW e \in Events \ Links, NEW d0, Kept(d0), ~d0.refused,
         d0.job = db.job, \A f \in Events : f # e => d0.event[f] = db.event[f],
         NEW u \in Urls \cup {Null}, NEW b \in Bodies, NEW d, d = UserVersion(d0, e, u, b),
         Commit(e, BuildEnqueued(d, e, d.binding[e]))
  PROVE  IntakeInv'
<1> DEFINE h == d.binding[e]
           n == Version(d, h)
           c == BuildEnqueued(d, e, h)
<1>1. Kept(d) /\ d.event = d0.event /\ d.job = db.job /\ h \in DOMAIN d.head
  BY UserVersionKeeps
<1>2. Bounded(c)
  BY DEF Commit
<1>3. MayEnqueue(d, e, n)
  BY DEF MayEnqueue
<1>4. /\ n \in 0 .. MaxVersions /\ Kept(c)
      /\ c.event[e].job = <<e, n>> /\ \A f \in Events : f # e => c.event[f] = d.event[f]
      /\ c.job[<<e, n>>].status # "absent"
      /\ d.job[<<e, n>>].status = "absent" => c.job[<<e, n>>].status = "queued"
      /\ \A k \in Jobs : k # <<e, n>> => c.job[k] = d.job[k]
  <2> HIDE DEF h, n, c
  <2> QED
    BY <1>1, <1>2, <1>3, BuildKeeps DEF c, n
<1> HIDE DEF c, n, h
<1>5. \A f \in Events \ {e} : /\ c.event[f] = db.event[f]
                              /\ \A m \in 0 .. MaxVersions : c.job[<<f, m>>] = db.job[<<f, m>>]
  <2>1. \A f \in Events \ {e} : \A m \in 0 .. MaxVersions : <<f, m>> \in Jobs /\ <<f, m>> # <<e, n>>
    BY DEF Jobs
  <2> QED
    BY <1>1, <1>4, <2>1
<1>6. \A j \in Jobs : db.job[j].status # "absent" => c.job[j].status # "absent"
  BY <1>1, <1>4
<1>7. answer[e] = "none" => Ends(c, e)
  <2>1. answer[e] = "none" => db.job[<<e, n>>].status = "absent"
    BY <1>4 DEF IntakeInv, Unsent
  <2> QED
    BY <1>1, <1>4, <2>1 DEF Ends
<1> QED
  BY <1>4, <1>5, <1>6, <1>7, CommitKeeps DEF c, h

LEMMA ClippingKeeps ==
  ASSUME RequestsAreWellFormed, ValuesDiffer, IntakeInv, NEW e, SubmitWebClipping(e)
  PROVE  IntakeInv'
<1> DEFINE d0 == Received(db, e)
<1>1. e \in Events \ Links /\ UrlOf[e] \in Urls \cup {Null} /\ BodyOf[e] \in Bodies
  BY DEF SubmitWebClipping, RequestsAreWellFormed, Events
<1>2. Kept(db) /\ ~db.refused
  BY DEF IntakeInv
<1>3. Kept(d0) /\ ~d0.refused /\ d0.job = db.job /\ \A f \in Events : f # e => d0.event[f] = db.event[f]
  BY <1>1, <1>2, ReceivedKeeps
<1>4. Commit(e, BuildEnqueued(UserVersion(d0, e, UrlOf[e], BodyOf[e]), e, UserVersion(d0, e, UrlOf[e], BodyOf[e]).binding[e]))
  BY DEF SubmitWebClipping, SaveWebClipping
<1> HIDE DEF d0
<1> QED
  BY <1>1, <1>3, <1>4, SavedAndBuilt

LEMMA MarkKeeps ==
  ASSUME RequestsAreWellFormed, ValuesDiffer, IntakeInv, NEW e, SubmitContentMark(e)
  PROVE  IntakeInv'
<1> DEFINE d0 == Received(db, e)
           b == ReportOf[e][report[e]]
<1>1. e \in Events \ Links /\ Null \in Urls \cup {Null} /\ e \in Marks
  BY DEF SubmitContentMark, RequestsAreWellFormed, Events
<1>2. b \in Bodies
  <2>1. ReportOf[e] \in Seq(Bodies) /\ report[e] \in DOMAIN ReportOf[e]
    BY <1>1 DEF RequestsAreWellFormed, IntakeInv
  <2> QED
    BY <2>1
<1>3. Kept(db) /\ ~db.refused
  BY DEF IntakeInv
<1>4. Kept(d0) /\ ~d0.refused /\ d0.job = db.job /\ \A f \in Events : f # e => d0.event[f] = db.event[f]
  BY <1>1, <1>3, ReceivedKeeps
<1>5. Commit(e, BuildEnqueued(UserVersion(d0, e, Null, b), e, UserVersion(d0, e, Null, b).binding[e]))
  BY DEF SubmitContentMark, SaveContentMark
<1> HIDE DEF d0, b
<1> QED
  BY <1>1, <1>2, <1>4, <1>5, SavedAndBuilt

LEMMA NoteKeeps ==
  ASSUME RequestsAreWellFormed, ValuesDiffer, IntakeInv, NEW e, SubmitMcpSource(e)
  PROVE  IntakeInv'
<1> DEFINE d0 == Noted(db, e)
           d == UserVersion(d0, e, Null, BodyOf[e])
<1>1. e \in Events /\ Null \in Urls \cup {Null} /\ BodyOf[e] \in Bodies /\ Commit(e, d)
  BY DEF SubmitMcpSource, SaveMcpSubmission, RequestsAreWellFormed, Events
<1>2. Kept(db) /\ ~db.refused
  BY DEF IntakeInv
<1>3. /\ Kept(d0) /\ ~d0.refused /\ d0.job = db.job /\ d0.event[e].job = db.event[e].job
      /\ \A f \in Events : f # e => d0.event[f] = db.event[f]
  BY <1>1, <1>2, ReceivedKeeps
<1> HIDE DEF d0
<1>4. Kept(d) /\ d.event = d0.event /\ d.job = db.job
  BY <1>1, <1>3, UserVersionKeeps
<1>5. answer[e] = "none" => Ends(d, e)
  BY <1>1, <1>3, <1>4 DEF IntakeInv, Unsent, Ends
<1> HIDE DEF d
<1>6. e \in Events \cup Removals
  BY <1>1
<1> QED
  BY <1>1, <1>3, <1>4, <1>5, <1>6, CommitKeeps

LEMMA UrlKeeps ==
  ASSUME RequestsAreWellFormed, ValuesDiffer, IntakeInv, NEW e, SubmitUrlSource(e)
  PROVE  IntakeInv'
<1> DEFINE u == UrlOf[e]
           d1 == IF ByUrl(db, u) = {} THEN NewHead(db, u, u) ELSE db
           h == CHOOSE x \in ByUrl(d1, u) : TRUE
           d2 == Reopened(d1, e)
           c == Enqueued(d2, <<e, 0>>, h)
<1>1. e \in Links /\ e \in Events /\ u \in Urls /\ u # Null /\ Commit(e, c)
  BY DEF SubmitUrlSource, RegisterUrl, RequestsAreWellFormed, ValuesDiffer, Events
<1> HIDE DEF u
<1>2. Kept(db) /\ ~db.refused
  BY DEF IntakeInv
<1>3. Kept(d1) /\ ~d1.refused /\ d1.event = db.event /\ d1.job = db.job /\ h \in DOMAIN d1.head
  <2>1. CASE ByUrl(db, u) = {}
    <3>1. ByHash(db, u) = {}
      BY <1>1, <1>2, <2>1 DEF ByHash, ByUrl, Live, Kept, HashIs
    <3>2. /\ Kept(d1) /\ ~d1.refused /\ d1.event = db.event /\ d1.job = db.job /\ Len(d1.head) = Len(db.head) + 1
          /\ d1.head[Len(d1.head)] = [url |-> u, hash |-> u, live |-> TRUE, vers |-> <<>>]
      BY <1>1, <1>2, <2>1, <3>1, NewHeadKeeps
    <3>3. DOMAIN d1.head = 1 .. Len(d1.head) /\ Len(db.head) \in Nat
      BY <1>2, <3>2, HeadsAre DEF Kept
    <3> HIDE DEF d1
    <3>4. Len(d1.head) \in ByUrl(d1, u)
      BY <1>1, <3>2, <3>3 DEF ByUrl, Live
    <3>5. h \in ByUrl(d1, u)
      BY <3>4
    <3> QED
      BY <3>2, <3>5 DEF ByUrl, Live
  <2>2. CASE ByUrl(db, u) # {}
    <3>1. d1 = db /\ h \in ByUrl(db, u)
      BY <2>2
    <3> QED
      BY <1>2, <3>1 DEF ByUrl, Live
  <2> QED
    BY <2>1, <2>2
<1> HIDE DEF d1, h
<1>4. Kept(d2) /\ d2.head = d1.head /\ d2.job = db.job /\ \A f \in Events : f # e => d2.event[f] = db.event[f]
  BY <1>1, <1>3, ReceivedKeeps
<1> HIDE DEF d2
<1>5. 0 \in 0 .. MaxVersions /\ MayEnqueue(d2, e, 0) /\ h \in DOMAIN d2.head
  BY <1>3, <1>4 DEF ValuesDiffer, MayEnqueue
<1>6. /\ Kept(c) /\ c.event[e].job = <<e, 0>> /\ \A f \in Events : f # e => c.event[f] = d2.event[f]
      /\ c.job[<<e, 0>>].status # "absent"
      /\ d2.job[<<e, 0>>].status = "absent" => c.job[<<e, 0>>].status = "queued"
      /\ \A k \in Jobs : k # <<e, 0>> => c.job[k] = d2.job[k]
  <2> HIDE DEF c
  <2>1. c = Enqueued(d2, <<e, 0>>, h)
    BY DEF c
  <2>2. Kept(d2) /\ e \in Events
    BY <1>1, <1>4
  <2> QED
    BY <1>5, <2>1, <2>2, EnqueuedLeaves
<1> HIDE DEF c
<1>7. \A f \in Events \ {e} : /\ c.event[f] = db.event[f]
                              /\ \A m \in 0 .. MaxVersions : c.job[<<f, m>>] = db.job[<<f, m>>]
  <2>1. \A f \in Events \ {e} : \A m \in 0 .. MaxVersions : <<f, m>> \in Jobs /\ <<f, m>> # <<e, 0>>
    BY DEF Jobs
  <2> QED
    BY <1>4, <1>6, <2>1
<1>8. \A j \in Jobs : db.job[j].status # "absent" => c.job[j].status # "absent"
  BY <1>4, <1>6
<1>9. answer[e] = "none" => Ends(c, e)
  <2>1. answer[e] = "none" => db.job[<<e, 0>>].status = "absent"
    BY <1>1, <1>5 DEF IntakeInv, Unsent
  <2> QED
    BY <1>4, <1>6, <2>1 DEF Ends
<1>10. e \in Events \cup Removals
  BY <1>1
<1> QED
  BY <1>1, <1>6, <1>7, <1>8, <1>9, <1>10, CommitKeeps
\* A head that loses a binding is live while it has another one.
LEMMA UnboundKeeps ==
  ASSUME ValuesDiffer, NEW d, Kept(d), NEW e \in Events, d.binding[e] # 0
  PROVE  LET c == Unbound(d, e)
         IN  Kept(c) /\ c.event = d.event /\ c.job = d.job /\ c.refused = d.refused
<1> DEFINE h == d.binding[e]
           row == [d.head[h] EXCEPT !.live = @ /\ \E f \in Events \ {e} : d.binding[f] = h]
           c == [d EXCEPT !.binding = [d.binding EXCEPT ![e] = 0], !.head = [d.head EXCEPT ![h] = row]]
<1>1. /\ Typed(d) /\ d.head \in Seq(HeadRow) /\ Len(d.head) \in Nat /\ DOMAIN d.head = 1 .. Len(d.head)
      /\ \A x \in DOMAIN d.head : d.head[x] \in HeadRow
      /\ d.binding \in [Events -> Nat] /\ h \in DOMAIN d.head
  BY HeadsAre DEF Kept, Typed, BoundLive
<1>2. Unbound(d, e) = c
  BY <1>1 DEF Unbound, Typed
<1>3. /\ row \in HeadRow /\ row.url = d.head[h].url /\ row.hash = d.head[h].hash /\ row.vers = d.head[h].vers
      /\ row.live <=> d.head[h].live /\ \E f \in Events \ {e} : d.binding[f] = h
  <2>1. d.head[h] \in HeadRow
    BY <1>1
  <2>2. (d.head[h].live /\ \E f \in Events \ {e} : d.binding[f] = h) \in BOOLEAN
    OBVIOUS
  <2> QED
    BY <2>1, <2>2 DEF HeadRow
<1> HIDE DEF row
<1>4. /\ c.head = [d.head EXCEPT ![h] = row] /\ c.binding = [d.binding EXCEPT ![e] = 0]
      /\ c.event = d.event /\ c.job = d.job /\ c.refused = d.refused
  BY <1>1 DEF Typed
<1>5. /\ c.head \in Seq(HeadRow) /\ Len(c.head) = Len(d.head)
      /\ \A x \in 1 .. Len(d.head) : c.head[x] = IF x = h THEN row ELSE d.head[x]
  BY <1>1, <1>3, <1>4, ExceptSeq
<1>6. Typed(c)
  BY <1>1, <1>4, <1>5 DEF Typed
<1>7. c.binding[e] = 0 /\ \A f \in Events : f # e => c.binding[f] = d.binding[f]
  BY <1>1, <1>4
<1> HIDE DEF c
<1>8. /\ DOMAIN c.head = DOMAIN d.head
      /\ \A x \in DOMAIN d.head : /\ c.head[x].url = d.head[x].url /\ c.head[x].hash = d.head[x].hash
                                  /\ c.head[x].vers = d.head[x].vers
                                  /\ c.head[x].live <=> d.head[x].live /\ (x = h => \E f \in Events \ {e} : d.binding[f] = h)
  BY <1>1, <1>3, <1>5, <1>6, HeadsAre
<1>9. Pointed(c)
  BY <1>1, <1>4, <1>5, <1>7 DEF Kept, Pointed
<1>10. ~c.refused => OneHead(c)
  BY <1>4, <1>8 DEF Kept, OneHead
<1>11. HashIs(c)
  BY <1>8 DEF Kept, HashIs
<1>12. BoundLive(c)
  <2> SUFFICES ASSUME NEW f \in Events, c.binding[f] # 0
               PROVE  c.binding[f] \in DOMAIN c.head /\ c.head[c.binding[f]].live /\ c.head[c.binding[f]].vers # <<>>
    BY DEF BoundLive
  <2>1. f # e /\ c.binding[f] = d.binding[f]
    BY <1>7
  <2>2. d.binding[f] \in DOMAIN d.head /\ d.head[d.binding[f]].live /\ d.head[d.binding[f]].vers # <<>>
    BY <2>1 DEF Kept, BoundLive
  <2> QED
    BY <1>8, <2>1, <2>2
<1>13. OwnJob(c)
  BY <1>4 DEF Kept, OwnJob
<1>14. LinkJobs(c)
  <2>1. \A x \in DOMAIN d.head : Version(c, x) = Version(d, x)
    BY <1>8 DEF Version
  <2>2. LinkJobs(d)
    BY DEF Kept
  <2> SUFFICES ASSUME NEW f \in Links
               PROVE  /\ c.job[<<f, 0>>].status # "absent" => c.job[<<f, 0>>].head \in DOMAIN c.head
                      /\ \A m \in 1 .. MaxVersions : c.job[<<f, m>>].status # "absent" =>
                           c.job[<<f, 0>>].status # "absent" /\ m <= Version(c, c.job[<<f, 0>>].head)
    BY DEF LinkJobs
  <2>3. /\ d.job[<<f, 0>>].status # "absent" => d.job[<<f, 0>>].head \in DOMAIN d.head
        /\ \A m \in 1 .. MaxVersions : d.job[<<f, m>>].status # "absent" =>
             d.job[<<f, 0>>].status # "absent" /\ m <= Version(d, d.job[<<f, 0>>].head)
    BY <2>2 DEF LinkJobs
  <2> QED
    BY <1>4, <1>8, <2>1, <2>3
<1> QED
  BY <1>2, <1>4, <1>6, <1>9, <1>10, <1>11, <1>12, <1>13, <1>14 DEF Kept

LEMMA DeleteKeeps ==
  ASSUME RequestsAreWellFormed, ValuesDiffer, IntakeInv, NEW r \in Removals, DeleteContentMark(r)
  PROVE  IntakeInv'
<1> DEFINE e == MarkOf[r]
           k == <<r, 0>>
           d == Unbound(db, e)
           row == [db.job[k] EXCEPT !.status = "queued"]
           c == [d EXCEPT !.job[k] = row]
<1>1. e \in Events /\ r \notin Events /\ r \in Events \cup Removals /\ k \in Jobs /\ k \in Removals \X {0}
  BY DEF RequestsAreWellFormed, Events, Jobs
<1>2. Kept(db) /\ db.job \in [Jobs -> JobRow]
  BY DEF IntakeInv, Kept, Typed
<1>3. CASE db.job[k].status # "absent"
  <2>1. Commit(r, db)
    BY <1>3 DEF DeleteContentMark
  <2> QED
    BY <1>1, <1>2, <2>1, CommitKeeps
<1>4. CASE db.job[k].status = "absent" /\ db.binding[e] = 0
  <2>1. answer' = [answer EXCEPT ![r] = "not found"] /\ UNCHANGED <<db, report, fetcher, again>>
    BY <1>4 DEF DeleteContentMark
  <2>2. answer' \in [Events \cup Removals -> {"none", "accepted", "error", "not found"}]
        /\ \A f \in Events : answer'[f] = answer[f]
    BY <1>1, <2>1 DEF IntakeInv
  <2>3. SlotsWork'
    BY <2>1 DEF IntakeInv, SlotsWork
  <2> QED
    BY <2>1, <2>2, <2>3 DEF IntakeInv
<1>5. CASE db.job[k].status = "absent" /\ db.binding[e] # 0
  <2>1. Kept(d) /\ d.event = db.event /\ d.job = db.job
    BY <1>1, <1>2, <1>5, UnboundKeeps
  <2>2. Commit(r, [d EXCEPT !.job[k].status = "queued"])
    BY <1>5 DEF DeleteContentMark
  <2> HIDE DEF d
  <2>3. Commit(r, c)
    <3>1. [d EXCEPT !.job[k].status = "queued"] = c
      BY <2>1
    <3> QED
      BY <2>2, <3>1
  <2>4. row \in JobRow /\ row.status = "queued" /\ row.head = d.job[k].head
    BY <1>1, <1>2, <2>1 DEF JobRow
  <2> HIDE DEF row
  <2>5. Kept(c) /\ c.event = d.event /\ c.job[k] = row /\ \A i \in Jobs : i # k => c.job[i] = d.job[i]
    BY <1>1, <2>1, <2>4, JobKeeps
  <2> HIDE DEF c
  <2>6. \A f \in Events \ {r} : c.event[f] = db.event[f] /\ \A n \in 0 .. MaxVersions : c.job[<<f, n>>] = db.job[<<f, n>>]
    <3>1. \A f \in Events : \A n \in 0 .. MaxVersions : <<f, n>> \in Jobs /\ <<f, n>> # k
      BY <1>1 DEF Jobs
    <3> QED
      BY <2>1, <2>5, <3>1
  <2>7. \A j \in Jobs : db.job[j].status # "absent" => c.job[j].status # "absent"
    BY <2>1, <2>4, <2>5
  <2> QED
    BY <1>1, <2>3, <2>5, <2>6, <2>7, CommitKeeps
<1> QED
  BY <1>3, <1>4, <1>5

LEMMA ReviseKeeps ==
  ASSUME RequestsAreWellFormed, IntakeInv, NEW e \in Marks, ReviseReport(e)
  PROVE  IntakeInv'
<1>1. report[e] < Len(ReportOf[e]) /\ report' = [report EXCEPT ![e] = @ + 1] /\ UNCHANGED <<db, fetcher, answer, again>>
  BY DEF ReviseReport
<1>2. report' \in [Marks -> Nat] /\ \A f \in Marks : report'[f] \in DOMAIN ReportOf[f]
  <2>1. ReportOf[e] \in Seq(Bodies) /\ report \in [Marks -> Nat] /\ \A f \in Marks : report[f] \in DOMAIN ReportOf[f]
    BY DEF RequestsAreWellFormed, IntakeInv
  <2>2. report'[e] = report[e] + 1 /\ report[e] + 1 \in DOMAIN ReportOf[e]
    BY <1>1, <2>1
  <2> QED
    BY <1>1, <2>1, <2>2
<1>3. SlotsWork'
  BY <1>1 DEF IntakeInv, SlotsWork
<1> QED
  BY <1>1, <1>2, <1>3 DEF IntakeInv
LEMMA ClaimUrlKeeps ==
  ASSUME RequestsAreWellFormed, ValuesDiffer, IntakeInv, NEW w \in Slots, NEW e \in Links, ClaimUrlJob(w, e)
  PROVE  IntakeInv'
<1> DEFINE k == <<e, 0>>
           r == [db.job[k] EXCEPT !.status = "running", !.owner = w]
<1>1. /\ db.job[k].status \in {"queued", "running"}
      /\ db' = Linked([db EXCEPT !.job[k].status = "running", !.job[k].owner = w], k, "processing")
      /\ fetcher' = [fetcher EXCEPT ![w] = [step |-> "claimed", job |-> k, body |-> Null]]
      /\ UNCHANGED <<report, answer, again>>
  BY DEF ClaimUrlJob
<1>2. k \in Jobs /\ db.job \in [Jobs -> JobRow] /\ Typed(db) /\ fetcher \in [Slots -> FetcherRow]
  <2>1. k \in Jobs
    BY DEF Jobs, Events, ValuesDiffer
  <2>2. Typed(db) /\ fetcher \in [Slots -> FetcherRow]
    BY DEF IntakeInv, Kept, FetcherRow
  <2> QED
    BY <2>1, <2>2 DEF Typed
<1>3. r \in JobRow /\ r.status = "running" /\ r.head = db.job[k].head
  BY <1>2 DEF JobRow
<1>4. [db EXCEPT !.job[k].status = "running", !.job[k].owner = w] = [db EXCEPT !.job[k] = r]
  BY <1>2 DEF Typed, JobRow
<1>5. "processing" \in EventStatuses
  BY DEF EventStatuses
<1> HIDE DEF r
<1>6. Carried(db')
  BY <1>1, <1>2, <1>3, <1>4, <1>5, JobStepKeeps
<1>7. fetcher' \in [Slots -> FetcherRow]
  BY <1>1, <1>2 DEF FetcherRow
<1>8. ASSUME NEW v \in Slots PROVE SlotKeeps(v) /\ (fetcher'[v].step = "fetched" => fetcher'[v].body # Null)
  <2>1. CASE v = w
    <3>1. fetcher'[v].step = "claimed" /\ fetcher'[v].job = k
      BY <1>1, <1>2, <2>1
    <3> QED
      BY <1>1, <3>1 DEF SlotKeeps
  <2>2. CASE v # w
    <3>1. fetcher'[v] = fetcher[v]
      BY <1>1, <1>2, <2>2
    <3> QED
      BY <3>1 DEF SlotKeeps, IntakeInv
  <2> QED
    BY <2>1, <2>2
<1> QED
  BY <1>1, <1>6, <1>7, <1>8, CarriedKeeps

\* A slot that goes on with its job or is idle, whatever it does to the tables.
LEMMA SlotStepKeeps ==
  ASSUME ValuesDiffer, IntakeInv, Carried(db'), UNCHANGED <<report, answer, again>>, NEW w \in Slots, NEW r \in FetcherRow,
         fetcher' = [fetcher EXCEPT ![w] = r],
         r.step # "idle" => fetcher[w].step # "idle" /\ r.job = fetcher[w].job,
         r.step = "fetched" => r.body # Null
  PROVE  IntakeInv'
<1>1. fetcher \in [Slots -> FetcherRow]
  BY DEF IntakeInv, FetcherRow
<1>2. fetcher' \in [Slots -> FetcherRow] /\ fetcher'[w] = r /\ \A v \in Slots : v # w => fetcher'[v] = fetcher[v]
  BY <1>1
<1>3. ASSUME NEW v \in Slots PROVE SlotKeeps(v) /\ (fetcher'[v].step = "fetched" => fetcher'[v].body # Null)
  BY <1>2 DEF SlotKeeps, IntakeInv
<1> QED
  BY <1>2, <1>3, CarriedKeeps

LEMMA FetchKeeps ==
  ASSUME RequestsAreWellFormed, ValuesDiffer, IntakeInv, NEW w \in Slots, FetchUrl(w)
  PROVE  IntakeInv'
<1>1. PICK b \in Bodies \cup {Unreadable} : fetcher' = [fetcher EXCEPT ![w].step = "fetched", ![w].body = b]
  BY DEF FetchUrl
<1> DEFINE r == [fetcher[w] EXCEPT !.step = "fetched", !.body = b]
<1>2. fetcher[w] \in FetcherRow /\ b # Null /\ fetcher \in [Slots -> FetcherRow]
  BY DEF IntakeInv, FetcherRow, ValuesDiffer
<1>3. r \in FetcherRow /\ r.step = "fetched" /\ r.job = fetcher[w].job /\ r.body = b
  BY <1>2 DEF FetcherRow
<1>4. fetcher' = [fetcher EXCEPT ![w] = r]
  BY <1>1, <1>2 DEF FetcherRow
<1>5. fetcher[w].step # "idle" /\ UNCHANGED <<db, report, answer, again>>
  BY DEF FetchUrl
<1>6. Carried(db')
  BY <1>5, DbCarried
<1> HIDE DEF r
<1> QED
  BY <1>2, <1>3, <1>4, <1>5, <1>6, SlotStepKeeps

LEMMA WhatSlotHolds ==
  ASSUME ValuesDiffer, IntakeInv, NEW w \in Slots, fetcher[w].step # "idle"
  PROVE  \E e \in Links : /\ e \in Events /\ fetcher[w].job = <<e, 0>> /\ fetcher[w].job[1] = e /\ <<e, 0>> \in Jobs
                          /\ db.job[<<e, 0>>].status # "absent" /\ db.job[<<e, 0>>].head \in DOMAIN db.head
                          /\ answer[e] # "none"
<1>1. PICK e \in Links : fetcher[w].job = <<e, 0>> /\ db.job[<<e, 0>>].status # "absent"
  BY DEF IntakeInv, SlotsWork
<1>2. <<e, 0>> \in Jobs /\ e \in Events /\ 0 \in 0 .. MaxVersions
  BY DEF Jobs, Events, ValuesDiffer
<1>3. db.job[<<e, 0>>].head \in DOMAIN db.head
  BY <1>1 DEF IntakeInv, Kept, LinkJobs
<1>4. answer[e] # "none"
  BY <1>1, <1>2 DEF IntakeInv, Unsent
<1> QED
  BY <1>1, <1>2, <1>3, <1>4

LEMMA SaveFetchedKeeps ==
  ASSUME RequestsAreWellFormed, ValuesDiffer, IntakeInv, NEW w \in Slots, SaveFetchedUrl(w)
  PROVE  IntakeInv'
<1> DEFINE b == fetcher[w].body
           h == db.job[fetcher[w].job].head
           r == [fetcher[w] EXCEPT !.step = "saved"]
<1>1. /\ fetcher[w].step = "fetched" /\ b # Unreadable /\ Bounded(FetchedSaved(w)) /\ ~FetchedSaved(w).refused
      /\ db' = FetchedSaved(w) /\ fetcher' = [fetcher EXCEPT ![w].step = "saved"] /\ UNCHANGED <<report, answer, again>>
  BY DEF SaveFetchedUrl
<1>2. PICK e \in Links : /\ e \in Events /\ fetcher[w].job = <<e, 0>> /\ fetcher[w].job[1] = e /\ <<e, 0>> \in Jobs
                         /\ db.job[<<e, 0>>].status # "absent" /\ db.job[<<e, 0>>].head \in DOMAIN db.head
                         /\ answer[e] # "none"
  BY <1>1, WhatSlotHolds
<1>3. fetcher \in [Slots -> FetcherRow] /\ fetcher[w] \in FetcherRow /\ b \in Bodies
  BY <1>1 DEF IntakeInv, FetcherRow
<1>4. r \in FetcherRow /\ r.step = "saved" /\ r.job = fetcher[w].job /\ fetcher' = [fetcher EXCEPT ![w] = r]
  BY <1>1, <1>3 DEF FetcherRow
<1>5. Kept(db) /\ ~db.refused /\ h \in DOMAIN db.head
  BY <1>2 DEF IntakeInv
<1> HIDE DEF b, h, r
<1>6. Carried(db')
  <2>1. CASE Latest(db, h) = b
    <3>1. db' = [db EXCEPT !.event[e].status = "completed"]
      BY <1>1, <1>2, <2>1 DEF FetchedSaved, b, h
    <3>2. "completed" \in EventStatuses
      BY DEF EventStatuses
    <3>3. /\ Kept(db') /\ db'.head = db.head /\ db'.job = db.job /\ db'.refused = db.refused
          /\ db'.event[e].status = "completed" /\ \A f \in Events : f # e => db'.event[f] = db.event[f]
      BY <1>2, <1>5, <3>1, <3>2, StatusKeeps
    <3>4. Bounded(db') /\ ~db'.refused
      BY <1>1
    <3>5. \A f \in Events : answer[f] = "none" => Unsent(db', f)
      <4> SUFFICES ASSUME NEW f \in Events, answer[f] = "none" PROVE Unsent(db', f)
        OBVIOUS
      <4>1. f # e /\ Unsent(db, f)
        BY <1>2 DEF IntakeInv
      <4> QED
        BY <3>3, <4>1 DEF Unsent
    <3>6. \A f \in Events \ again : Ends(db', f)
      BY <3>3 DEF IntakeInv, Ends
    <3> QED
      BY <3>3, <3>4, <3>5, <3>6 DEF Carried
  <2>2. CASE Latest(db, h) # b
    <3> DEFINE d == Changed(db, h, e, b)
               n == Version(d, h)
    <3>1. db' = BuildEnqueued(d, e, h)
      BY <1>1, <1>2, <2>2 DEF FetchedSaved, b, h
    <3>2. /\ Kept(d) /\ d.event = db.event /\ d.job = db.job /\ Len(d.head) = Len(db.head) /\ n = Version(db, h) + 1
      BY <1>2, <1>3, <1>5, <2>2, ChangedKeeps
    <3> HIDE DEF d
    <3>3. h \in DOMAIN d.head /\ Version(db, h) \in Nat
      BY <1>5, <3>2, HeadsAre DEF Kept
    <3> HIDE DEF n
    <3>4. MayEnqueue(d, e, n) /\ n = Version(d, h)
      <4>1. n = Version(d, h)
        BY DEF n
      <4>2. d.job[<<e, 0>>].status # "absent" /\ d.job[<<e, 0>>].head = h
        BY <1>2, <3>2 DEF h
      <4>3. n <= Version(d, h)
        BY <3>2, <3>3, <4>1
      <4> QED
        BY <4>1, <4>2, <4>3 DEF MayEnqueue
    <3>5. /\ n \in 0 .. MaxVersions
          /\ Kept(db') /\ db'.event[e].job = <<e, n>> /\ \A f \in Events : f # e => db'.event[f] = d.event[f]
          /\ db'.job[<<e, n>>].status # "absent"
          /\ d.job[<<e, n>>].status = "absent" => db'.job[<<e, n>>].status = "queued"
          /\ \A k \in Jobs : k # <<e, n>> => db'.job[k] = d.job[k]
      BY <1>1, <1>2, <3>1, <3>2, <3>3, <3>4, BuildKeeps
    <3>6. db.job[<<e, n>>].status = "absent"
      <4>1. n \in 1 .. MaxVersions /\ ~(n <= Version(db, h))
        BY <3>2, <3>3, <3>5
      <4>2. LinkJobs(db)
        BY <1>5 DEF Kept
      <4> QED
        BY <1>2, <4>1, <4>2 DEF LinkJobs, h
    <3>7. \A f \in Events : answer[f] = "none" => Unsent(db', f)
      <4> SUFFICES ASSUME NEW f \in Events, answer[f] = "none" PROVE Unsent(db', f)
        OBVIOUS
      <4>1. f # e /\ Unsent(db, f)
        BY <1>2 DEF IntakeInv
      <4>2. \A m \in 0 .. MaxVersions : <<f, m>> \in Jobs /\ <<f, m>> # <<e, n>>
        BY <4>1 DEF Jobs
      <4> QED
        BY <3>2, <3>5, <4>1, <4>2 DEF Unsent
    <3>8. \A f \in Events \ again : Ends(db', f)
      <4> SUFFICES ASSUME NEW f \in Events \ again PROVE Ends(db', f)
        OBVIOUS
      <4>1. CASE f = e
        BY <3>2, <3>5, <3>6, <4>1 DEF Ends
      <4>2. CASE f # e
        <5>1. db'.event[f] = db.event[f] /\ Ends(db, f)
          BY <3>2, <3>5, <4>2 DEF IntakeInv
        <5>2. CASE db.event[f].job = Null
          BY <5>1, <5>2 DEF Ends
        <5>3. CASE db.event[f].job # Null
          <6>1. db.event[f].job \in {f} \X (0 .. MaxVersions)
            BY <1>5, <5>3 DEF Kept, OwnJob
          <6>2. db.event[f].job # <<e, n>> /\ db.event[f].job \in Jobs
            BY <4>2, <6>1 DEF Jobs
          <6> QED
            BY <3>2, <3>5, <5>1, <6>2 DEF Ends
        <5> QED
          BY <5>2, <5>3
      <4> QED
        BY <4>1, <4>2
    <3>9. \A j \in Jobs : db.job[j].status # "absent" => db'.job[j].status # "absent"
      BY <3>2, <3>5
    <3> QED
      BY <1>1, <3>5, <3>7, <3>8, <3>9 DEF Carried
  <2> QED
    BY <2>1, <2>2
<1> QED
  BY <1>1, <1>4, <1>6, SlotStepKeeps

\* A slot that ends its job, or finds it taken from it.
LEMMA SlotEndKeeps ==
  ASSUME RequestsAreWellFormed, ValuesDiffer, IntakeInv, NEW w \in Slots, fetcher[w].step # "idle",
         NEW s \in {"completed", "failed"}, db' = (IF Owned(w) THEN Ended(fetcher[w].job, s) ELSE db),
         fetcher' = [fetcher EXCEPT ![w] = IdleSlot], UNCHANGED <<report, answer, again>>
  PROVE  IntakeInv'
<1>1. fetcher[w].job \in Jobs /\ db.job[fetcher[w].job].status # "absent"
  BY WhatSlotHolds
<1>2. Carried(db')
  <2>1. CASE Owned(w)
    BY <1>1, <2>1, EndedCarried
  <2>2. CASE ~Owned(w)
    BY <2>2, DbCarried
  <2> QED
    BY <2>1, <2>2
<1>3. IdleSlot \in FetcherRow /\ IdleSlot.step = "idle"
  BY DEF IdleSlot, FetcherRow
<1> QED
  BY <1>2, <1>3, SlotStepKeeps

LEMMA BuildStepKeeps ==
  ASSUME RequestsAreWellFormed, ValuesDiffer, IntakeInv, NEW k \in Jobs, StartBuild(k) \/ EndBuild(k)
  PROVE  IntakeInv'
<1>1. UNCHANGED <<report, fetcher, answer, again>> /\ db.job[k].status # "absent"
  BY DEF StartBuild, EndBuild
<1>2. Carried(db')
  <2>1. CASE StartBuild(k)
    <3> DEFINE r == [db.job[k] EXCEPT !.status = "running"]
    <3>1. db.job \in [Jobs -> JobRow] /\ Typed(db)
      BY DEF IntakeInv, Kept, Typed
    <3>2. r \in JobRow /\ r.status = "running" /\ r.head = db.job[k].head
      BY <3>1 DEF JobRow
    <3>3. db' = Linked([db EXCEPT !.job[k] = r], k, "processing")
      BY <2>1 DEF StartBuild
    <3>4. "processing" \in EventStatuses
      BY DEF EventStatuses
    <3> HIDE DEF r
    <3> QED
      BY <1>1, <3>2, <3>3, <3>4, JobStepKeeps
  <2>2. CASE EndBuild(k)
    <3>1. PICK s \in {"completed", "failed"} : db' = Ended(k, s)
      BY <2>2 DEF EndBuild
    <3> QED
      BY <1>1, <3>1, EndedCarried
  <2> QED
    BY <2>1, <2>2
<1>3. fetcher' \in [Slots -> FetcherRow] /\ \A w \in Slots : SlotKeeps(w) /\ (fetcher'[w].step = "fetched" => fetcher'[w].body # Null)
  BY <1>1 DEF IntakeInv, FetcherRow, SlotKeeps
<1> QED
  BY <1>1, <1>2, <1>3, CarriedKeeps

LEMMA ReapUrlKeeps ==
  ASSUME RequestsAreWellFormed, ValuesDiffer, IntakeInv, NEW e \in Links, ReapUrlJob(e)
  PROVE  IntakeInv'
<1>1. db.job[<<e, 0>>].status = "running" /\ db' = Ended(<<e, 0>>, "failed") /\ UNCHANGED <<report, fetcher, answer, again>>
  BY DEF ReapUrlJob
<1>2. <<e, 0>> \in Jobs
  BY DEF Jobs, Events, ValuesDiffer
<1>3. Carried(db')
  BY <1>1, <1>2, EndedCarried
<1>4. fetcher' \in [Slots -> FetcherRow] /\ \A w \in Slots : SlotKeeps(w) /\ (fetcher'[w].step = "fetched" => fetcher'[w].body # Null)
  BY <1>1 DEF IntakeInv, FetcherRow, SlotKeeps
<1> QED
  BY <1>1, <1>3, <1>4, CarriedKeeps
-----------------------------------------------------------------------------
(* Intake: theorems.                                                       *)

LEMMA IntakeStarts ==
  ASSUME RequestsAreWellFormed, ValuesDiffer, IntakeInit
  PROVE  IntakeInv
<1>1. db = [head |-> <<>>,
            event |-> [e \in Events |-> [status |-> "absent", job |-> Null]],
            binding |-> [e \in Events |-> 0],
            job |-> [k \in Jobs |-> [status |-> "absent", head |-> 0, owner |-> Null]],
            refused |-> FALSE]
  BY DEF IntakeInit
<1>2. /\ db.head = <<>> /\ db.head \in Seq(HeadRow) /\ Len(db.head) = 0 /\ ~db.refused
      /\ \A e \in Events : db.event[e] = [status |-> "absent", job |-> Null] /\ db.binding[e] = 0
      /\ \A k \in Jobs : db.job[k] = [status |-> "absent", head |-> 0, owner |-> Null]
  BY <1>1, EmptySeq
<1>3. Typed(db)
  BY <1>1, <1>2 DEF Typed, EventRow, JobRow
<1>4. Pointed(db) /\ BoundLive(db) /\ OwnJob(db) /\ \A e \in Events : Ends(db, e)
  BY <1>2 DEF Pointed, BoundLive, OwnJob, Ends
<1>5. OneHead(db) /\ HashIs(db) /\ Bounded(db)
  BY <1>2 DEF OneHead, HashIs, Bounded, ValuesDiffer
<1>6. \A e \in Events : \A n \in 0 .. MaxVersions : db.job[<<e, n>>].status = "absent"
  BY <1>2 DEF Jobs
<1>7. LinkJobs(db) /\ \A e \in Events : Unsent(db, e)
  <2>1. Links \subseteq Events /\ 0 \in 0 .. MaxVersions /\ 1 .. MaxVersions \subseteq 0 .. MaxVersions
    BY DEF Events, ValuesDiffer
  <2> QED
    BY <1>2, <1>6, <2>1 DEF LinkJobs, Unsent
<1>8. \A e \in Marks : report[e] \in DOMAIN ReportOf[e]
  BY DEF IntakeInit, RequestsAreWellFormed
<1>9. \A w \in Slots : fetcher[w] = IdleSlot
  BY DEF IntakeInit
<1>10. SlotsWork /\ \A w \in Slots : fetcher[w].step = "fetched" => fetcher[w].body # Null
  BY <1>9 DEF SlotsWork, IdleSlot
<1>11. /\ report \in [Marks -> Nat]
       /\ fetcher \in [Slots -> [step : {"idle", "claimed", "fetched", "saved"}, job : Jobs \cup {Null},
                                 body : Bodies \cup {Unreadable, Null}]]
       /\ answer \in [Events \cup Removals -> {"none", "accepted", "error", "not found"}]
       /\ again = {}
  BY DEF IntakeInit, IdleSlot
<1> QED
  BY <1>2, <1>3, <1>4, <1>5, <1>7, <1>8, <1>10, <1>11 DEF IntakeInv, Kept

LEMMA IntakeSteps ==
  ASSUME RequestsAreWellFormed, ValuesDiffer, IntakeInv, [IntakeNext]_intakeVars
  PROVE  IntakeInv'
<1>1. CASE \E e \in Events : \/ SubmitWebClipping(e) \/ SubmitContentMark(e)
                             \/ SubmitMcpSource(e) \/ SubmitUrlSource(e)
  BY <1>1, ClippingKeeps, MarkKeeps, NoteKeeps, UrlKeeps
<1>2. CASE \E r \in Removals : DeleteContentMark(r)
  BY <1>2, DeleteKeeps
<1>3. CASE \E e \in Marks : ReviseReport(e)
  BY <1>3, ReviseKeeps
<1>4. ASSUME NEW w \in Slots, NEW e \in Links, ClaimUrlJob(w, e) PROVE IntakeInv'
  BY <1>4, ClaimUrlKeeps
<1>5. ASSUME NEW w \in Slots, FetchUrl(w) PROVE IntakeInv'
  BY <1>5, FetchKeeps
<1>6. ASSUME NEW w \in Slots, SaveFetchedUrl(w) PROVE IntakeInv'
  BY <1>6, SaveFetchedKeeps
<1>7. ASSUME NEW w \in Slots, CompleteUrlJob(w) PROVE IntakeInv'
  <2>1. fetcher[w].step # "idle" /\ fetcher' = [fetcher EXCEPT ![w] = IdleSlot] /\ UNCHANGED <<report, answer, again>>
        /\ db' = IF Owned(w) THEN Ended(fetcher[w].job, "completed") ELSE db
    BY <1>7 DEF CompleteUrlJob
  <2> QED
    BY <2>1, SlotEndKeeps
<1>8. ASSUME NEW w \in Slots, FailUrlJob(w) PROVE IntakeInv'
  <2>1. fetcher[w].step # "idle" /\ fetcher' = [fetcher EXCEPT ![w] = IdleSlot] /\ UNCHANGED <<report, answer, again>>
        /\ db' = IF Owned(w) THEN Ended(fetcher[w].job, "failed") ELSE db
    BY <1>8 DEF FailUrlJob
  <2> QED
    BY <2>1, SlotEndKeeps
<1>9. ASSUME NEW w \in Slots, VanishFetcher(w) PROVE IntakeInv'
  <2>1. fetcher' = [fetcher EXCEPT ![w] = IdleSlot] /\ UNCHANGED <<report, answer, again>> /\ db' = db
    BY <1>9 DEF VanishFetcher
  <2>2. Carried(db') /\ IdleSlot \in FetcherRow /\ IdleSlot.step = "idle"
    BY <2>1, DbCarried DEF IdleSlot, FetcherRow
  <2> QED
    BY <2>1, <2>2, SlotStepKeeps
<1>10. CASE \E k \in Jobs : StartBuild(k) \/ EndBuild(k)
  BY <1>10, BuildStepKeeps
<1>11. CASE \E e \in Links : ReapUrlJob(e)
  BY <1>11, ReapUrlKeeps
<1>12. CASE UNCHANGED intakeVars
  <2>1. db' = db /\ UNCHANGED <<report, fetcher, answer, again>>
    BY <1>12 DEF intakeVars
  <2>2. SlotsWork'
    BY <2>1 DEF IntakeInv, SlotsWork
  <2> QED
    BY <2>1, <2>2 DEF IntakeInv
<1> QED
  BY <1>1, <1>2, <1>3, <1>4, <1>5, <1>6, <1>7, <1>8, <1>9, <1>10, <1>11, <1>12 DEF IntakeNext

LEMMA IntakeInvSuffices ==
  ASSUME RequestsAreWellFormed, ValuesDiffer, IntakeInv
  PROVE  SourcesAreTracked
<1>1. Kept(db) /\ ~db.refused /\ Bounded(db) /\ Typed(db)
  BY DEF IntakeInv, Kept
<1>2. DOMAIN db.head = 1 .. Len(db.head) /\ Len(db.head) \in Nat
      /\ \A h \in DOMAIN db.head : db.head[h].vers # <<>> <=> Version(db, h) > 0
  BY <1>1, HeadsAre
<1>3. db \in Tables
  <2>1. Len(db.head) <= MaxHeads /\ MaxHeads \in Nat
    BY <1>1 DEF Bounded, ValuesDiffer
  <2>2. db.binding \in [Events -> 0 .. MaxHeads]
    BY <1>1, <1>2, <2>1 DEF Kept, Pointed, Typed
  <2>3. db.job \in [Jobs -> [status : {"absent", "queued", "running", "completed", "failed"},
                             head : 0 .. MaxHeads, owner : Slots \cup {Null}]]
    <3>1. db.job \in [Jobs -> JobRow] /\ \A k \in Jobs : db.job[k].head <= Len(db.head)
      BY <1>1 DEF Kept, Pointed, Typed
    <3>2. \A k \in Jobs : db.job[k] \in [status : {"absent", "queued", "running", "completed", "failed"},
                                         head : 0 .. MaxHeads, owner : Slots \cup {Null}]
      BY <1>2, <2>1, <3>1 DEF JobRow
    <3> QED
      BY <3>1, <3>2
  <2> QED
    BY <1>1, <2>2, <2>3 DEF Typed, Tables, HeadRow, EventRow
<1>4. \A h \in Live(db) : /\ ByHash(db, db.head[h].hash) = {h}
                          /\ db.head[h].url # Null => ByUrl(db, db.head[h].url) = {h}
  BY <1>1 DEF Kept, OneHead, ByHash, ByUrl, Live
<1>5. BoundHeadIsLive
  BY <1>1, <1>2 DEF Kept, BoundLive, BoundHeadIsLive, Live
<1>6. EventEndsWithJob
  BY DEF IntakeInv, Ends, EventEndsWithJob
<1>7. IntakeTypeOK
  BY <1>1, <1>3, <1>4 DEF IntakeInv, IntakeTypeOK
<1> QED
  BY <1>5, <1>6, <1>7 DEF SourcesAreTracked

\* Live heads differ in URL and hash, a build of a URL is of a version its head has and
\* comes after the job of the URL, and an event is linked to a job of its own: within a
\* transaction too, up to the statement an index refuses (source_ingestion.py:110-283,
\* 1085-1205; jobs.py:1290-1350).
THEOREM IntakeInvariant ==
  ASSUME RequestsAreWellFormed, ValuesDiffer
  PROVE  IntakeSpec => []IntakeInv
<1>1. IntakeInit => IntakeInv
  BY IntakeStarts
<1>2. IntakeInv /\ [IntakeNext]_intakeVars => IntakeInv'
  BY IntakeSteps
<1> QED
  BY <1>1, <1>2, PTL DEF IntakeSpec

\* Stored sources hang on live heads with a body, no two live heads share a URL or a
\* hash, and the event of a request delivered once ends with the job it is linked to,
\* for any requests, bodies and slots and whatever the order of deliveries, removals,
\* lost leases and builds (source_ingestion.py:248-281, 1000-1021, 1188-1194; jobs.py:757-763).
THEOREM SourcesTracked ==
  ASSUME RequestsAreWellFormed, ValuesDiffer
  PROVE  IntakeSpec => []SourcesAreTracked
<1>1. IntakeInv => SourcesAreTracked
  BY IntakeInvSuffices
<1> QED
  BY <1>1, IntakeInvariant, PTL

-----------------------------------------------------------------------------
(* Sums and products over a finite set.                                    *)

\* Of sets of subsets of a finite set, one has no smaller one inside.
LEMMA SmallestOf ==
  ASSUME NEW S, IsFiniteSet(S), NEW T, T \subseteq SUBSET S, T # {}
  PROVE  \E X \in T : \A Y \in T : Y \subseteq X => Y = X
<1>1. T \subseteq FiniteSubsetsOf(S)
  BY FS_FiniteSubsetsOfFinite
<1>2. PICK X \in T : \A Y \in T : ~ (<<Y, X>> \in StrictSubsetOrdering(S))
  BY <1>1, FS_StrictSubsetOrderingWellFounded, WFMin
<1> QED
  BY <1>2 DEF StrictSubsetOrdering

\* What the folds of the model recur on: a function on the sets of D that adds, or
\* multiplies, the values of f.
Unit(sum) == IF sum THEN 0 ELSE 1
Joined(sum, a, b) == IF sum THEN a + b ELSE a * b
First(s) == CHOOSE x \in s : TRUE
IsFold(g, D, sum, f) ==
  g = [s \in D |-> IF s = {} THEN Unit(sum)
                   ELSE LET x == CHOOSE x \in s : TRUE IN Joined(sum, f[x], g[s \ {x}])]
Fold(sum, f, S) == (CHOOSE g : IsFold(g, SUBSET S, sum, f))[S]

LEMMA SumIsFold == ASSUME NEW f, NEW S PROVE SumFunctionOnSet(f, S) = Fold(TRUE, f, S)
BY DEF SumFunctionOnSet, FoldFunctionOnSet, MapThenFoldSet, Fold, IsFold, Joined, Unit
LEMMA ProductIsFold ==
  ASSUME NEW f, NEW S PROVE FoldFunctionOnSet(LAMBDA x, y : x * y, 1, f, S) = Fold(FALSE, f, S)
BY DEF FoldFunctionOnSet, MapThenFoldSet, Fold, IsFold, Joined, Unit

\* A fold, element by element.
LEMMA FoldSteps ==
  ASSUME NEW g, NEW D, NEW sum, NEW f, IsFold(g, D, sum, f)
  PROVE  /\ DOMAIN g = D
         /\ {} \in D => g[{}] = Unit(sum)
         /\ \A s \in D : s # {} => First(s) \in s /\ g[s] = Joined(sum, f[First(s)], g[s \ {First(s)}])
<1>1. DOMAIN g = D
  BY DEF IsFold
<1>2. \A s \in D : g[s] = IF s = {} THEN Unit(sum) ELSE Joined(sum, f[First(s)], g[s \ {First(s)}])
  BY DEF IsFold, First
<1>3. \A s : s # {} => First(s) \in s
  BY DEF First
<1> QED
  BY <1>1, <1>2, <1>3

LEMMA StepsAreFold ==
  ASSUME NEW g, NEW D, NEW sum, NEW f, g = [s \in D |-> g[s]],
         \A s \in D : g[s] = IF s = {} THEN Unit(sum) ELSE Joined(sum, f[First(s)], g[s \ {First(s)}])
  PROVE  IsFold(g, D, sum, f)
BY DEF IsFold, First

\* The subsets with at most n elements.
UpToSize(S, n) == {s \in SUBSET S : Cardinality(s) <= n}

\* A fold of the subsets with n elements extends to those with one more.
LEMMA FoldExists ==
  ASSUME NEW S, IsFiniteSet(S), NEW sum, NEW f
  PROVE  \E g : IsFold(g, SUBSET S, sum, f)
<1> DEFINE Is(g, n) == IsFold(g, UpToSize(S, n), sum, f)
           T == {n \in Nat : \A g : ~Is(g, n)}
<1>0. \A s \in SUBSET S : IsFiniteSet(s) /\ Cardinality(s) \in Nat /\ Cardinality(s) <= Cardinality(S)
  BY FS_Subset, FS_CardinalityType
<1>1. T = {}
  <2>1. SUFFICES ASSUME T # {} PROVE FALSE
    OBVIOUS
  <2>2. PICK m \in T : \A y \in T : ~ (<<y, m>> \in OpToRel(<, Nat))
    BY <2>1, NatLessThanWellFounded, WFMin
  <2>3. \A y \in T : y \in Nat /\ ~ (y < m)
    BY <2>2 DEF OpToRel
  <2>4. m # 0
    <3>1. SUFFICES ASSUME m = 0 PROVE FALSE
      OBVIOUS
    <3> DEFINE g == [s \in UpToSize(S, 0) |-> Unit(sum)]
    <3>2. \A s \in UpToSize(S, 0) : s = {}
      BY <1>0, FS_EmptySet DEF UpToSize
    <3>3. g = [s \in UpToSize(S, 0) |-> g[s]] /\ \A s \in UpToSize(S, 0) : g[s] = Unit(sum)
      OBVIOUS
    <3> HIDE DEF g
    <3>4. Is(g, 0)
      BY <3>2, <3>3, StepsAreFold
    <3> QED
      BY <3>1, <3>4
  <2>5. m - 1 \in Nat /\ m \in Nat /\ m - 1 < m
    BY <2>4
  <2>6. PICK h : Is(h, m - 1)
    BY <2>3, <2>5
  <2> DEFINE D == UpToSize(S, m - 1)
             g == [s \in UpToSize(S, m) |-> IF s \in D THEN h[s] ELSE Joined(sum, f[First(s)], h[s \ {First(s)}])]
  <2>7. D \in SUBSET (SUBSET S) /\ D \subseteq UpToSize(S, m) /\ {} \in D
    BY <1>0, <2>5, FS_EmptySet DEF UpToSize
  <2>8. \A s \in UpToSize(S, m) : s # {} => First(s) \in s /\ s \ {First(s)} \in D
    <3>1. SUFFICES ASSUME NEW s \in UpToSize(S, m), s # {} PROVE First(s) \in s /\ s \ {First(s)} \in D
      OBVIOUS
    <3>2. First(s) \in s
      BY <3>1 DEF First
    <3>3. Cardinality(s \ {First(s)}) = Cardinality(s) - 1
      BY <1>0, <3>2, FS_RemoveElement DEF UpToSize
    <3> QED
      BY <1>0, <2>5, <3>2, <3>3 DEF UpToSize
  <2>9. /\ g = [s \in UpToSize(S, m) |-> g[s]]
        /\ \A s \in UpToSize(S, m) : g[s] = IF s \in D THEN h[s] ELSE Joined(sum, f[First(s)], h[s \ {First(s)}])
    OBVIOUS
  <2> HIDE DEF g
  <2>10. /\ h[{}] = Unit(sum)
         /\ \A s \in D : s # {} => h[s] = Joined(sum, f[First(s)], h[s \ {First(s)}])
    BY <2>6, <2>7, FoldSteps
  <2>11. \A s \in UpToSize(S, m) : g[s] = IF s = {} THEN Unit(sum) ELSE Joined(sum, f[First(s)], g[s \ {First(s)}])
    <3> TAKE s \in UpToSize(S, m)
    <3>1. CASE s = {}
      BY <2>7, <2>9, <2>10, <3>1
    <3>2. CASE s # {}
      <4>1. s \ {First(s)} \in D /\ s \ {First(s)} \in UpToSize(S, m)
        BY <2>7, <2>8, <3>2
      <4>2. g[s \ {First(s)}] = h[s \ {First(s)}]
        BY <2>9, <4>1
      <4> QED
        BY <2>9, <2>10, <3>2, <4>2
    <3> QED
      BY <3>1, <3>2
  <2>12. Is(g, m)
    BY <2>9, <2>11, StepsAreFold
  <2> QED
    BY <2>2, <2>12
<1>2. SUBSET S = UpToSize(S, Cardinality(S))
  BY <1>0 DEF UpToSize
<1>3. Cardinality(S) \in Nat
  BY <1>0
<1>4. \E g : Is(g, Cardinality(S))
  BY <1>1, <1>3
<1> QED
  BY <1>2, <1>4

\* Two folds agree on the sets that both are about.
LEMMA FoldsAgree ==
  ASSUME NEW S, NEW R, NEW sum, NEW f, NEW g, NEW h,
         IsFiniteSet(S), R \subseteq S, IsFold(g, SUBSET S, sum, f), IsFold(h, SUBSET R, sum, f)
  PROVE  g[R] = h[R]
<1> DEFINE T == {s \in SUBSET R : g[s] # h[s]}
<1>0. \A s : s \in T <=> s \in SUBSET R /\ g[s] # h[s]
  OBVIOUS
<1> HIDE DEF T
<1>1. /\ g[{}] = Unit(sum) /\ h[{}] = Unit(sum)
      /\ \A s \in SUBSET R : s # {} => /\ First(s) \in s
                                       /\ g[s] = Joined(sum, f[First(s)], g[s \ {First(s)}])
                                       /\ h[s] = Joined(sum, f[First(s)], h[s \ {First(s)}])
  <2>1. SUBSET R \subseteq SUBSET S /\ {} \in SUBSET R /\ {} \in SUBSET S
    OBVIOUS
  <2>2. g[{}] = Unit(sum) /\ \A s \in SUBSET S : s # {} => First(s) \in s /\ g[s] = Joined(sum, f[First(s)], g[s \ {First(s)}])
    BY <2>1, FoldSteps
  <2>3. h[{}] = Unit(sum) /\ \A s \in SUBSET R : s # {} => First(s) \in s /\ h[s] = Joined(sum, f[First(s)], h[s \ {First(s)}])
    BY <2>1, FoldSteps
  <2> QED
    BY <2>1, <2>2, <2>3
<1>2. ASSUME T # {} PROVE FALSE
  <2>0. IsFiniteSet(R) /\ T \subseteq SUBSET R
    BY <1>0, FS_Subset
  <2>1. PICK X \in T : \A Y \in T : Y \subseteq X => Y = X
    BY <1>2, <2>0, SmallestOf
  <2>2. X # {}
    BY <1>0, <1>1, <2>1
  <2>3. First(X) \in X /\ X \ {First(X)} \subseteq X /\ X \ {First(X)} # X
    BY <1>0, <1>1, <2>1, <2>2
  <2>4. g[X \ {First(X)}] = h[X \ {First(X)}]
    BY <1>0, <2>1, <2>3
  <2> QED
    BY <1>0, <1>1, <2>1, <2>2, <2>4
<1> QED
  BY <1>0, <1>2

LEMMA FoldHasFunction ==
  ASSUME NEW S, IsFiniteSet(S), NEW sum, NEW f
  PROVE  \E g : IsFold(g, SUBSET S, sum, f) /\ Fold(sum, f, S) = g[S]
<1>1. \E g : IsFold(g, SUBSET S, sum, f)
  BY FoldExists
<1> QED
  BY <1>1 DEF Fold

\* A fold of a set is that of what is left without one element, and the element.
LEMMA FoldIs ==
  ASSUME NEW S, IsFiniteSet(S), NEW sum, NEW f
  PROVE  /\ Fold(sum, f, {}) = Unit(sum)
         /\ S # {} => First(S) \in S /\ Fold(sum, f, S) = Joined(sum, f[First(S)], Fold(sum, f, S \ {First(S)}))
<1>1. Fold(sum, f, {}) = Unit(sum)
  <2>1. IsFiniteSet({}) /\ {} \in SUBSET {}
    BY FS_EmptySet
  <2>2. PICK g : IsFold(g, SUBSET {}, sum, f) /\ Fold(sum, f, {}) = g[{}]
    BY <2>1, FoldHasFunction
  <2> QED
    BY <2>1, <2>2, FoldSteps
<1>2. ASSUME S # {}
      PROVE  First(S) \in S /\ Fold(sum, f, S) = Joined(sum, f[First(S)], Fold(sum, f, S \ {First(S)}))
  <2>0. PICK R : R = S \ {First(S)}
    OBVIOUS
  <2>1. IsFiniteSet(R) /\ R \subseteq S
    BY <2>0, FS_Subset
  <2>2. PICK g : IsFold(g, SUBSET S, sum, f) /\ Fold(sum, f, S) = g[S]
    BY FoldHasFunction
  <2>3. PICK h : IsFold(h, SUBSET R, sum, f) /\ Fold(sum, f, R) = h[R]
    BY <2>1, FoldHasFunction
  <2>4. First(S) \in S /\ g[S] = Joined(sum, f[First(S)], g[R])
    BY <1>2, <2>0, <2>2, FoldSteps
  <2>5. g[R] = h[R]
    <3>1. IsFiniteSet(S) /\ R \subseteq S /\ IsFold(g, SUBSET S, sum, f) /\ IsFold(h, SUBSET R, sum, f)
      BY <2>1, <2>2, <2>3
    <3> HIDE <2>1, <2>2, <2>3
    <3> QED
      BY <3>1, FoldsAgree
  <2> QED
    BY <2>0, <2>2, <2>3, <2>4, <2>5
<1> QED
  BY <1>1, <1>2

\* Sums and products of numbers are numbers, and a product of positive ones is positive.
LEMMA FoldIsNumber ==
  ASSUME NEW S, IsFiniteSet(S), NEW sum \in BOOLEAN, NEW f, \A x \in S : f[x] \in Nat
  PROVE  /\ Fold(sum, f, S) \in Nat
         /\ ~sum /\ (\A x \in S : f[x] > 0) => Fold(sum, f, S) > 0
<1> DEFINE F(s) == Fold(sum, f, s)
           Good(s) == F(s) \in Nat /\ (~sum /\ (\A x \in S : f[x] > 0) => F(s) > 0)
           T == {s \in SUBSET S : ~Good(s)}
<1>0. \A s : s \in T <=> s \in SUBSET S /\ ~Good(s)
  OBVIOUS
<1> HIDE DEF T
<1>1. ASSUME T # {} PROVE FALSE
  <2>1. T \subseteq SUBSET S
    BY <1>0
  <2>2. PICK X \in T : \A Y \in T : Y \subseteq X => Y = X
    BY <1>1, <2>1, SmallestOf
  <2>3. IsFiniteSet(X) /\ X \subseteq S
    BY <1>0, <2>2, FS_Subset
  <2>4. CASE X = {}
    <3>1. F(X) = Unit(sum)
      BY <2>3, <2>4, FoldIs
    <3> QED
      BY <1>0, <2>2, <3>1 DEF Unit
  <2>5. CASE X # {}
    <3> DEFINE x == First(X)
               R == X \ {x}
    <3>1. x \in X /\ F(X) = Joined(sum, f[x], F(R))
      BY <2>3, <2>5, FoldIs
    <3>2. R \subseteq X /\ R # X /\ R \in SUBSET S
      BY <2>3, <3>1
    <3>3. Good(R)
      BY <1>0, <2>2, <3>2
    <3> HIDE DEF x, R, F
    <3>4. f[x] \in Nat /\ F(R) \in Nat
      BY <2>3, <3>1, <3>3
    <3>5. f[x] + F(R) \in Nat /\ f[x] * F(R) \in Nat /\ (f[x] > 0 /\ F(R) > 0 => f[x] * F(R) > 0)
      BY <3>4
    <3>6. Good(X)
      BY <2>3, <3>1, <3>3, <3>5 DEF Joined
    <3> QED
      BY <1>0, <2>2, <3>6
  <2> QED
    BY <2>4, <2>5
<1> QED
  BY <1>0, <1>1

\* A product can be taken in any order.
LEMMA ProductWithout ==
  ASSUME NEW S, IsFiniteSet(S), NEW f, \A x \in S : f[x] \in Nat, NEW e \in S
  PROVE  Fold(FALSE, f, S) = f[e] * Fold(FALSE, f, S \ {e})
<1> DEFINE F(s) == Fold(FALSE, f, s)
           T == {s \in SUBSET S : \E x \in s : F(s) # f[x] * F(s \ {x})}
<1>0. \A s : s \in T <=> s \in SUBSET S /\ \E x \in s : F(s) # f[x] * F(s \ {x})
  OBVIOUS
<1> HIDE DEF T
<1>1. ASSUME T # {} PROVE FALSE
  <2>1. T \subseteq SUBSET S
    BY <1>0
  <2>2. PICK X \in T : \A Y \in T : Y \subseteq X => Y = X
    BY <1>1, <2>1, SmallestOf
  <2>3. PICK x \in X : F(X) # f[x] * F(X \ {x})
    BY <1>0, <2>2
  <2>4. \A s \in SUBSET S : s # {} => First(s) \in s /\ F(s) = f[First(s)] * F(s \ {First(s)})
    BY FS_Subset, FoldIs DEF Joined
  <2>5. \A s \in SUBSET S : F(s) \in Nat
    <3> TAKE s \in SUBSET S
    <3>1. IsFiniteSet(s) /\ \A y \in s : f[y] \in Nat
      BY FS_Subset
    <3> QED
      BY <3>1, FoldIsNumber
  <2> DEFINE c == First(X)
  <2>6. c \in X /\ F(X) = f[c] * F(X \ {c}) /\ c # x
    BY <1>0, <2>2, <2>3, <2>4
  <2>7. X \ {c} \notin T /\ X \ {x} \notin T /\ X \ {c} \in SUBSET S /\ X \ {x} \in SUBSET S
    BY <1>0, <2>2, <2>3, <2>6
  <2>8. F(X \ {c}) = f[x] * F((X \ {c}) \ {x}) /\ F(X \ {x}) = f[c] * F((X \ {x}) \ {c})
    BY <1>0, <2>3, <2>6, <2>7
  <2>9. (X \ {c}) \ {x} = (X \ {x}) \ {c} /\ (X \ {x}) \ {c} \in SUBSET S
    BY <2>7
  <2> DEFINE R == (X \ {x}) \ {c}
  <2>10. F(R) \in Nat /\ f[x] \in Nat /\ f[c] \in Nat
    BY <1>0, <2>2, <2>3, <2>5, <2>6, <2>9
  <2>11. F(X) = f[c] * (f[x] * F(R)) /\ F(X \ {x}) = f[c] * F(R)
    BY <2>6, <2>8, <2>9
  <2> HIDE DEF F, R, c
  <2>12. f[c] * (f[x] * F(R)) = f[x] * (f[c] * F(R))
    BY <2>10
  <2> QED
    BY <2>3, <2>11, <2>12
<1>2. S \notin T
  BY <1>1
<1> QED
  BY <1>0, <1>2

\* A comparison that holds of every element holds of the sums.
LEMMA SumsCompare ==
  ASSUME NEW S, IsFiniteSet(S), NEW f, NEW g, \A x \in S : f[x] \in Nat /\ g[x] \in Nat,
         NEW a \in Nat, NEW b \in Nat, \A x \in S : a * f[x] <= b * g[x]
  PROVE  a * Fold(TRUE, f, S) <= b * Fold(TRUE, g, S)
<1> DEFINE F(s) == Fold(TRUE, f, s)
           G(s) == Fold(TRUE, g, s)
           T == {s \in SUBSET S : ~ (a * F(s) <= b * G(s))}
<1>0. \A s : s \in T <=> s \in SUBSET S /\ ~ (a * F(s) <= b * G(s))
  OBVIOUS
<1> HIDE DEF T
<1>1. ASSUME T # {} PROVE FALSE
  <2>1. T \subseteq SUBSET S
    BY <1>0
  <2>2. PICK X \in T : \A Y \in T : Y \subseteq X => Y = X
    BY <1>1, <2>1, SmallestOf
  <2>3. \A s \in SUBSET S : IsFiniteSet(s) /\ F(s) \in Nat /\ G(s) \in Nat
    <3> TAKE s \in SUBSET S
    <3>1. IsFiniteSet(s) /\ \A y \in s : f[y] \in Nat /\ g[y] \in Nat
      BY FS_Subset
    <3> QED
      BY <3>1, FoldIsNumber
  <2>4. CASE X = {}
    <3>1. F(X) = 0 /\ G(X) = 0
      BY <1>0, <2>2, <2>3, <2>4, FoldIs DEF Unit
    <3>2. a * 0 = 0 /\ b * 0 = 0
      OBVIOUS
    <3> HIDE DEF F, G
    <3>3. a * F(X) <= b * G(X)
      BY <3>1, <3>2
    <3> QED
      BY <1>0, <2>2, <3>3 DEF F, G
  <2>5. CASE X # {}
    <3> DEFINE x == First(X)
               R == X \ {x}
    <3>1. x \in X /\ F(X) = f[x] + F(R) /\ G(X) = g[x] + G(R)
      BY <1>0, <2>2, <2>3, <2>5, FoldIs DEF Joined
    <3>2. R \subseteq X /\ R # X /\ R \in SUBSET S
      BY <1>0, <2>2, <3>1
    <3>3. a * F(R) <= b * G(R)
      BY <1>0, <2>2, <3>2
    <3>4. x \in S /\ F(R) \in Nat /\ G(R) \in Nat /\ f[x] \in Nat /\ g[x] \in Nat /\ a * f[x] <= b * g[x]
      BY <1>0, <2>2, <2>3, <3>1, <3>2
    <3> HIDE DEF x, R, F, G
    <3>5. /\ a * (f[x] + F(R)) = a * f[x] + a * F(R) /\ b * (g[x] + G(R)) = b * g[x] + b * G(R)
          /\ a * f[x] \in Nat /\ a * F(R) \in Nat /\ b * g[x] \in Nat /\ b * G(R) \in Nat
      BY <3>4
    <3>6. a * F(X) <= b * G(X)
      BY <3>1, <3>3, <3>4, <3>5
    <3> QED
      BY <1>0, <2>2, <3>6 DEF F, G
  <2> QED
    BY <2>4, <2>5
<1>2. S \notin T
  BY <1>1
<1> QED
  BY <1>0, <1>2

-----------------------------------------------------------------------------
(* Interests: the demand of the policy.                                    *)

LEMMA PolicyIs ==
  ASSUME InterestsAreSound
  PROVE  /\ Low \in Nat /\ Low > 0 /\ Capacity \in Nat /\ Capacity > 0 /\ Capacity \in Nat \ {0}
         /\ MaxInterval \in Nat /\ MaxInterval > 0 /\ Low <= MaxInterval
BY DEF InterestsAreSound

\* The shorter intervals divide the longest.
LEMMA BasesAre ==
  ASSUME InterestsAreSound, NEW n
  PROVE  LET b == _base_collection_refresh_interval(n)
         IN  b \in Nat /\ b > 0 /\ b <= Low /\ Low \div b \in Nat /\ Low \div b > 0 /\ (Low \div b) * b = Low
<1>1. PICK m \in Nat : Low = 4 * m /\ m > 0
  <2>1. Low \in Nat /\ Low > 0 /\ Low % 4 = 0
    BY DEF InterestsAreSound
  <2>2. Low \div 4 \in Nat /\ Low = 4 * (Low \div 4)
    BY <2>1
  <2> QED
    BY <2>1, <2>2
<1>2. Low \div 4 = m /\ Low \div 2 = 2 * m
  BY <1>1
<1>3. (4 * m) \div m = 4 /\ (4 * m) \div (2 * m) = 2 /\ (4 * m) \div (4 * m) = 1
  BY <1>1
<1> DEFINE b == _base_collection_refresh_interval(n)
<1>4. b = 4 * m \/ b = 2 * m \/ b = m
  BY <1>1, <1>2 DEF _base_collection_refresh_interval
<1> HIDE DEF b
<1>5. b \in Nat /\ b > 0 /\ b <= Low /\ Low \div b \in Nat /\ Low \div b > 0 /\ (Low \div b) * b = Low
  BY <1>1, <1>3, <1>4
<1> QED
  BY <1>5 DEF b

LEMMA CeilIs ==
  ASSUME NEW a \in Nat, NEW b \in Nat \ {0}
  PROVE  CeilDiv(a, b) \in Nat /\ b * CeilDiv(a, b) >= a /\ (a > 0 => CeilDiv(a, b) > 0)
<1> DEFINE x == a + b - 1
           q == x \div b
<1>1. x \in Nat
  OBVIOUS
<1>2. q \in Nat /\ x % b \in Nat /\ x % b < b /\ x = b * q + (x % b)
  BY <1>1
<1>3. b * q \in Nat /\ b * q >= a
  BY <1>2
<1>4. a > 0 => q > 0
  <2>1. SUFFICES ASSUME a > 0, q = 0 PROVE FALSE
    BY <1>2
  <2>2. b * q = 0
    BY <2>1
  <2> QED
    BY <1>3, <2>1, <2>2
<1> QED
  BY <1>2, <1>3, <1>4 DEF CeilDiv

\* Subscribers are counted, no more than one a user.
LEMMA SubscribersAre ==
  ASSUME InterestsAreSound, NEW ss, ss \subseteq Subscription, NEW k \in Keys,
         \A s, r \in ss : s.user = r.user /\ s.key = r.key => s = r
  PROVE  /\ Subscribers(ss, k) \in 0 .. Cardinality(Users)
         /\ Subscribers(ss, k) > 0 <=> \E s \in ss : s.key = k
<1> DEFINE S == {s \in ss : s.key = k}
           f == [s \in S |-> s.user]
<1>1. f \in Injection(S, Users)
  <2>1. \A s \in S : s.user \in Users
    BY DEF Subscription
  <2>2. \A s, r \in S : s.user = r.user => s = r
    OBVIOUS
  <2> QED
    BY <2>1, <2>2 DEF Injection, IsInjective
<1>2. IsFiniteSet(S) /\ Cardinality(S) <= Cardinality(Users)
  BY <1>1, FS_Injection DEF InterestsAreSound
<1>3. Cardinality(S) \in Nat /\ Cardinality(Users) \in Nat /\ (Cardinality(S) = 0 <=> S = {})
  BY <1>2, FS_CardinalityType, FS_EmptySet DEF InterestsAreSound
<1>4. Cardinality(S) > 0 <=> S # {}
  BY <1>3
<1> QED
  BY <1>2, <1>3, <1>4 DEF Subscribers

LEMMA KeysFinite == ASSUME InterestsAreSound PROVE IsFiniteSet(Keys)
<1>1. IsFiniteSet({"taxonomy", "custom"})
  <2>1. IsFiniteSet({"taxonomy"})
    BY FS_Singleton
  <2>2. IsFiniteSet({"taxonomy"} \cup {"custom"})
    BY <2>1, FS_AddElement
  <2>3. {"taxonomy"} \cup {"custom"} = {"taxonomy", "custom"}
    OBVIOUS
  <2> QED
    BY <2>2, <2>3
<1> QED
  BY <1>1, FS_Product DEF Keys, InterestsAreSound

\* What the targets with subscribers ask for at their base intervals.
Runs(ss) == [k \in Keys |-> Low \div _base_collection_refresh_interval(Subscribers(ss, k))]
Followed(ss) == {s.key : s \in ss}

LEMMA DemandIs ==
  ASSUME InterestsAreSound, NEW ss, ss \subseteq Subscription
  PROVE  /\ IsFiniteSet(Followed(ss)) /\ Followed(ss) \subseteq Keys
         /\ \A k \in Followed(ss) : Runs(ss)[k] \in Nat
         /\ BaseDemand(ss) = Fold(TRUE, Runs(ss), Followed(ss)) /\ BaseDemand(ss) \in Nat
<1>1. Followed(ss) \subseteq Keys
  BY DEF Followed, Subscription
<1>2. IsFiniteSet(Followed(ss))
  BY <1>1, KeysFinite, FS_Subset
<1>3. \A k \in Followed(ss) : Runs(ss)[k] \in Nat
  <2> TAKE k \in Followed(ss)
  <2>1. k \in Keys
    BY <1>1
  <2> QED
    BY <2>1, BasesAre DEF Runs
<1>4. BaseDemand(ss) = Fold(TRUE, Runs(ss), Followed(ss))
  BY SumIsFold DEF BaseDemand, Runs, Followed
<1>5. Fold(TRUE, Runs(ss), Followed(ss)) \in Nat
  BY <1>2, <1>3, FoldIsNumber
<1> QED
  BY <1>1, <1>2, <1>3, <1>4, <1>5

\* The least capacity that the intervals are scaled to.
Ceiling(ss) == IF BaseDemand(ss) <= Capacity THEN BaseDemand(ss) ELSE Capacity

\* An interval is positive and no more than the longest; one that is shorter is long
\* enough for its share of the capacity.
LEMMA IntervalsAre ==
  ASSUME InterestsAreSound, NEW ss, ss \subseteq Subscription, NEW k \in Keys
  PROVE  LET i == _scaled_collection_refresh_intervals(ss, k)
             b == _base_collection_refresh_interval(Subscribers(ss, k))
         IN  i \in 1 .. MaxInterval /\ (i < MaxInterval => Ceiling(ss) * i >= b * BaseDemand(ss))
<1> DEFINE b == _base_collection_refresh_interval(Subscribers(ss, k))
           d == BaseDemand(ss)
           c == CeilDiv(b * d, Capacity)
<1>1. b \in Nat /\ b > 0 /\ d \in Nat /\ Capacity \in Nat \ {0} /\ MaxInterval \in Nat /\ MaxInterval > 0
  BY BasesAre, DemandIs, PolicyIs
<1>2. b * d \in Nat /\ (d > 0 => b * d > 0) /\ d * b = b * d
  <2> HIDE DEF b, d
  <2> QED
    BY <1>1
<1>3. c \in Nat /\ Capacity * c >= b * d /\ (d > 0 => c > 0)
  <2> HIDE DEF b, d
  <2> QED
    BY <1>1, <1>2, CeilIs
<1>4. _scaled_collection_refresh_intervals(ss, k) =
        LET scaled == IF d <= Capacity THEN b ELSE c IN IF scaled > MaxInterval THEN MaxInterval ELSE scaled
  BY DEF _scaled_collection_refresh_intervals
<1>5. Ceiling(ss) = IF d <= Capacity THEN d ELSE Capacity
  BY DEF Ceiling
<1> HIDE DEF b, c, d
<1>6. CASE d <= Capacity
  BY <1>1, <1>2, <1>4, <1>5, <1>6 DEF b, d
<1>7. CASE ~ (d <= Capacity)
  <2>1. d > 0
    BY <1>1, <1>7
  <2> QED
    BY <1>1, <1>3, <1>4, <1>5, <1>7, <2>1 DEF b, d
<1> QED
  BY <1>6, <1>7

LEMMA Cancels == ASSUME NEW a \in Nat, NEW b \in Nat, NEW d \in Nat \ {0}, d * a <= b * d PROVE a <= b
<1>1. SUFFICES ASSUME a >= b + 1 PROVE FALSE
  OBVIOUS
<1>2. d * a >= d * (b + 1) /\ d * (b + 1) = b * d + d
  BY <1>1
<1> QED
  BY <1>2

LEMMA Shares ==
  ASSUME NEW d \in Nat, NEW c \in Nat, NEW o \in Nat, NEW i \in Nat, NEW w \in Nat, NEW e \in Nat,
         NEW low \in Nat, w * e = low, c * i >= e * d
  PROVE  d * (low * o) <= (c * (i * o)) * w
<1>1. d * ((w * e) * o) = (w * o) * (e * d) /\ (c * (i * o)) * w = (w * o) * (c * i)
  OBVIOUS
<1>2. PICK x \in Nat : x = w * o
  OBVIOUS
<1>3. PICK y \in Nat : y = e * d
  OBVIOUS
<1>4. PICK z \in Nat : z = c * i
  OBVIOUS
<1>5. x * y <= x * z
  BY <1>3, <1>4
<1> QED
  BY <1>1, <1>2, <1>3, <1>4, <1>5

WithinShare(k, K, I, r, b, f, low, c, d) ==
  /\ I[k] \in Nat /\ I[k] > 0 /\ r[k] \in Nat /\ r[k] > 0 /\ b[k] \in Nat
  /\ r[k] * b[k] = low /\ c * I[k] >= b[k] * d
  /\ f[k] = low * Fold(FALSE, I, K \ {k})

\* Where each element, weighed by all others' intervals, is within its share of c, the
\* shares being d together, the sum is within the product of c and of all intervals.
LEMMA SharesFit ==
  ASSUME NEW K, IsFiniteSet(K), NEW I, NEW r, NEW b, NEW f,
         NEW d \in Nat, NEW c \in Nat, NEW cap \in Nat, NEW low \in Nat, c <= cap, d = Fold(TRUE, r, K),
         \A k \in K : WithinShare(k, K, I, r, b, f, low, c, d)
  PROVE  Fold(TRUE, f, K) <= cap * Fold(FALSE, I, K)
<1>0. \A k \in K : I[k] \in Nat /\ r[k] \in Nat /\ r[k] > 0
  BY DEF WithinShare
<1>1. PICK all \in Nat : all = Fold(FALSE, I, K)
  BY <1>0, FoldIsNumber
<1>2. \A k \in K : Fold(FALSE, I, K \ {k}) \in Nat /\ all = I[k] * Fold(FALSE, I, K \ {k})
  <2> TAKE k \in K
  <2>1. IsFiniteSet(K \ {k}) /\ \A j \in K \ {k} : I[j] \in Nat
    BY <1>0, FS_Subset
  <2>2. Fold(FALSE, I, K \ {k}) \in Nat
    BY <2>1, FoldIsNumber
  <2>3. Fold(FALSE, I, K) = I[k] * Fold(FALSE, I, K \ {k})
    BY <1>0, ProductWithout
  <2> QED
    BY <1>1, <2>2, <2>3
<1>3. \A k \in K : f[k] \in Nat /\ d * f[k] <= (c * all) * r[k]
  <2> TAKE k \in K
  <2>1. PICK o \in Nat : o = Fold(FALSE, I, K \ {k})
    BY <1>2
  <2>2. PICK i \in Nat : i = I[k]
    BY <1>0
  <2>3. PICK w \in Nat : w = r[k]
    BY <1>0
  <2>4. PICK e \in Nat : e = b[k]
    BY DEF WithinShare
  <2>5. f[k] = low * o /\ all = i * o /\ w * e = low /\ c * i >= e * d
    BY <1>2, <2>1, <2>2, <2>3, <2>4 DEF WithinShare
  <2>6. d * (low * o) <= (c * (i * o)) * w
    BY <2>5, Shares
  <2>7. low * o \in Nat
    OBVIOUS
  <2> QED
    BY <2>3, <2>5, <2>6, <2>7
<1>4. PICK sum \in Nat : sum = Fold(TRUE, f, K)
  BY <1>3, FoldIsNumber
<1>5. PICK most \in Nat : most = c * all
  OBVIOUS
<1>6. d * sum <= most * d
  BY <1>0, <1>3, <1>4, <1>5, SumsCompare
<1>7. PICK top \in Nat : top = cap * all
  OBVIOUS
<1>a. most <= top
  BY <1>5, <1>7
<1>b. SUFFICES sum <= top
  BY <1>1, <1>4, <1>7
<1>8. CASE d # 0
  <2>1. sum <= most
    BY <1>6, <1>8, Cancels
  <2> QED
    BY <1>a, <2>1
<1>9. CASE d = 0
  <2>1. ASSUME K # {} PROVE FALSE
    <3>1. PICK x \in K : d = r[x] + Fold(TRUE, r, K \ {x})
      BY <2>1, FoldIs DEF Joined
    <3>2. IsFiniteSet(K \ {x}) /\ \A k \in K \ {x} : r[k] \in Nat
      BY <1>0, FS_Subset
    <3>3. PICK rest \in Nat : rest = Fold(TRUE, r, K \ {x})
      BY <3>2, FoldIsNumber
    <3>4. PICK y \in Nat : y = r[x]
      BY <1>0
    <3>5. y > 0
      BY <1>0, <3>4
    <3>6. y + rest = 0
      BY <1>9, <3>1, <3>3, <3>4
    <3> QED
      BY <3>5, <3>6
  <2>2. sum = 0
    BY <1>4, <2>1, FoldIs DEF Unit
  <2> QED
    BY <2>2
<1> QED
  BY <1>8, <1>9

\* Intervals that are long enough for their share ask together for no more than the capacity.
LEMMA ScaledFits ==
  ASSUME InterestsAreSound, NEW ss, ss \subseteq Subscription, NEW I,
         \A k \in Followed(ss) : /\ I[k] \in 1 .. MaxInterval
                                 /\ Ceiling(ss) * I[k] >= _base_collection_refresh_interval(Subscribers(ss, k)) * BaseDemand(ss)
  PROVE  FitsCapacity(Followed(ss), I)
<1>1. PICK K : K = Followed(ss)
  OBVIOUS
<1>2. PICK f : f = [k \in Keys |-> Low * Fold(FALSE, I, K \ {k})]
  OBVIOUS
<1>3. PICK b : b = [k \in Keys |-> _base_collection_refresh_interval(Subscribers(ss, k))]
  OBVIOUS
<1>4. PICK r : r = Runs(ss)
  OBVIOUS
<1>5. IsFiniteSet(K) /\ K \subseteq Keys /\ BaseDemand(ss) = Fold(TRUE, r, K) /\ BaseDemand(ss) \in Nat
  BY <1>1, <1>4, DemandIs
<1>6. PICK d \in Nat : d = BaseDemand(ss)
  BY <1>5
<1>7. Ceiling(ss) \in Nat /\ Ceiling(ss) <= Capacity /\ Capacity \in Nat /\ Low \in Nat
  BY <1>6, PolicyIs DEF Ceiling
<1>8. PICK c \in Nat : c = Ceiling(ss)
  BY <1>7
<1>9. \A k \in K : WithinShare(k, K, I, r, b, f, Low, c, d)
  <2> TAKE k \in K
  <2>1. k \in Keys /\ k \in Followed(ss)
    BY <1>1, <1>5
  <2>2. I[k] \in Nat /\ I[k] > 0
    BY <2>1, PolicyIs
  <2>3. b[k] = _base_collection_refresh_interval(Subscribers(ss, k)) /\ r[k] = Low \div b[k]
    BY <1>3, <1>4, <2>1 DEF Runs
  <2>4. r[k] \in Nat /\ r[k] > 0 /\ b[k] \in Nat /\ r[k] * b[k] = Low
    BY <2>3, BasesAre
  <2>5. c * I[k] >= b[k] * d
    BY <1>6, <1>8, <2>1, <2>3
  <2> QED
    BY <1>2, <2>1, <2>2, <2>4, <2>5 DEF WithinShare
<1>10. Fold(TRUE, f, K) <= Capacity * Fold(FALSE, I, K)
  <2>1. IsFiniteSet(K) /\ Capacity \in Nat /\ Low \in Nat /\ c <= Capacity /\ d = Fold(TRUE, r, K)
    BY <1>5, <1>6, <1>7, <1>8
  <2> HIDE <1>1, <1>2, <1>3, <1>4, <1>5, <1>6, <1>7, <1>8
  <2> QED
    BY <1>9, <2>1, SharesFit
<1>11. SumFunctionOnSet([k \in Keys |-> Low * FoldFunctionOnSet(LAMBDA x, y : x * y, 1, I, Followed(ss) \ {k})], Followed(ss))
         = Fold(TRUE, f, K)
  BY <1>1, <1>2, SumIsFold, ProductIsFold
<1>12. FoldFunctionOnSet(LAMBDA x, y : x * y, 1, I, Followed(ss)) = Fold(FALSE, I, K)
  BY <1>1, ProductIsFold
<1> QED
  BY <1>10, <1>11, <1>12 DEF FitsCapacity

-----------------------------------------------------------------------------
(* Interests: the invariant.                                               *)

Origins == {"onboarding", "wiki_interest"}
TargetRows == [status : {"none", "active", "paused"}, count : Nat, interval : 1 .. MaxInterval]
TxRows == [pc : {"none", "deactivate", "waiting", "insert", "reconcile"}, user : Users, origin : Origins,
           choice : Nat, version : Nat, want : SUBSET Keys, up : SUBSET Keys,
           off : SUBSET Subscription, on : SUBSET Subscription]

\* What the tables and the processes hold.
TablesTyped ==
  /\ taxonomy \in BOOLEAN
  /\ context \in [Users -> [version : Nat, choice : Nat]]
  /\ \A u \in Users : context[u].version <= Contexts[u] /\ (context[u].choice = 0 <=> context[u].version = 0)
  /\ targets \in [Keys -> TargetRows]
  /\ subs \subseteq Subscription
  /\ tx \in [Procs -> TxRows]

\* Profiles: of wikis that were built; of those being computed each has its place.
Scoring(u) == {p \in Procs : calc[p].pc = "scoring" /\ calc[p].user = u}
ProfilesSound ==
  /\ feedback \subseteq DOMAIN Signals
  /\ wiki \in [Users -> Nat] /\ \A u \in Users : wiki[u] <= Builds[u]
  /\ DOMAIN profile = Users
  /\ \A u \in Users :
       /\ profile[u] = [version |-> profile[u].version, wiki |-> profile[u].wiki, interests |-> profile[u].interests]
       /\ profile[u].version \in Nat /\ profile[u].wiki \in Nat /\ profile[u].wiki <= wiki[u]
       /\ profile[u].version + Cardinality(Scoring(u)) <= Profiles[u] + Cardinality(Procs)
  /\ DOMAIN calc = Procs
  /\ \A p \in Procs :
       /\ calc[p] = [pc |-> calc[p].pc, user |-> calc[p].user, wiki |-> calc[p].wiki, interests |-> calc[p].interests]
       /\ calc[p].pc \in {"idle", "scoring", "saved"} /\ calc[p].user \in Users /\ calc[p].wiki \in Nat
       /\ calc[p].pc = "scoring" => calc[p].wiki <= wiki[calc[p].user]
       /\ \A i \in calc[p].interests : i.topic \in QueryTopics
  /\ \A a, b \in asked : a = b
  /\ \A b \in bundles : b.near \cap b.roots = {}

\* Targets exist for what is subscribed to, and have the number of subscribers.
Exists(k) == targets[k].status # "none"
TargetsSound ==
  /\ \A k \in Keys : ~Exists(k) => targets[k] = NoTarget
  /\ taxonomy => \A t \in TaxonomyTopics : Exists(<<"taxonomy", t>>)
  /\ \A s \in subs : Exists(s.key)
  /\ PolicyFollowsSubscriptions
  /\ DemandFitsCapacity

\* A transaction: what it changes is of its user and its origin, and what it wants exists
\* or is its own.
Options(c) == {<<"taxonomy", t>> : t \in Chosen[c].topics} \cup {<<"custom", t>> : t \in Chosen[c].custom}
TxSound(t) ==
  /\ t.pc = "none" => t = NoTx
  /\ t.pc = "deactivate" => t.off = {}
  /\ t.pc # "reconcile" => t.on = {}
  /\ \A s \in t.off \cup t.on : s.user = t.user /\ s.origin = t.origin
  /\ \A s \in t.on : s.key \in t.want
  /\ \A k \in t.want : k \in t.up \/ Exists(k)

\* A context that is being saved is newer than the stored one, and its transaction takes
\* back what earlier contexts left.
SavingSound(t) ==
  IF t.pc # "none" /\ t.origin = "onboarding"
  THEN /\ t.version \in Nat /\ context[t.user].version < t.version /\ t.version <= Contexts[t.user]
       /\ t.choice # 0 /\ t.want \subseteq Options(t.choice)
       /\ t.pc # "deactivate" => \A s \in subs : s.user = t.user /\ s.origin = "onboarding" => s \in t.off
  ELSE t.version = 0
Saving(t, u) == t.pc # "none" /\ t.origin = "onboarding" /\ t.user = u
OneSaver == \A p, q \in Procs : p # q => ~ (Saving(tx[p], tx[q].user) /\ Saving(tx[q], tx[q].user))

\* A user has one row for a target, also when the transactions that are about to commit do.
Same(s, r) == s.user = r.user /\ s.key = r.key
OneRow ==
  /\ \A s, r \in subs : Same(s, r) => s = r
  /\ \A p \in Procs : \A r \in tx[p].on, s \in subs : Same(s, r) => s \in tx[p].off
  /\ \A p, q \in Procs : p # q => \A r \in tx[p].on, s \in tx[q].on : ~Same(s, r)

SubsInv ==
  /\ TablesTyped /\ TargetsSound /\ OneSaver /\ OneRow /\ OnboardingFollowsContext
  /\ \A p \in Procs : TxSound(tx[p]) /\ SavingSound(tx[p])
InterestInv == ProfilesSound /\ SubsInv

-----------------------------------------------------------------------------
(* Interests: what the shapes of tables and transactions give.             *)

LEMMA TxIs ==
  ASSUME TablesTyped, NEW p \in Procs
  PROVE  /\ tx[p] \in TxRows /\ tx[p].user \in Users /\ tx[p].origin \in Origins /\ tx[p].want \subseteq Keys
         /\ tx[p].up \subseteq Keys /\ tx[p].off \subseteq Subscription /\ tx[p].on \subseteq Subscription
         /\ tx[p].version \in Nat /\ tx[p].choice \in Nat
BY DEF TablesTyped, TxRows

LEMMA NoTxIs == ASSUME InterestsAreSound PROVE NoTx \in TxRows /\ NoTx.pc = "none" /\ NoTx.version = 0 /\ NoTx.on = {} /\ NoTx.off = {} /\ NoTx.up = {} /\ NoTx.want = {}
<1>1. (CHOOSE u \in Users : TRUE) \in Users
  BY DEF InterestsAreSound
<1> QED
  BY <1>1 DEF NoTx, TxRows, Origins

LEMMA TargetsAre ==
  ASSUME InterestsAreSound
  PROVE  NoTarget \in TargetRows /\ NewTarget \in TargetRows /\ NoTarget # NewTarget
BY PolicyIs DEF NoTarget, NewTarget, TargetRows

LEMMA DemandKept ==
  ASSUME DemandFitsCapacity,
         \A k \in Keys : targets'[k].count = targets[k].count /\ targets'[k].interval = targets[k].interval
  PROVE  DemandFitsCapacity'
<1>1. {k \in Keys : targets'[k].count > 0} = {k \in Keys : targets[k].count > 0}
  OBVIOUS
<1>2. [k \in Keys |-> targets'[k].interval] = [k \in Keys |-> targets[k].interval]
  OBVIOUS
<1> QED
  BY <1>1, <1>2 DEF DemandFitsCapacity

-----------------------------------------------------------------------------
(* Interests: a step of one transaction that changes no table.             *)

LEMMA TxMoves ==
  ASSUME SubsInv, NEW p \in Procs, NEW t \in TxRows, tx' = [tx EXCEPT ![p] = t],
         UNCHANGED <<taxonomy, context, targets, subs>>, TxSound(t), SavingSound(t),
         \A q \in Procs \ {p} : ~ (t.pc # "none" /\ t.origin = "onboarding" /\ Saving(tx[q], t.user)),
         \A r \in t.on, s \in subs : Same(s, r) => s \in t.off,
         \A q \in Procs \ {p} : \A r \in t.on, s \in tx[q].on : ~Same(s, r)
  PROVE  SubsInv'
<1>1. tx' \in [Procs -> TxRows] /\ tx'[p] = t /\ \A q \in Procs \ {p} : tx'[q] = tx[q]
  BY DEF SubsInv, TablesTyped
<1>2. TablesTyped'
  BY <1>1 DEF SubsInv, TablesTyped
<1>3. TargetsSound' /\ OnboardingFollowsContext'
  <2>1. DemandFitsCapacity'
    BY DemandKept DEF SubsInv, TargetsSound
  <2>2. PolicyFollowsSubscriptions' /\ OnboardingFollowsContext'
    BY DEF SubsInv, TargetsSound, OnboardingFollowsContext, PolicyFollowsSubscriptions
  <2> QED
    BY <2>1, <2>2 DEF SubsInv, TargetsSound, Exists
<1>4. \A q \in Procs : TxSound(tx[q])' /\ SavingSound(tx[q])'
  <2> TAKE q \in Procs
  <2>1. TxSound(tx'[q]) /\ SavingSound(tx'[q])
    BY <1>1 DEF SubsInv
  <2> QED
    BY <2>1 DEF TxSound, SavingSound, Exists, Options
<1>5. OneSaver'
  BY <1>1 DEF SubsInv, OneSaver, Saving
<1>6. OneRow'
  <2>1. \A s, r \in subs : Same(s, r) => s = r
    BY DEF SubsInv, OneRow
  <2>2. \A q \in Procs : \A r \in tx'[q].on, s \in subs : Same(s, r) => s \in tx'[q].off
    BY <1>1 DEF SubsInv, OneRow
  <2>3. \A q, o \in Procs : q # o => \A r \in tx'[q].on, s \in tx'[o].on : ~Same(s, r)
    <3> TAKE q, o \in Procs
    <3>1. SUFFICES ASSUME q # o, NEW r \in tx'[q].on, NEW s \in tx'[o].on, Same(s, r) PROVE FALSE
      OBVIOUS
    <3>2. CASE q = p
      BY <1>1, <3>1, <3>2
    <3>3. CASE o = p
      <4>1. Same(r, s)
        BY <3>1 DEF Same
      <4> QED
        BY <1>1, <3>1, <3>3, <4>1
    <3>4. CASE q # p /\ o # p
      BY <1>1, <3>1, <3>4 DEF SubsInv, OneRow
    <3> QED
      BY <3>2, <3>3, <3>4
  <2> QED
    BY <2>1, <2>2, <2>3 DEF OneRow, Same
<1> QED
  BY <1>2, <1>3, <1>4, <1>5, <1>6 DEF SubsInv

LEMMA SubsStay ==
  ASSUME SubsInv, UNCHANGED <<taxonomy, context, targets, subs, tx>>
  PROVE  SubsInv'
<1>1. TargetsSound'
  <2>1. DemandFitsCapacity'
    BY DemandKept DEF SubsInv, TargetsSound
  <2>2. PolicyFollowsSubscriptions'
    BY DEF SubsInv, TargetsSound, PolicyFollowsSubscriptions
  <2> QED
    BY <2>1, <2>2 DEF SubsInv, TargetsSound, Exists
<1>2. TablesTyped' /\ OneSaver' /\ OneRow' /\ OnboardingFollowsContext'
  BY DEF SubsInv, TablesTyped, OnboardingFollowsContext, OneSaver, Saving, OneRow, Same
<1>3. \A p \in Procs : TxSound(tx[p])' /\ SavingSound(tx[p])'
  BY DEF SubsInv, TxSound, SavingSound, Options, Exists
<1> QED
  BY <1>1, <1>2, <1>3 DEF SubsInv

LEMMA AbortStays ==
  ASSUME InterestsAreSound, SubsInv, NEW p \in Procs, Abort(p)
  PROVE  SubsInv'
<1>1. TxSound(NoTx) /\ SavingSound(NoTx)
  BY NoTxIs DEF TxSound, SavingSound
<1> QED
  BY <1>1, NoTxIs, TxMoves DEF Abort

LEMMA SaveStays ==
  ASSUME InterestsAreSound, SubsInv, NEW p \in Procs, NEW u \in Users, NEW c \in DOMAIN Chosen, NEW v \in 1 .. Contexts[u],
         upsert_user_context_snapshot(p, u, v, c)
  PROVE  SubsInv'
<1> DEFINE new == {<<"custom", t>> : t \in Chosen[c].custom \ Chosen[c].topics}
           want == {<<"taxonomy", t>> : t \in Chosen[c].topics} \cup new
           t == [NoTx EXCEPT !.pc = "deactivate", !.user = u, !.choice = c, !.version = v, !.up = new, !.want = want]
<1>1. /\ tx' = [tx EXCEPT ![p] = t] /\ UNCHANGED <<taxonomy, context, targets, subs>> /\ v > context[u].version
      /\ Chosen[c].topics = {} \/ (taxonomy /\ Chosen[c].topics \subseteq TaxonomyTopics)
      /\ \A q \in Procs : ~Saving(tx[q], u)
  BY DEF upsert_user_context_snapshot, Saving
<1>2. new \subseteq Keys /\ want \subseteq Keys
  BY <1>1 DEF InterestsAreSound, Keys
<1>3. /\ t \in TxRows /\ t.pc = "deactivate" /\ t.user = u /\ t.origin = "onboarding" /\ t.choice = c /\ t.version = v
      /\ t.up = new /\ t.want = want /\ t.off = {} /\ t.on = {}
  <2>1. c \in Nat /\ v \in Nat
    BY DEF InterestsAreSound
  <2>2. NoTx \in TxRows /\ NoTx.origin = "onboarding"
    BY NoTxIs DEF NoTx
  <2> HIDE DEF new, want
  <2> QED
    BY <1>2, <2>1, <2>2, NoTxIs DEF TxRows
<1>4. \A k \in want : k \in new \/ Exists(k)
  BY <1>1 DEF SubsInv, TargetsSound
<1>5. want \subseteq Options(c)
  BY DEF Options
<1> HIDE DEF new, want, t
<1>6. TxSound(t)
  BY <1>3, <1>4 DEF TxSound
<1>7. SavingSound(t)
  BY <1>1, <1>3, <1>5 DEF SavingSound, InterestsAreSound
<1> QED
  BY <1>1, <1>3, <1>6, <1>7, TxMoves

LEMMA RegisterStays ==
  ASSUME InterestsAreSound, SubsInv, ProfilesSound, NEW p \in Procs, _register_wiki_interest_targets(p)
  PROVE  SubsInv'
<1> DEFINE u == calc[p].user
           names == WikiTopics(calc[p].interests)
           Active(n) == {k \in Keys : k[2] = n /\ targets[k].status = "active"}
<1>0. u \in Users /\ names \subseteq QueryTopics
  <2>1. \A i \in calc[p].interests : i.topic \in QueryTopics
    BY DEF ProfilesSound
  <2> QED
    BY <2>1 DEF ProfilesSound, WikiTopics
<1>1. CASE UNCHANGED tx
  BY <1>1, SubsStay DEF _register_wiki_interest_targets
<1>2. CASE ~UNCHANGED tx
  <2>1. PICK pick \in [names -> Keys] :
          LET new == {pick[n] : n \in {m \in names : Active(m) = {}}}
          IN  /\ \A n \in names : pick[n] \in IF Active(n) = {} THEN {<<"custom", n>>} ELSE Active(n)
              /\ Upserts(p, new)
              /\ tx' = [tx EXCEPT ![p] = [NoTx EXCEPT !.pc = "deactivate", !.user = u, !.origin = "wiki_interest",
                                                      !.want = {pick[n] : n \in names}, !.up = new]]
    BY <1>2 DEF _register_wiki_interest_targets
  <2> DEFINE new == {pick[n] : n \in {m \in names : Active(m) = {}}}
             want == {pick[n] : n \in names}
             t == [NoTx EXCEPT !.pc = "deactivate", !.user = u, !.origin = "wiki_interest", !.want = want, !.up = new]
  <2>2. tx' = [tx EXCEPT ![p] = t] /\ UNCHANGED <<taxonomy, context, targets, subs>>
    BY <2>1 DEF _register_wiki_interest_targets
  <2>3. new \subseteq Keys /\ want \subseteq Keys
    BY <2>1
  <2>4. \A k \in want : k \in new \/ Exists(k)
    <3> TAKE k \in want
    <3>1. PICK n \in names : k = pick[n]
      OBVIOUS
    <3>2. CASE Active(n) = {}
      BY <3>1, <3>2
    <3>3. CASE Active(n) # {}
      BY <2>1, <3>1, <3>3 DEF Exists
    <3> QED
      BY <3>2, <3>3
  <2>5. /\ t \in TxRows /\ t.pc = "deactivate" /\ t.origin = "wiki_interest" /\ t.version = 0
        /\ t.up = new /\ t.want = want /\ t.off = {} /\ t.on = {}
    <3> HIDE DEF new, want, u
    <3> QED
      BY <1>0, <2>3, NoTxIs DEF TxRows, Origins
  <2> HIDE DEF new, want, t
  <2>6. TxSound(t) /\ SavingSound(t)
    BY <2>4, <2>5 DEF TxSound, SavingSound
  <2> QED
    BY <2>2, <2>5, <2>6, TxMoves
<1> QED
  BY <1>1, <1>2

LEMMA DeactivateStays ==
  ASSUME SubsInv, NEW p \in Procs, Deactivate(p)
  PROVE  SubsInv'
<1> DEFINE off == {s \in subs : s.user = tx[p].user /\ s.origin = tx[p].origin}
           t == [tx[p] EXCEPT !.pc = "waiting", !.off = off]
<1>1. tx' = [tx EXCEPT ![p] = t] /\ UNCHANGED <<taxonomy, context, targets, subs>> /\ tx[p].pc = "deactivate"
  BY DEF Deactivate, SubsInv, TablesTyped
<1>2. off \subseteq Subscription /\ TablesTyped /\ TxSound(tx[p]) /\ SavingSound(tx[p]) /\ OneSaver
  BY DEF SubsInv, TablesTyped
<1>3. /\ t \in TxRows /\ t.pc = "waiting" /\ t.off = off /\ t.on = tx[p].on
      /\ t.user = tx[p].user /\ t.origin = tx[p].origin /\ t.want = tx[p].want /\ t.up = tx[p].up
      /\ t.version = tx[p].version /\ t.choice = tx[p].choice
  <2> HIDE DEF off
  <2> QED
    BY <1>2, TxIs DEF TxRows
<1>4. t.on = {}
  BY <1>1, <1>2, <1>3 DEF TxSound
<1> HIDE DEF t
<1>5. TxSound(t)
  BY <1>1, <1>2, <1>3, <1>4 DEF TxSound
<1>6. SavingSound(t)
  BY <1>1, <1>2, <1>3 DEF SavingSound
<1>7. \A q \in Procs \ {p} : ~ (t.origin = "onboarding" /\ Saving(tx[q], t.user))
  BY <1>1, <1>2, <1>3 DEF OneSaver, Saving
<1> QED
  BY <1>1, <1>3, <1>4, <1>5, <1>6, <1>7, TxMoves

LEMMA DeactivatedStays ==
  ASSUME SubsInv, NEW p \in Procs, Deactivated(p)
  PROVE  SubsInv'
<1> DEFINE t == [tx[p] EXCEPT !.pc = "insert"]
<1>1. tx' = [tx EXCEPT ![p] = t] /\ UNCHANGED <<taxonomy, context, targets, subs>> /\ tx[p].pc = "waiting"
  BY DEF Deactivated, SubsInv, TablesTyped
<1>2. TablesTyped /\ TxSound(tx[p]) /\ SavingSound(tx[p]) /\ OneSaver
  BY DEF SubsInv
<1>3. /\ t \in TxRows /\ t.pc = "insert" /\ t.off = tx[p].off /\ t.on = tx[p].on
      /\ t.user = tx[p].user /\ t.origin = tx[p].origin /\ t.want = tx[p].want /\ t.up = tx[p].up
      /\ t.version = tx[p].version /\ t.choice = tx[p].choice
  BY <1>2, TxIs DEF TxRows
<1>4. t.on = {}
  BY <1>1, <1>2, <1>3 DEF TxSound
<1> HIDE DEF t
<1>5. TxSound(t)
  BY <1>1, <1>2, <1>3, <1>4 DEF TxSound
<1>6. SavingSound(t)
  BY <1>1, <1>2, <1>3 DEF SavingSound
<1>7. \A q \in Procs \ {p} : ~ (t.origin = "onboarding" /\ Saving(tx[q], t.user))
  BY <1>1, <1>2, <1>3 DEF OneSaver, Saving
<1> QED
  BY <1>1, <1>3, <1>4, <1>5, <1>6, <1>7, TxMoves

LEMMA InsertStays ==
  ASSUME SubsInv, NEW p \in Procs, InsertSubscriptions(p)
  PROVE  SubsInv'
<1> DEFINE Row(k) == [user |-> tx[p].user, key |-> k, origin |-> tx[p].origin]
           taken == {s.key : s \in {r \in subs \ tx[p].off : r.user = tx[p].user}}
           on == {Row(k) : k \in tx[p].want \ taken}
           t == [tx[p] EXCEPT !.pc = "reconcile", !.on = on]
<1>1. /\ tx' = [tx EXCEPT ![p] = t] /\ UNCHANGED <<taxonomy, context, targets, subs>> /\ tx[p].pc = "insert"
      /\ \A q \in Procs \ {p} : \A s \in Held(q) : s.user = tx[p].user => s.key \notin tx[p].want
  BY DEF InsertSubscriptions, SubsInv, TablesTyped
<1>2. TablesTyped /\ TxSound(tx[p]) /\ SavingSound(tx[p]) /\ OneSaver
  BY DEF SubsInv
<1>3. on \subseteq Subscription /\ \A s \in on : s.user = tx[p].user /\ s.origin = tx[p].origin /\ s.key \in tx[p].want \ taken
  BY <1>2, TxIs DEF Subscription, Origins
<1>4. /\ t \in TxRows /\ t.pc = "reconcile" /\ t.off = tx[p].off /\ t.on = on
      /\ t.user = tx[p].user /\ t.origin = tx[p].origin /\ t.want = tx[p].want /\ t.up = tx[p].up
      /\ t.version = tx[p].version /\ t.choice = tx[p].choice
  <2> HIDE DEF on
  <2> QED
    BY <1>2, <1>3, TxIs DEF TxRows
<1>5. \A r \in on, s \in subs : Same(s, r) => s \in tx[p].off
  <2>1. SUFFICES ASSUME NEW r \in on, NEW s \in subs, Same(s, r), s \notin tx[p].off PROVE FALSE
    OBVIOUS
  <2>2. s.user = tx[p].user /\ s.key = r.key
    BY <1>3, <2>1 DEF Same
  <2>3. s.key \in taken
    BY <2>1, <2>2
  <2> QED
    BY <1>3, <2>2, <2>3
<1>6. \A q \in Procs \ {p} : \A r \in on, s \in tx[q].on : ~Same(s, r)
  <2>1. SUFFICES ASSUME NEW q \in Procs \ {p}, NEW r \in on, NEW s \in tx[q].on, Same(s, r) PROVE FALSE
    OBVIOUS
  <2>2. TxSound(tx[q])
    BY DEF SubsInv
  <2>3. s \in Held(q)
    BY <2>1, <2>2 DEF Held, TxSound
  <2> QED
    BY <1>1, <1>3, <2>1, <2>3 DEF Same
<1> HIDE DEF t, on, taken
<1>7. TxSound(t)
  BY <1>2, <1>3, <1>4 DEF TxSound
<1>8. SavingSound(t)
  BY <1>1, <1>2, <1>4 DEF SavingSound
<1>9. \A q \in Procs \ {p} : ~ (t.origin = "onboarding" /\ Saving(tx[q], t.user))
  BY <1>1, <1>2, <1>4 DEF OneSaver, Saving
<1> QED
  BY <1>1, <1>4, <1>5, <1>6, <1>7, <1>8, <1>9, TxMoves

LEMMA TaxonomyStays ==
  ASSUME InterestsAreSound, SubsInv, upsert_interest_taxonomy_snapshot
  PROVE  SubsInv'
<1>1. /\ taxonomy' = TRUE /\ UNCHANGED <<context, subs, tx>>
      /\ targets' = [k \in Keys |-> IF k[1] = "taxonomy" /\ k[2] \in TaxonomyTopics /\ targets[k] = NoTarget
                                    THEN NewTarget ELSE targets[k]]
  BY DEF upsert_interest_taxonomy_snapshot
<1>2. TablesTyped /\ TargetsSound
  BY DEF SubsInv
<1>3. \A k \in Keys : targets'[k] = targets[k] \/ (targets[k] = NoTarget /\ targets'[k] = NewTarget)
  BY <1>1
<1>4. \A k \in Keys : Exists(k) => targets'[k] = targets[k]
  BY <1>3 DEF Exists, NoTarget
<1>5. \A k \in Keys : Exists(k) => Exists(k)'
  BY <1>4 DEF Exists
<1>6. \A k \in Keys : targets'[k].count = targets[k].count /\ targets'[k].interval = targets[k].interval
  BY <1>3 DEF NoTarget, NewTarget
<1>7. TablesTyped'
  <2>1. targets' \in [Keys -> TargetRows]
    BY <1>1, <1>2, TargetsAre DEF TablesTyped
  <2> QED
    BY <1>1, <1>2, <2>1 DEF TablesTyped
<1>8. TargetsSound'
  <2>1. \A k \in Keys : ~Exists(k)' => targets'[k] = NoTarget
    BY <1>2, <1>3, <1>5 DEF TargetsSound, Exists, NewTarget
  <2>2. \A t \in TaxonomyTopics : Exists(<<"taxonomy", t>>)'
    <3> TAKE t \in TaxonomyTopics
    <3> DEFINE k == <<"taxonomy", t>>
    <3>1. k \in Keys /\ k[1] = "taxonomy" /\ k[2] = t
      BY DEF Keys, InterestsAreSound
    <3> HIDE DEF k
    <3>2. CASE Exists(k)
      BY <1>5, <3>1, <3>2 DEF k
    <3>3. CASE ~Exists(k)
      <4>1. targets'[k] = NewTarget
        BY <1>1, <1>2, <3>1, <3>3 DEF TargetsSound
      <4> QED
        BY <4>1 DEF Exists, NewTarget, k
    <3> QED
      BY <3>2, <3>3
  <2>3. \A s \in subs' : Exists(s.key)'
    <3> TAKE s \in subs'
    <3>1. s \in subs /\ s.key \in Keys
      BY <1>1, <1>2 DEF TablesTyped, Subscription
    <3> QED
      BY <1>2, <1>5, <3>1 DEF TargetsSound
  <2>4. PolicyFollowsSubscriptions'
    <3>1. SUFFICES ASSUME NEW k \in Keys
                   PROVE  targets'[k].count = Subscribers(subs, k) /\ (targets'[k].count > 0 => targets'[k].status = "active")
      BY <1>1 DEF PolicyFollowsSubscriptions
    <3>2. targets[k].count = Subscribers(subs, k) /\ (targets[k].count > 0 => targets[k].status = "active")
      BY <1>2 DEF TargetsSound, PolicyFollowsSubscriptions
    <3> QED
      BY <1>3, <3>2 DEF NoTarget, NewTarget
  <2>5. DemandFitsCapacity'
    BY <1>2, <1>6, DemandKept DEF TargetsSound
  <2> QED
    BY <2>1, <2>2, <2>3, <2>4, <2>5 DEF TargetsSound
<1>9. \A p \in Procs : TxSound(tx[p])' /\ SavingSound(tx[p])'
  <2> TAKE p \in Procs
  <2>1. TxSound(tx[p]) /\ SavingSound(tx[p]) /\ tx[p].want \subseteq Keys
    BY <1>2, TxIs DEF SubsInv
  <2>2. \A k \in tx[p].want : k \in tx[p].up \/ Exists(k)'
    BY <1>5, <2>1 DEF TxSound
  <2>3. TxSound(tx[p])'
    BY <1>1, <2>1, <2>2 DEF TxSound
  <2> QED
    BY <1>1, <2>1, <2>3 DEF SavingSound, Options
<1>10. OneSaver' /\ OneRow' /\ OnboardingFollowsContext'
  BY <1>1 DEF SubsInv, OneSaver, Saving, OneRow, Same, OnboardingFollowsContext
<1> QED
  BY <1>7, <1>8, <1>9, <1>10 DEF SubsInv

-----------------------------------------------------------------------------
(* Interests: a transaction counts what is committed, and commits.         *)

Left(t) == (subs \ t.off) \cup t.on

\* A user has one row for a target.
LEMMA LeftIs ==
  ASSUME SubsInv, NEW p \in Procs
  PROVE  /\ Left(tx[p]) \subseteq Subscription
         /\ \A s, r \in Left(tx[p]) : s.user = r.user /\ s.key = r.key => s = r
<1>1. TablesTyped /\ OneRow /\ TxSound(tx[p]) /\ tx[p].on \subseteq Subscription
  BY TxIs DEF SubsInv
<1>2. Left(tx[p]) \subseteq Subscription
  BY <1>1 DEF Left, TablesTyped
<1>3. \A s \in subs \ tx[p].off, r \in tx[p].on : ~Same(s, r)
  BY <1>1 DEF OneRow
<1>4. \A s, r \in tx[p].on : s.user = r.user /\ s.key = r.key => s = r
  BY <1>1 DEF TxSound, Subscription
<1>5. \A s, r \in subs : s.user = r.user /\ s.key = r.key => s = r
  BY <1>1 DEF OneRow, Same
<1> QED
  BY <1>2, <1>3, <1>4, <1>5 DEF Left, Same

\* The targets of a transaction that commits: those that it found or wrote.
Known(t, k) == Exists(k) \/ k \in t.up
LEMMA WrittenIs ==
  ASSUME InterestsAreSound, SubsInv, NEW p \in Procs, NEW k \in Keys
  PROVE  LET w == Upserted(targets, tx[p].up)[k]
         IN  /\ w \in TargetRows
             /\ w.status # "none" <=> Known(tx[p], k)
             /\ ~Known(tx[p], k) => w = NoTarget
<1>1. targets \in [Keys -> TargetRows] /\ (~Exists(k) => targets[k] = NoTarget)
  BY DEF SubsInv, TablesTyped, TargetsSound
<1>2. targets[k] \in TargetRows
  BY <1>1
<1>3. [targets[k] EXCEPT !.status = "active"] \in TargetRows /\ [targets[k] EXCEPT !.status = "active"].status = "active"
  BY <1>2 DEF TargetRows
<1>4. NoTarget.status = "none" /\ NewTarget.status = "active" /\ NoTarget \in TargetRows /\ NewTarget \in TargetRows
  BY TargetsAre DEF NoTarget, NewTarget
<1>5. Upserted(targets, tx[p].up)[k] = IF k \notin tx[p].up THEN targets[k]
                                       ELSE IF targets[k] = NoTarget THEN NewTarget
                                       ELSE [targets[k] EXCEPT !.status = "active"]
  BY DEF Upserted
<1> QED
  BY <1>1, <1>2, <1>3, <1>4, <1>5 DEF Known, Exists

LEMMA CommittedIs ==
  ASSUME InterestsAreSound, SubsInv, NEW p \in Procs, ReconcileAndCommit(p)
  PROVE  /\ subs' = Left(tx[p]) /\ targets' \in [Keys -> TargetRows]
         /\ \A k \in Keys : /\ targets'[k].count = Subscribers(subs', k)
                            /\ Exists(k)' <=> Known(tx[p], k)
                            /\ ~Exists(k)' => targets'[k] = NoTarget
                            /\ targets'[k].count > 0 => /\ targets'[k].status = "active"
                                                        /\ targets'[k].interval = _scaled_collection_refresh_intervals(subs', k)
<1> DEFINE w == Upserted(targets, tx[p].up)
           left == Left(tx[p])
<1>1. subs' = left /\ targets' = _reconcile_collection_target_policy(w, left)
  BY DEF ReconcileAndCommit, Left
<1>2. left \subseteq Subscription /\ \A s, r \in left : s.user = r.user /\ s.key = r.key => s = r
  BY LeftIs
<1>3. \A k \in Keys : Known(tx[p], k) \/ Subscribers(left, k) = 0
  <2> TAKE k \in Keys
  <2>1. SUFFICES ASSUME Subscribers(left, k) # 0 PROVE Known(tx[p], k)
    OBVIOUS
  <2>2. Subscribers(left, k) \in 0 .. Cardinality(Users) /\ (Subscribers(left, k) > 0 <=> \E s \in left : s.key = k)
    BY <1>2, SubscribersAre
  <2>3. PICK s \in left : s.key = k
    BY <2>1, <2>2
  <2>4. TxSound(tx[p]) /\ TargetsSound
    BY DEF SubsInv
  <2> QED
    BY <2>3, <2>4 DEF TxSound, TargetsSound, Left, Known
<1>4. \A k \in Keys : targets'[k] = IF w[k].status = "none" THEN w[k]
                        ELSE LET n == Subscribers(left, k)
                             IN  [status |-> IF n = 0 THEN "paused" ELSE "active", count |-> n,
                                  interval |-> IF n = 0 THEN w[k].interval ELSE _scaled_collection_refresh_intervals(left, k)]
  BY <1>1 DEF _reconcile_collection_target_policy
<1>5. \A k \in Keys : /\ targets'[k] \in TargetRows
                      /\ targets'[k].count = Subscribers(left, k)
                      /\ targets'[k].status # "none" <=> Known(tx[p], k)
                      /\ targets'[k].status = "none" => targets'[k] = NoTarget
                      /\ targets'[k].count > 0 => /\ targets'[k].status = "active"
                                                  /\ targets'[k].interval = _scaled_collection_refresh_intervals(left, k)
  <2> TAKE k \in Keys
  <2>1. /\ w[k] \in TargetRows /\ (w[k].status # "none" <=> Known(tx[p], k))
        /\ ~Known(tx[p], k) => w[k] = NoTarget
    BY WrittenIs
  <2>2. Subscribers(left, k) \in Nat
    <3>1. Cardinality(Users) \in Nat /\ Subscribers(left, k) \in 0 .. Cardinality(Users)
      BY <1>2, SubscribersAre, FS_CardinalityType DEF InterestsAreSound
    <3> QED
      BY <3>1
  <2>3. _scaled_collection_refresh_intervals(left, k) \in 1 .. MaxInterval
    BY <1>2, IntervalsAre
  <2> HIDE DEF w, left
  <2>4. CASE Known(tx[p], k)
    <3> DEFINE n == Subscribers(left, k)
               i == _scaled_collection_refresh_intervals(left, k)
    <3>1. targets'[k] = [status |-> IF n = 0 THEN "paused" ELSE "active", count |-> n,
                         interval |-> IF n = 0 THEN w[k].interval ELSE i]
      BY <1>4, <2>1, <2>4
    <3>2. n \in Nat /\ i \in 1 .. MaxInterval /\ w[k].interval \in 1 .. MaxInterval
      BY <2>1, <2>2, <2>3 DEF TargetRows
    <3> HIDE DEF n, i
    <3>3. targets'[k].status = (IF n = 0 THEN "paused" ELSE "active") /\ targets'[k].count = n
      BY <3>1
    <3>4. targets'[k] \in TargetRows
      BY <3>1, <3>2 DEF TargetRows
    <3>5. n > 0 => targets'[k].status = "active" /\ targets'[k].interval = i
      BY <3>1, <3>2
    <3> QED
      BY <2>4, <3>3, <3>4, <3>5 DEF n, i
  <2>5. CASE ~Known(tx[p], k)
    <3>1. targets'[k] = NoTarget /\ Subscribers(left, k) = 0
      BY <1>3, <1>4, <2>1, <2>5
    <3> QED
      BY <2>5, <3>1, TargetsAre DEF NoTarget
  <2> QED
    BY <2>4, <2>5
<1>6. targets' \in [Keys -> TargetRows]
  <2>1. targets' = [k \in Keys |-> targets'[k]]
    BY <1>1 DEF _reconcile_collection_target_policy
  <2> QED
    BY <1>5, <2>1
<1> HIDE DEF w, left
<1>7. PICK l : l = left
  OBVIOUS
<1>8. \A k \in Keys : /\ targets'[k].count = Subscribers(subs', k)
                      /\ targets'[k].count > 0 => /\ targets'[k].status = "active"
                                                  /\ targets'[k].interval = _scaled_collection_refresh_intervals(subs', k)
  BY <1>1, <1>5
<1> QED
  BY <1>1, <1>5, <1>6, <1>8 DEF Exists, left

\* The demand of what is committed is within the capacity.
LEMMA CommittedFits ==
  ASSUME InterestsAreSound, SubsInv, NEW p \in Procs, ReconcileAndCommit(p)
  PROVE  DemandFitsCapacity'
<1>1. PICK ss : ss = subs'
  OBVIOUS
<1>2. PICK I : I = [k \in Keys |-> targets'[k].interval]
  OBVIOUS
<1>3. ss \subseteq Subscription /\ \A s, r \in ss : s.user = r.user /\ s.key = r.key => s = r
  BY <1>1, LeftIs, CommittedIs
<1>4. \A k \in Keys : /\ targets'[k].count = Subscribers(ss, k)
                      /\ targets'[k].count > 0 => targets'[k].interval = _scaled_collection_refresh_intervals(ss, k)
  BY <1>1, CommittedIs
<1>5. \A k \in Keys : targets'[k].count > 0 <=> k \in Followed(ss)
  BY <1>3, <1>4, SubscribersAre DEF Followed
<1>6. {k \in Keys : targets'[k].count > 0} = Followed(ss)
  BY <1>3, <1>5 DEF Followed, Subscription
<1>7. SUFFICES FitsCapacity(Followed(ss), I)
  BY <1>2, <1>6 DEF DemandFitsCapacity
<1>8. CASE \A k \in Followed(ss) : I[k] < MaxInterval
  <2>1. \A k \in Followed(ss) : /\ I[k] \in 1 .. MaxInterval
                                /\ Ceiling(ss) * I[k] >= _base_collection_refresh_interval(Subscribers(ss, k)) * BaseDemand(ss)
    <3> TAKE k \in Followed(ss)
    <3>1. k \in Keys /\ targets'[k].count > 0
      BY <1>6
    <3>2. I[k] = _scaled_collection_refresh_intervals(ss, k) /\ I[k] < MaxInterval
      BY <1>2, <1>4, <1>8, <3>1
    <3> QED
      BY <1>3, <3>1, <3>2, IntervalsAre
  <2> QED
    BY <1>3, <2>1, ScaledFits
<1>9. CASE ~ (\A k \in Followed(ss) : I[k] < MaxInterval)
  BY <1>9 DEF FitsCapacity
<1> QED
  BY <1>8, <1>9

LEMMA ReconcileStays ==
  ASSUME InterestsAreSound, SubsInv, NEW p \in Procs, ReconcileAndCommit(p)
  PROVE  SubsInv'
<1> DEFINE me == tx[p]
<1>1. /\ UNCHANGED taxonomy /\ me.pc = "reconcile"
      /\ context' = IF me.version <= context[me.user].version THEN context
                    ELSE [context EXCEPT ![me.user] = [version |-> me.version, choice |-> me.choice]]
      /\ tx' = [q \in Procs |-> IF q = p THEN NoTx
                                ELSE IF tx[q].pc = "waiting" THEN [tx[q] EXCEPT !.off = @ \ me.off] ELSE tx[q]]
      /\ subs' = (subs \ me.off) \cup me.on
  BY DEF ReconcileAndCommit
<1>2. /\ TablesTyped /\ TargetsSound /\ OneSaver /\ OneRow /\ OnboardingFollowsContext
      /\ \A q \in Procs : TxSound(tx[q]) /\ SavingSound(tx[q])
  BY DEF SubsInv
<1>3. /\ me \in TxRows /\ me.user \in Users /\ me.version \in Nat /\ me.choice \in Nat
      /\ TxSound(me) /\ SavingSound(me)
  BY <1>2, TxIs
<1>4. \A q \in Procs \ {p} :
        /\ tx'[q] \in TxRows /\ tx'[q].pc = tx[q].pc /\ tx'[q].user = tx[q].user /\ tx'[q].origin = tx[q].origin
        /\ tx'[q].version = tx[q].version /\ tx'[q].choice = tx[q].choice /\ tx'[q].want = tx[q].want
        /\ tx'[q].up = tx[q].up /\ tx'[q].on = tx[q].on /\ tx'[q].off \subseteq tx[q].off
        /\ tx[q].off \ me.off \subseteq tx'[q].off
        /\ tx[q].pc # "waiting" => tx'[q].off = tx[q].off
  <2> TAKE q \in Procs \ {p}
  <2>1. PICK off : off = tx[q].off \ me.off
    OBVIOUS
  <2>2. tx[q] \in TxRows /\ off \subseteq Subscription
    BY <1>2, <2>1, TxIs
  <2>3. tx'[q] = IF tx[q].pc = "waiting" THEN [tx[q] EXCEPT !.off = off] ELSE tx[q]
    BY <1>1, <2>1
  <2> QED
    BY <2>1, <2>2, <2>3 DEF TxRows
<1>5. tx'[p] = NoTx /\ DOMAIN tx' = Procs
  BY <1>1
<1>6. me.version > context[me.user].version => me.origin = "onboarding"
  <2>1. context[me.user].version \in Nat
    BY <1>2, <1>3 DEF TablesTyped
  <2> QED
    BY <1>3, <2>1 DEF SavingSound
<1>7. \A q \in Procs \ {p} : me.origin = "onboarding" => ~Saving(tx[q], me.user)
  <2>1. me.origin = "onboarding" => Saving(me, me.user)
    BY <1>1 DEF Saving
  <2> QED
    BY <1>2, <2>1 DEF OneSaver, Saving
<1>8. TablesTyped'
  <2>1. targets' \in [Keys -> TargetRows] /\ subs' \subseteq Subscription
    BY CommittedIs, LeftIs
  <2>2. tx' \in [Procs -> TxRows]
    <3>1. tx' = [q \in Procs |-> tx'[q]]
      BY <1>1
    <3>2. \A q \in Procs : tx'[q] \in TxRows
      BY <1>4, <1>5, NoTxIs
    <3> QED
      BY <3>1, <3>2
  <2>3. context' \in [Users -> [version : Nat, choice : Nat]]
    BY <1>1, <1>2, <1>3 DEF TablesTyped
  <2>4. \A u \in Users : context'[u].version <= Contexts[u] /\ (context'[u].choice = 0 <=> context'[u].version = 0)
    <3> TAKE u \in Users
    <3>1. CASE context'[u] = context[u]
      BY <1>2, <3>1 DEF TablesTyped
    <3>2. CASE context'[u] # context[u]
      <4>1. me.version > context[me.user].version /\ u = me.user /\ context'[u] = [version |-> me.version, choice |-> me.choice]
        <5>1. context[me.user].version \in Nat
          BY <1>2, <1>3 DEF TablesTyped
        <5> QED
          BY <1>1, <1>2, <1>3, <3>2, <5>1 DEF TablesTyped
      <4>2. me.version <= Contexts[me.user] /\ me.choice # 0 /\ context[me.user].version < me.version
        BY <1>1, <1>3, <1>6, <4>1 DEF SavingSound
      <4>3. context[me.user].version \in Nat
        BY <1>2, <1>3 DEF TablesTyped
      <4>4. context'[u].version = me.version /\ context'[u].choice = me.choice
        BY <4>1
      <4> QED
        BY <1>3, <4>1, <4>2, <4>3, <4>4
    <3> QED
      BY <3>1, <3>2
  <2> QED
    BY <1>1, <1>2, <2>1, <2>2, <2>3, <2>4 DEF TablesTyped
<1>9. \A k \in Keys : (Exists(k) \/ k \in me.up) => Exists(k)'
  BY CommittedIs DEF Known
<1>10. TargetsSound'
  <2>1. \A k \in Keys : ~Exists(k)' => targets'[k] = NoTarget
    BY CommittedIs
  <2>2. taxonomy' => \A t \in TaxonomyTopics : Exists(<<"taxonomy", t>>)'
    <3>1. \A t \in TaxonomyTopics : <<"taxonomy", t>> \in Keys
      BY DEF InterestsAreSound, Keys
    <3> QED
      BY <1>1, <1>2, <1>9, <3>1 DEF TargetsSound
  <2>3. \A s \in subs' : Exists(s.key)'
    <3> TAKE s \in subs'
    <3>1. s.key \in Keys
      BY CommittedIs, LeftIs DEF Subscription
    <3>2. Exists(s.key) \/ s.key \in me.up
      BY <1>1, <1>2, <1>3 DEF TargetsSound, TxSound
    <3> QED
      BY <1>9, <3>1, <3>2
  <2>4. PolicyFollowsSubscriptions'
    BY CommittedIs DEF PolicyFollowsSubscriptions
  <2>5. DemandFitsCapacity'
    BY CommittedFits
  <2> QED
    BY <2>1, <2>2, <2>3, <2>4, <2>5 DEF TargetsSound
<1>11. \A q \in Procs : TxSound(tx[q])' /\ SavingSound(tx[q])'
  <2> TAKE q \in Procs
  <2>1. CASE q = p
    <3>1. tx'[q] = NoTx
      BY <1>5, <2>1
    <3> QED
      BY <3>1, NoTxIs DEF TxSound, SavingSound
  <2>2. CASE q # p
    <3>1. TxSound(tx[q]) /\ SavingSound(tx[q]) /\ tx[q].want \subseteq Keys /\ tx[q].user \in Users /\ tx[q].version \in Nat
      BY <1>2, TxIs
    <3>2. TxSound(tx[q])'
      <4>1. \A k \in tx'[q].want : k \in tx'[q].up \/ Exists(k)'
        BY <1>4, <1>9, <2>2, <3>1 DEF TxSound
      <4>2. tx'[q].pc = "none" => tx'[q] = NoTx
        <5>1. SUFFICES ASSUME tx[q].pc = "none" PROVE tx'[q] = tx[q] /\ tx[q] = NoTx
          BY <1>4, <2>2
        <5> QED
          BY <1>1, <2>2, <3>1, <5>1 DEF TxSound
      <4>3. tx'[q].pc = "deactivate" => tx'[q].off = {}
        BY <1>4, <2>2, <3>1 DEF TxSound
      <4>4. tx'[q].pc # "reconcile" => tx'[q].on = {}
        BY <1>4, <2>2, <3>1 DEF TxSound
      <4>5. \A s \in tx'[q].off \cup tx'[q].on : s.user = tx'[q].user /\ s.origin = tx'[q].origin
        BY <1>4, <2>2, <3>1 DEF TxSound
      <4>6. \A s \in tx'[q].on : s.key \in tx'[q].want
        BY <1>4, <2>2, <3>1 DEF TxSound
      <4> QED
        BY <4>1, <4>2, <4>3, <4>4, <4>5, <4>6 DEF TxSound
    <3>3. SavingSound(tx[q])'
      <4>1. CASE tx[q].pc # "none" /\ tx[q].origin = "onboarding"
        <5>1. ~ (me.origin = "onboarding" /\ me.user = tx[q].user)
          BY <1>7, <2>2, <4>1 DEF Saving
        <5>2. context'[tx[q].user] = context[tx[q].user]
          <6>1. CASE me.version <= context[me.user].version
            BY <1>1, <6>1
          <6>2. CASE ~ (me.version <= context[me.user].version)
            <7>1. context[me.user].version \in Nat
              BY <1>2, <1>3 DEF TablesTyped
            <7>2. me.user # tx[q].user
              BY <1>3, <1>6, <5>1, <6>2, <7>1
            <7> QED
              BY <1>1, <6>2, <7>2
          <6> QED
            BY <6>1, <6>2
        <5>3. tx[q].pc # "deactivate" => \A s \in subs' : s.user = tx[q].user /\ s.origin = "onboarding" => s \in tx'[q].off
          <6>1. SUFFICES ASSUME tx[q].pc # "deactivate", NEW s \in subs', s.user = tx[q].user, s.origin = "onboarding"
                         PROVE  s \in tx'[q].off
            OBVIOUS
          <6>2. s \notin me.on
            BY <1>3, <5>1, <6>1 DEF TxSound
          <6>3. s \in subs /\ s \notin me.off
            BY <1>1, <6>1, <6>2
          <6>4. s \in tx[q].off
            BY <3>1, <4>1, <6>1, <6>3 DEF SavingSound
          <6> QED
            BY <1>4, <2>2, <6>3, <6>4
        <5>4. tx[q].version \in Nat /\ context[tx[q].user].version < tx[q].version /\ tx[q].version <= Contexts[tx[q].user]
              /\ tx[q].choice # 0 /\ tx[q].want \subseteq Options(tx[q].choice)
          BY <3>1, <4>1 DEF SavingSound
        <5>5. tx'[q].pc = tx[q].pc /\ tx'[q].user = tx[q].user /\ tx'[q].origin = tx[q].origin
              /\ tx'[q].version = tx[q].version /\ tx'[q].choice = tx[q].choice /\ tx'[q].want = tx[q].want
          BY <1>4, <2>2
        <5> QED
          BY <4>1, <5>2, <5>3, <5>4, <5>5 DEF SavingSound, Options
      <4>2. CASE ~ (tx[q].pc # "none" /\ tx[q].origin = "onboarding")
        <5>1. tx[q].version = 0
          BY <3>1, <4>2 DEF SavingSound
        <5> QED
          BY <1>4, <2>2, <4>2, <5>1 DEF SavingSound
      <4> QED
        BY <4>1, <4>2
    <3> QED
      BY <3>2, <3>3
  <2> QED
    BY <2>1, <2>2
<1>12. OneSaver'
  <2>1. NoTx.pc = "none"
    BY NoTxIs
  <2> QED
    BY <1>2, <1>4, <1>5, <2>1 DEF OneSaver, Saving
<1>13. OneRow'
  <2>1. \A s, r \in subs' : Same(s, r) => s = r
    BY CommittedIs, LeftIs DEF Same
  <2>2. \A q \in Procs : \A r \in tx'[q].on, s \in subs' : Same(s, r) => s \in tx'[q].off
    <3>1. SUFFICES ASSUME NEW q \in Procs, NEW r \in tx'[q].on, NEW s \in subs', Same(s, r) PROVE s \in tx'[q].off
      OBVIOUS
    <3>2. q # p /\ r \in tx[q].on
      BY <1>4, <1>5, <3>1, NoTxIs
    <3>3. tx'[q].off = tx[q].off
      BY <1>2, <1>4, <3>2 DEF TxSound
    <3>4. s \notin me.on
      BY <1>2, <3>1, <3>2 DEF OneRow
    <3>5. s \in subs
      BY <1>1, <3>4
    <3> QED
      BY <1>2, <3>1, <3>2, <3>3, <3>5 DEF OneRow
  <2>3. \A q, o \in Procs : q # o => \A r \in tx'[q].on, s \in tx'[o].on : ~Same(s, r)
    <3> TAKE q, o \in Procs
    <3>1. tx'[q].on \subseteq tx[q].on /\ tx'[o].on \subseteq tx[o].on
      BY <1>4, <1>5, NoTxIs
    <3> QED
      BY <1>2, <3>1 DEF OneRow
  <2> QED
    BY <2>1, <2>2, <2>3 DEF OneRow, Same
<1>14. OnboardingFollowsContext'
  <2>1. SUFFICES ASSUME NEW s \in subs', s.origin = "onboarding" PROVE s.key \in Options(context'[s.user].choice)
    BY DEF OnboardingFollowsContext, Options
  <2>2. CASE s \in me.on
    <3>1. s.user = me.user /\ s.origin = me.origin /\ s.key \in me.want
      BY <1>3, <2>2 DEF TxSound
    <3>2. context[me.user].version < me.version /\ me.want \subseteq Options(me.choice)
      BY <1>1, <1>3, <2>1, <3>1 DEF SavingSound
    <3>3. context[me.user].version \in Nat
      BY <1>2, <1>3 DEF TablesTyped
    <3>4. context'[me.user] = [version |-> me.version, choice |-> me.choice]
      BY <1>1, <1>2, <1>3, <3>2, <3>3 DEF TablesTyped
    <3> QED
      BY <3>1, <3>2, <3>4
  <2>3. CASE s \notin me.on
    <3>1. s \in subs /\ s \notin me.off /\ s.key \in Options(context[s.user].choice)
      BY <1>1, <1>2, <2>1, <2>3 DEF OnboardingFollowsContext, Options
    <3>2. CASE context'[s.user] = context[s.user]
      BY <3>1, <3>2
    <3>3. CASE context'[s.user] # context[s.user]
      <4>1. context[me.user].version \in Nat
        BY <1>2, <1>3 DEF TablesTyped
      <4>2. me.version > context[me.user].version /\ s.user = me.user
        BY <1>1, <1>2, <1>3, <3>3, <4>1 DEF TablesTyped
      <4>3. s \in me.off
        BY <1>1, <1>3, <1>6, <2>1, <3>1, <4>2 DEF SavingSound
      <4> QED
        BY <3>1, <4>3
    <3> QED
      BY <3>2, <3>3
  <2> QED
    BY <2>2, <2>3
<1> QED
  BY <1>8, <1>10, <1>11, <1>12, <1>13, <1>14 DEF SubsInv

-----------------------------------------------------------------------------
(* Interests: profiles, reports and their bundles.                         *)

LEMMA ScoringIs ==
  ASSUME InterestsAreSound, ProfilesSound, NEW u \in Users
  PROVE  /\ Scoring(u) \subseteq Procs /\ IsFiniteSet(Scoring(u))
         /\ Cardinality(Scoring(u)) \in Nat /\ Cardinality(Procs) \in Nat
BY FS_Subset, FS_CardinalityType DEF InterestsAreSound, Scoring

\* Who is scoring for whom.
ScoresAs(c, p, u) == c.pc = "scoring" /\ c.user = u
LEMMA ScoringMoves ==
  ASSUME \A p \in Procs : \A u \in Users : ScoresAs(calc'[p], p, u) <=> ScoresAs(calc[p], p, u), NEW u \in Users
  PROVE  Scoring(u)' = Scoring(u)
BY DEF Scoring, ScoresAs

LEMMA ProfilesStay ==
  ASSUME ProfilesSound, UNCHANGED <<wiki, feedback, profile, calc, asked, bundles>>
  PROVE  ProfilesSound'
<1>1. \A u \in Users : Scoring(u)' = Scoring(u)
  BY DEF Scoring
<1> QED
  BY <1>1 DEF ProfilesSound

LEMMA BuildStays ==
  ASSUME InterestsAreSound, ProfilesSound, NEW u \in Users, BuildWiki(u)
  PROVE  ProfilesSound'
<1>1. wiki[u] < Builds[u] /\ wiki' = [wiki EXCEPT ![u] = @ + 1] /\ UNCHANGED <<feedback, profile, calc, asked, bundles>>
  BY DEF BuildWiki
<1>2. \A v \in Users : Scoring(v)' = Scoring(v)
  BY <1>1 DEF Scoring
<1>3. \A v \in Users : wiki[v] \in Nat /\ Builds[v] \in Nat /\ wiki[v] <= Builds[v] /\ profile[v].wiki \in Nat /\ profile[v].wiki <= wiki[v]
  BY DEF ProfilesSound, InterestsAreSound
<1>4. wiki' \in [Users -> Nat] /\ \A v \in Users : wiki'[v] = wiki[v] \/ (v = u /\ wiki'[v] = wiki[v] + 1)
  BY <1>1, <1>3 DEF ProfilesSound
<1>5. \A v \in Users : wiki'[v] <= Builds[v] /\ wiki[v] <= wiki'[v] /\ profile[v].wiki <= wiki'[v]
  BY <1>1, <1>3, <1>4
<1>6. \A p \in Procs : calc[p].pc = "scoring" => calc[p].wiki <= wiki'[calc[p].user]
  BY <1>3, <1>4, <1>5 DEF ProfilesSound
<1> QED
  BY <1>1, <1>2, <1>4, <1>5, <1>6 DEF ProfilesSound

LEMMA CalcBegins ==
  ASSUME InterestsAreSound, NEW u \in Users, NEW v \in Nat
  PROVE  [NoCalc EXCEPT !.pc = "scoring", !.user = u, !.wiki = v] = [pc |-> "scoring", user |-> u, wiki |-> v, interests |-> {}]
<1> DEFINE Rows == [pc : {"idle", "scoring"}, user : Users, wiki : Nat, interests : {{}}]
           c == [NoCalc EXCEPT !.pc = "scoring", !.user = u, !.wiki = v]
<1>1. NoCalc \in Rows
  <2>1. (CHOOSE w \in Users : TRUE) \in Users
    BY DEF InterestsAreSound
  <2> QED
    BY <2>1 DEF NoCalc
<1>2. c \in Rows /\ c.pc = "scoring" /\ c.user = u /\ c.wiki = v
  BY <1>1
<1> HIDE DEF c
<1>3. c = [pc |-> c.pc, user |-> c.user, wiki |-> c.wiki, interests |-> c.interests] /\ c.interests = {}
  BY <1>2
<1>4. c = [pc |-> "scoring", user |-> u, wiki |-> v, interests |-> {}]
  BY <1>2, <1>3
<1> QED
  BY <1>4 DEF c

LEMMA LoadStays ==
  ASSUME InterestsAreSound, ProfilesSound, NEW p \in Procs, NEW u \in Users, load_interest_documents_for_user(p, u)
  PROVE  ProfilesSound'
<1> DEFINE c == [NoCalc EXCEPT !.pc = "scoring", !.user = u, !.wiki = wiki[u]]
<1>1. /\ calc[p].pc = "idle" /\ profile[u].version < Profiles[u]
      /\ calc' = [calc EXCEPT ![p] = c] /\ UNCHANGED <<wiki, feedback, profile, asked, bundles>>
  BY DEF load_interest_documents_for_user
<1>2. c = [pc |-> "scoring", user |-> u, wiki |-> wiki[u], interests |-> {}]
  <2>1. wiki[u] \in Nat
    BY DEF ProfilesSound
  <2> QED
    BY <2>1, CalcBegins
<1> HIDE DEF c
<1>3. calc'[p] = c /\ DOMAIN calc' = Procs /\ \A q \in Procs \ {p} : calc'[q] = calc[q]
  BY <1>1 DEF ProfilesSound
<1>4. \A v \in Users : profile[v].version + Cardinality(Scoring(v)') <= Profiles[v] + Cardinality(Procs)
  <2> TAKE v \in Users
  <2>1. /\ profile[v].version \in Nat /\ Profiles[v] \in Nat /\ Cardinality(Procs) \in Nat
        /\ profile[v].version + Cardinality(Scoring(v)) <= Profiles[v] + Cardinality(Procs)
    BY ScoringIs DEF ProfilesSound, InterestsAreSound
  <2>2. CASE v = u
    <3>1. Scoring(v)' \subseteq Procs
      BY DEF Scoring
    <3>2. Cardinality(Scoring(v)') \in Nat /\ Cardinality(Scoring(v)') <= Cardinality(Procs)
      BY <3>1, FS_Subset, FS_CardinalityType DEF InterestsAreSound
    <3> QED
      BY <1>1, <2>1, <2>2, <3>2
  <2>3. CASE v # u
    <3>1. Scoring(v)' = Scoring(v)
      BY <1>1, <1>2, <1>3, <2>3 DEF Scoring
    <3> QED
      BY <2>1, <3>1
  <2> QED
    BY <2>2, <2>3
<1>5. \A q \in Procs :
        /\ calc'[q] = [pc |-> calc'[q].pc, user |-> calc'[q].user, wiki |-> calc'[q].wiki, interests |-> calc'[q].interests]
        /\ calc'[q].pc \in {"idle", "scoring", "saved"} /\ calc'[q].user \in Users /\ calc'[q].wiki \in Nat
        /\ calc'[q].pc = "scoring" => calc'[q].wiki <= wiki[calc'[q].user]
        /\ \A i \in calc'[q].interests : i.topic \in QueryTopics
  <2> TAKE q \in Procs
  <2>1. CASE q = p
    BY <1>2, <1>3, <2>1 DEF ProfilesSound
  <2>2. CASE q # p
    BY <1>3, <2>2 DEF ProfilesSound
  <2> QED
    BY <2>1, <2>2
<1> QED
  BY <1>1, <1>3, <1>4, <1>5 DEF ProfilesSound

LEMMA FirstField == \A t, a, b, c, d : [topic |-> t, weight |-> a, followed |-> b, subject |-> c, docs |-> d].topic = t
OBVIOUS
LEMMA ScoredAre == ASSUME NEW v PROVE \A i \in int_005(v) : i.topic \in QueryTopics
<1> DEFINE named == int_001(v) \cup {t \in QueryTopics : Boost(t) > 0}
           top == IF named = {} THEN 0 ELSE Max({Weight(v, t) : t \in named})
           Scored(t) == [topic |-> t, weight |-> Weight(v, t), followed |-> 10 * Weight(v, t) >= 3 * top,
                         subject |-> Subject(v, t), docs |-> {n.doc : n \in Group(v, t)}]
<1>1. int_005(v) = {Scored(t) : t \in named}
  BY DEF int_005
<1>2. \A t : Scored(t).topic = t
  BY FirstField
<1>3. named \subseteq QueryTopics
  BY DEF int_001
<1> HIDE DEF named, Scored
<1> QED
  BY <1>1, <1>2, <1>3

LEMMA SaveProfileStays ==
  ASSUME InterestsAreSound, ProfilesSound, NEW p \in Procs, save_interest_profile_for_user(p)
  PROVE  ProfilesSound'
<1> DEFINE u == calc[p].user
           found == int_005(calc[p].wiki)
<1>1. /\ calc[p].pc = "scoring"
      /\ profile' = [profile EXCEPT ![u] = [version |-> profile[u].version + 1, wiki |-> calc[p].wiki, interests |-> found]]
      /\ calc' = [calc EXCEPT ![p].pc = "saved", ![p].interests = found]
      /\ UNCHANGED <<wiki, feedback, asked, bundles>>
  BY DEF save_interest_profile_for_user
<1>2. \A i \in found : i.topic \in QueryTopics
  BY ScoredAre
<1>3. u \in Users /\ calc[p].wiki \in Nat /\ calc[p].wiki <= wiki[u] /\ DOMAIN profile = Users /\ DOMAIN calc = Procs
  BY <1>1 DEF ProfilesSound
<1> HIDE DEF found
<1>4. /\ calc'[p].pc = "saved" /\ calc'[p].interests = found /\ calc'[p].user = u /\ calc'[p].wiki = calc[p].wiki
      /\ calc'[p] = [pc |-> "saved", user |-> u, wiki |-> calc[p].wiki, interests |-> found]
      /\ DOMAIN calc' = Procs /\ \A q \in Procs \ {p} : calc'[q] = calc[q]
  <2>1. calc[p] = [pc |-> calc[p].pc, user |-> calc[p].user, wiki |-> calc[p].wiki, interests |-> calc[p].interests]
    BY DEF ProfilesSound
  <2>2. calc'[p] = [calc[p] EXCEPT !.pc = "saved", !.interests = found]
    BY <1>1, <1>3
  <2>3. calc'[p] = [pc |-> "saved", user |-> u, wiki |-> calc[p].wiki, interests |-> found]
    BY <2>1, <2>2
  <2> QED
    BY <1>1, <1>3, <2>3
<1>5. \A v \in Users :
        /\ profile'[v] = [version |-> profile'[v].version, wiki |-> profile'[v].wiki, interests |-> profile'[v].interests]
        /\ profile'[v].version \in Nat /\ profile'[v].wiki \in Nat /\ profile'[v].wiki <= wiki[v]
        /\ profile'[v].version + Cardinality(Scoring(v)') <= Profiles[v] + Cardinality(Procs)
  <2> TAKE v \in Users
  <2>1. /\ profile[v].version \in Nat /\ profile[v].wiki \in Nat /\ profile[v].wiki <= wiki[v]
        /\ profile[v] = [version |-> profile[v].version, wiki |-> profile[v].wiki, interests |-> profile[v].interests]
        /\ profile[v].version + Cardinality(Scoring(v)) <= Profiles[v] + Cardinality(Procs)
    BY DEF ProfilesSound
  <2>2. Cardinality(Scoring(v)) \in Nat /\ IsFiniteSet(Scoring(v)) /\ Profiles[v] \in Nat /\ Cardinality(Procs) \in Nat
    BY ScoringIs DEF InterestsAreSound
  <2>3. CASE v = u
    <3>1. Scoring(v)' = Scoring(v) \ {p}
      BY <1>4 DEF Scoring
    <3>2. p \in Scoring(v)
      BY <1>1, <2>3 DEF Scoring
    <3>3. Cardinality(Scoring(v)') = Cardinality(Scoring(v)) - 1
      BY <2>2, <3>1, <3>2, FS_RemoveElement
    <3>4. profile'[v] = [version |-> profile[v].version + 1, wiki |-> calc[p].wiki, interests |-> found]
      BY <1>1, <1>3, <2>3
    <3>5. profile'[v].version = profile[v].version + 1 /\ profile'[v].wiki = calc[p].wiki /\ profile'[v].interests = found
      BY <3>4
    <3> QED
      BY <1>3, <2>1, <2>2, <2>3, <3>3, <3>4, <3>5
  <2>4. CASE v # u
    <3>1. Scoring(v)' = Scoring(v)
      BY <1>4, <2>4 DEF Scoring
    <3>2. profile'[v] = profile[v]
      BY <1>1, <1>3, <2>4
    <3> QED
      BY <2>1, <3>1, <3>2
  <2> QED
    BY <2>3, <2>4
<1>6. \A q \in Procs :
        /\ calc'[q] = [pc |-> calc'[q].pc, user |-> calc'[q].user, wiki |-> calc'[q].wiki, interests |-> calc'[q].interests]
        /\ calc'[q].pc \in {"idle", "scoring", "saved"} /\ calc'[q].user \in Users /\ calc'[q].wiki \in Nat
        /\ calc'[q].pc = "scoring" => calc'[q].wiki <= wiki[calc'[q].user]
        /\ \A i \in calc'[q].interests : i.topic \in QueryTopics
  <2> TAKE q \in Procs
  <2>1. CASE q = p
    BY <1>2, <1>3, <1>4, <2>1
  <2>2. CASE q # p
    BY <1>4, <2>2 DEF ProfilesSound
  <2> QED
    BY <2>1, <2>2
<1>7. DOMAIN profile' = Users
  BY <1>1, <1>3
<1> QED
  BY <1>1, <1>4, <1>5, <1>6, <1>7 DEF ProfilesSound

LEMMA RegisterKeepsProfiles ==
  ASSUME InterestsAreSound, ProfilesSound, NEW p \in Procs, _register_wiki_interest_targets(p)
  PROVE  ProfilesSound'
<1>1. calc[p].pc = "saved" /\ calc' = [calc EXCEPT ![p] = NoCalc] /\ UNCHANGED <<wiki, feedback, profile, asked, bundles>>
  BY DEF _register_wiki_interest_targets
<1>2. /\ NoCalc = [pc |-> "idle", user |-> NoCalc.user, wiki |-> 0, interests |-> {}]
      /\ NoCalc.pc = "idle" /\ NoCalc.wiki = 0 /\ NoCalc.interests = {} /\ NoCalc.user \in Users
  <2>1. (CHOOSE u \in Users : TRUE) \in Users
    BY DEF InterestsAreSound
  <2> QED
    BY <2>1 DEF NoCalc
<1>3. calc'[p] = NoCalc /\ DOMAIN calc' = Procs /\ \A q \in Procs \ {p} : calc'[q] = calc[q]
  BY <1>1 DEF ProfilesSound
<1>4. \A u \in Users : Scoring(u)' = Scoring(u)
  BY <1>1, <1>2, <1>3 DEF Scoring
<1>5. \A q \in Procs :
        /\ calc'[q] = [pc |-> calc'[q].pc, user |-> calc'[q].user, wiki |-> calc'[q].wiki, interests |-> calc'[q].interests]
        /\ calc'[q].pc \in {"idle", "scoring", "saved"} /\ calc'[q].user \in Users /\ calc'[q].wiki \in Nat
        /\ calc'[q].pc = "scoring" => calc'[q].wiki <= wiki[calc'[q].user]
        /\ \A i \in calc'[q].interests : i.topic \in QueryTopics
  <2> TAKE q \in Procs
  <2>1. CASE q = p
    BY <1>2, <1>3, <2>1
  <2>2. CASE q # p
    BY <1>3, <2>2 DEF ProfilesSound
  <2> QED
    BY <2>1, <2>2
<1> QED
  BY <1>1, <1>3, <1>4, <1>5 DEF ProfilesSound

LEMMA ReportsStay ==
  ASSUME ProfilesSound, UNCHANGED <<wiki, feedback, profile, calc>>,
         \A a, b \in asked' : a = b, \A b \in bundles' : b.near \cap b.roots = {}
  PROVE  ProfilesSound'
<1>1. \A u \in Users : Scoring(u)' = Scoring(u)
  BY DEF Scoring
<1> QED
  BY <1>1 DEF ProfilesSound

\* Neighbours are not among the documents they are neighbours of.
LEMMA BundleStays == ASSUME ProfilesSound, int_012 PROVE ProfilesSound'
<1>1. PICK a \in asked :
        LET i == CHOOSE j \in profile[a.user].interests : j.topic = a.topic
            roots == {n.doc : n \in Alive(a.user, i.docs)}
        IN  /\ asked' = {}
            /\ bundles' = IF profile[a.user].version # a.version THEN bundles
                          ELSE bundles \cup {[user |-> a.user, topic |-> a.topic, profile |-> a.version, roots |-> roots,
                                              near |-> list_related_nodes(a.user, roots)]}
            /\ UNCHANGED <<wiki, feedback, profile, calc>>
  BY DEF int_012
<1>2. \A u, ds : list_related_nodes(u, ds) \cap ds = {}
  BY DEF list_related_nodes
<1>3. \A b \in bundles' : b.near \cap b.roots = {}
  BY <1>1, <1>2 DEF ProfilesSound
<1> QED
  BY <1>1, <1>3, ReportsStay

-----------------------------------------------------------------------------
(* Interests: theorems.                                                    *)

LEMMA InterestsBegin == ASSUME InterestsAreSound, InterestsInit PROVE InterestInv
<1>1. ProfilesSound
  <2>1. \A u \in Users : Scoring(u) = {}
    BY DEF InterestsInit, Scoring, NoCalc
  <2>2. Cardinality({}) = 0 /\ Cardinality(Procs) \in Nat
    BY FS_EmptySet, FS_CardinalityType DEF InterestsAreSound
  <2>3. /\ NoCalc = [pc |-> "idle", user |-> NoCalc.user, wiki |-> 0, interests |-> {}]
        /\ NoCalc.pc = "idle" /\ NoCalc.wiki = 0 /\ NoCalc.interests = {} /\ NoCalc.user \in Users
    <3>1. (CHOOSE u \in Users : TRUE) \in Users
      BY DEF InterestsAreSound
    <3> QED
      BY <3>1 DEF NoCalc
  <2>4. \A u \in Users :
          /\ profile[u] = [version |-> 0, wiki |-> 0, interests |-> {}] /\ wiki[u] = 0
          /\ Builds[u] \in Nat /\ Profiles[u] \in Nat
          /\ profile[u].version + Cardinality(Scoring(u)) <= Profiles[u] + Cardinality(Procs)
    <3> TAKE u \in Users
    <3>1. profile[u].version = 0 /\ Profiles[u] \in Nat
      BY DEF InterestsInit, InterestsAreSound
    <3>2. Cardinality(Scoring(u)) = 0
      BY <2>1, <2>2
    <3>3. profile[u].version + Cardinality(Scoring(u)) <= Profiles[u] + Cardinality(Procs)
      BY <2>2, <3>1, <3>2
    <3> QED
      BY <3>3 DEF InterestsInit, InterestsAreSound
  <2>5. DOMAIN calc = Procs /\ \A p \in Procs : calc[p] = NoCalc
    BY DEF InterestsInit
  <2> QED
    BY <2>3, <2>4, <2>5 DEF ProfilesSound, InterestsInit
<1>2. NoTx \in TxRows /\ NoTx.pc = "none" /\ NoTx.version = 0 /\ NoTx.on = {} /\ NoTx.off = {} /\ NoTx.up = {} /\ NoTx.want = {}
  BY NoTxIs
<1>3. tx \in [Procs -> TxRows] /\ \A p \in Procs : tx[p] = NoTx
  BY <1>2 DEF InterestsInit
<1>4. targets \in [Keys -> TargetRows] /\ \A k \in Keys : targets[k] = NoTarget
  BY TargetsAre DEF InterestsInit
<1>5. TablesTyped
  <2>1. \A u \in Users : context[u] = [version |-> 0, choice |-> 0] /\ Contexts[u] \in Nat
    BY DEF InterestsInit, InterestsAreSound
  <2>2. \A u \in Users : context[u].version <= Contexts[u] /\ (context[u].choice = 0 <=> context[u].version = 0)
    BY <2>1
  <2>3. context \in [Users -> [version : Nat, choice : Nat]]
    BY DEF InterestsInit
  <2>4. taxonomy \in BOOLEAN /\ subs \subseteq Subscription
    BY DEF InterestsInit
  <2> QED
    BY <1>3, <1>4, <2>2, <2>3, <2>4 DEF TablesTyped
<1>6. TargetsSound
  <2>1. PolicyFollowsSubscriptions
    <3>1. \A k \in Keys : Subscribers(subs, k) = 0
      <4> TAKE k \in Keys
      <4>1. {s \in subs : s.key = k} = {}
        BY DEF InterestsInit
      <4> QED
        BY <4>1, FS_EmptySet DEF Subscribers
    <3> QED
      BY <1>4, <3>1 DEF PolicyFollowsSubscriptions, NoTarget
  <2>2. DemandFitsCapacity
    <3>1. {k \in Keys : targets[k].count > 0} = {}
      BY <1>4 DEF NoTarget
    <3>2. PICK I : I = [k \in Keys |-> targets[k].interval]
      OBVIOUS
    <3>3. \A f : Fold(TRUE, f, {}) = 0 /\ Fold(FALSE, f, {}) = 1
      BY FoldIs, FS_EmptySet DEF Unit
    <3>4. PICK f : f = [k \in Keys |-> Low * FoldFunctionOnSet(LAMBDA x, y : x * y, 1, I, {} \ {k})]
      OBVIOUS
    <3>5. Fold(TRUE, f, {}) <= Capacity * Fold(FALSE, I, {})
      <4>1. Fold(TRUE, f, {}) = 0 /\ Fold(FALSE, I, {}) = 1
        BY <3>3
      <4>2. 0 <= Capacity * 1
        BY PolicyIs
      <4> QED
        BY <4>1, <4>2
    <3>6. FitsCapacity({}, I)
      <4>1. SumFunctionOnSet([k \in Keys |-> Low * FoldFunctionOnSet(LAMBDA x, y : x * y, 1, I, {} \ {k})], {}) = Fold(TRUE, f, {})
        BY <3>4, SumIsFold
      <4>2. FoldFunctionOnSet(LAMBDA x, y : x * y, 1, I, {}) = Fold(FALSE, I, {})
        BY ProductIsFold
      <4> QED
        BY <3>5, <4>1, <4>2 DEF FitsCapacity
    <3> QED
      BY <3>1, <3>2, <3>6 DEF DemandFitsCapacity
  <2> QED
    BY <1>4, <2>1, <2>2 DEF TargetsSound, Exists, InterestsInit, NoTarget
<1>7. OneSaver /\ OneRow /\ OnboardingFollowsContext
  BY <1>2, <1>3 DEF OneSaver, Saving, OneRow, OnboardingFollowsContext, InterestsInit
<1>8. \A p \in Procs : TxSound(tx[p]) /\ SavingSound(tx[p])
  BY <1>2, <1>3 DEF TxSound, SavingSound
<1> QED
  BY <1>1, <1>5, <1>6, <1>7, <1>8 DEF InterestInv, SubsInv

LEMMA InterestStep ==
  ASSUME InterestsAreSound, InterestInv, [InterestsNext]_interestVars
  PROVE  InterestInv'
<1> USE DEF InterestInv
<1>1. CASE upsert_interest_taxonomy_snapshot
  BY <1>1, TaxonomyStays, ProfilesStay DEF upsert_interest_taxonomy_snapshot
<1>2. CASE \E u \in Users : BuildWiki(u)
  BY <1>2, BuildStays, SubsStay DEF BuildWiki
<1>3. CASE \E e \in DOMAIN Signals : save_feedback_signals_for_user(e)
  <2>1. /\ feedback' \subseteq DOMAIN Signals
        /\ UNCHANGED <<taxonomy, context, wiki, profile, targets, subs, calc, tx, asked, bundles>>
    BY <1>3 DEF save_feedback_signals_for_user, ProfilesSound
  <2>2. \A u \in Users : Scoring(u)' = Scoring(u)
    BY <2>1 DEF Scoring
  <2>3. ProfilesSound'
    BY <2>1, <2>2 DEF ProfilesSound
  <2> QED
    BY <2>1, <2>3, SubsStay
<1>4. CASE \E p \in Procs, u \in Users : load_interest_documents_for_user(p, u)
  BY <1>4, LoadStays, SubsStay DEF load_interest_documents_for_user
<1>5. CASE \E p \in Procs, u \in Users, c \in DOMAIN Chosen : \E v \in 1 .. Contexts[u] : upsert_user_context_snapshot(p, u, v, c)
  <2>0. PICK p \in Procs, u \in Users, c \in DOMAIN Chosen : \E v \in 1 .. Contexts[u] : upsert_user_context_snapshot(p, u, v, c)
    BY <1>5
  <2>1. PICK v \in 1 .. Contexts[u] : upsert_user_context_snapshot(p, u, v, c)
    BY <2>0
  <2>2. UNCHANGED <<wiki, feedback, profile, calc, asked, bundles>>
    BY <2>1 DEF upsert_user_context_snapshot
  <2> QED
    BY <2>1, <2>2, SaveStays, ProfilesStay
<1>6. CASE \E p \in Procs : save_interest_profile_for_user(p)
  BY <1>6, SaveProfileStays, SubsStay DEF save_interest_profile_for_user
<1>7. CASE \E p \in Procs : _register_wiki_interest_targets(p)
  BY <1>7, RegisterStays, RegisterKeepsProfiles
<1>8. CASE \E p \in Procs : Deactivate(p)
  BY <1>8, DeactivateStays, ProfilesStay DEF Deactivate
<1>9. CASE \E p \in Procs : Deactivated(p)
  BY <1>9, DeactivatedStays, ProfilesStay DEF Deactivated
<1>10. CASE \E p \in Procs : InsertSubscriptions(p)
  BY <1>10, InsertStays, ProfilesStay DEF InsertSubscriptions
<1>11. CASE \E p \in Procs : ReconcileAndCommit(p)
  BY <1>11, ReconcileStays, ProfilesStay DEF ReconcileAndCommit
<1>12. CASE \E p \in Procs : Abort(p)
  BY <1>12, AbortStays, ProfilesStay DEF Abort
<1>13. CASE \E u \in Users, t \in QueryTopics : int_013(u, t)
  <2>1. PICK u \in Users, t \in QueryTopics : int_013(u, t)
    BY <1>13
  <2>2. /\ asked' = {[user |-> u, topic |-> t, version |-> profile[u].version]}
        /\ UNCHANGED <<taxonomy, context, wiki, feedback, profile, targets, subs, calc, tx, bundles>>
    BY <2>1 DEF int_013
  <2>3. ProfilesSound'
    <3>1. \A a, b \in asked' : a = b
      BY <2>2
    <3>2. \A b \in bundles' : b.near \cap b.roots = {}
      BY <2>2 DEF ProfilesSound
    <3> QED
      BY <2>2, <3>1, <3>2, ReportsStay
  <2> QED
    BY <2>2, <2>3, SubsStay
<1>14. CASE int_012
  BY <1>14, BundleStays, SubsStay DEF int_012
<1>15. CASE UNCHANGED interestVars
  BY <1>15, SubsStay, ProfilesStay DEF interestVars
<1> QED
  BY <1>1, <1>2, <1>3, <1>4, <1>5, <1>6, <1>7, <1>8, <1>9, <1>10, <1>11, <1>12, <1>13, <1>14, <1>15 DEF InterestsNext

LEMMA InterestTypes == ASSUME InterestsAreSound, InterestInv PROVE InterestTypeOK
<1>1. ProfilesSound /\ SubsInv /\ TablesTyped
  BY DEF InterestInv, SubsInv
<1>2. \A u \in Users : /\ context[u].version \in 0 .. Contexts[u]
                       /\ context[u].choice = 0 <=> context[u].version = 0
                       /\ wiki[u] \in 0 .. Builds[u]
                       /\ profile[u].version \in 0 .. (Profiles[u] + Cardinality(Procs)) /\ profile[u].wiki <= wiki[u]
  <2> TAKE u \in Users
  <2>1. context[u].version \in Nat /\ context[u].version <= Contexts[u] /\ (context[u].choice = 0 <=> context[u].version = 0)
    BY <1>1 DEF TablesTyped
  <2>2. /\ wiki[u] \in Nat /\ wiki[u] <= Builds[u] /\ profile[u].version \in Nat /\ profile[u].wiki <= wiki[u]
        /\ profile[u].version + Cardinality(Scoring(u)) <= Profiles[u] + Cardinality(Procs)
    BY <1>1 DEF ProfilesSound
  <2>3. Contexts[u] \in Nat /\ Builds[u] \in Nat /\ Profiles[u] \in Nat
    BY DEF InterestsAreSound
  <2>4. Cardinality(Scoring(u)) \in Nat /\ Cardinality(Procs) \in Nat
    BY <1>1, ScoringIs
  <2> QED
    BY <2>1, <2>2, <2>3, <2>4
<1>3. targets \in [Keys -> [status : {"none", "active", "paused"}, count : 0 .. Cardinality(Users), interval : 1 .. MaxInterval]]
  <2>1. \A k \in Keys : targets[k].count \in 0 .. Cardinality(Users)
    <3> TAKE k \in Keys
    <3>1. subs \subseteq Subscription /\ \A s, r \in subs : s.user = r.user /\ s.key = r.key => s = r
      BY <1>1 DEF SubsInv, TablesTyped, OneRow, Same
    <3>2. targets[k].count = Subscribers(subs, k)
      BY <1>1 DEF SubsInv, TargetsSound, PolicyFollowsSubscriptions
    <3> QED
      BY <3>1, <3>2, SubscribersAre
  <2> QED
    BY <1>1, <2>1 DEF TablesTyped, TargetRows
<1>4. \A s, r \in subs : s.user = r.user /\ s.key = r.key => s = r
  BY <1>1 DEF SubsInv, OneRow, Same
<1>5. Cardinality(asked) <= 1
  <2>1. CASE asked = {}
    BY <2>1, FS_EmptySet
  <2>2. CASE asked # {}
    <3>1. PICK a \in asked : asked = {a}
      BY <1>1, <2>2 DEF ProfilesSound
    <3>2. Cardinality({a}) = 1
      BY FS_Singleton
    <3> QED
      BY <3>1, <3>2
  <2> QED
    BY <2>1, <2>2
<1>6. \A p \in Procs : tx[p].on \cup tx[p].off \subseteq Subscription
  BY <1>1, TxIs
<1> QED
  BY <1>1, <1>2, <1>3, <1>4, <1>5, <1>6 DEF InterestTypeOK, TablesTyped, ProfilesSound

\* The profiles, the transactions and the tables of interests as InterestInv says,
\* for any users, processes, wikis and contexts.
THEOREM InterestInvariant == ASSUME InterestsAreSound PROVE InterestsSpec => []InterestInv
<1>1. InterestsInit => InterestInv
  BY InterestsBegin
<1>2. InterestInv /\ [InterestsNext]_interestVars => InterestInv'
  BY InterestStep
<1> QED
  BY <1>1, <1>2, PTL DEF InterestsSpec

\* The policy of the collection targets follows what is subscribed to, the demand fits the
\* capacity and the user's own subscriptions are those of the newest context.
THEOREM SubscriptionsAlwaysAgree == ASSUME InterestsAreSound PROVE InterestsSpec => []SubscriptionsAgree
<1>1. InterestInv => SubscriptionsAgree
  BY InterestTypes DEF InterestInv, SubsInv, TargetsSound, SubscriptionsAgree
<1> QED
  BY <1>1, InterestInvariant, PTL
=============================================================================
