----------------------------- MODULE Assistant -----------------------------
(***************************************************************************)
(* The keyword assistant (src/agent/assistant, src/agent/selection): one   *)
(* user's requests about one keyword.  A request runs the agent graph: it  *)
(* collects with a query, selects what is new, and tries another query     *)
(* only when another query could help.  A briefing writes what it          *)
(* collected and what it reported to a history; a report generation only   *)
(* reads it.  Days pass while requests ask.                                *)
(***************************************************************************)
EXTENDS Integers, FiniteSets, SequencesExt

CONSTANTS
  Calls, Process,         \* Process[r]: the process that serves request r
  Records,                \* the requests that record history (briefings)
  Documents,              \* [alike, closeness, fresh, short, published] by url_key
  Sources,                \* the collectors
  Finds,                  \* Finds[q]: what there is for query q, one source after another
  Keyword, Suggestions,   \* the first query; the texts a model may propose
  Usable,                 \* the suggestions that are not empty or too long
  MaxReformulations,      \* MAX_REFORMULATIONS
  Lookback,               \* DEDUP_LOOKBACK_DAYS and WEEKLY_TREND_DAYS, 7
  Window,                 \* the collection window in days
  MaxItems,               \* MAX_DAILY_ITEMS
  PublishFloor,           \* PUBLISH_FLOOR in the units of score_document
  LastDay                 \* bound: the days that may pass

VARIABLES
  day,        \* today
  chosen,     \* chosen[p]: the history store of process p, "" before its first use
  collected,  \* collected[s][d]: first_seen and score of a row, first_seen -1: no row
  reported,   \* reported[s][d]: the day a document was last reported, -1: no row
  ask         \* ask[r]: the state of the graph that serves request r

askVars == <<day, chosen, collected, reported, ask>>

Urls == DOMAIN Documents
NoRow == [seen |-> -1, score |-> -1]
Stores == {"db"} \cup Range(Process)
Unasked == [at |-> "plan", now |-> 0, query |-> Keyword, tried |-> <<>>, cold |-> FALSE,
         known |-> [d \in Urls |-> -1], docs |-> <<>>, seen |-> [d \in Urls |-> -1],
         judged |-> [d \in Urls |-> -1],
         kept |-> <<>>, filtered |-> 0, failures |-> {}, unembedded |-> FALSE,
         clusters |-> <<>>, rejected |-> 0, mode |-> "", items |-> {}, outcome |-> ""]

\* get_store chooses once: the database when it answers and has the tables, else a file
\* that only this process fills.
store(r) == chosen[Process[r]]
_build_store(r) == {"db", Process[r]}

\* What the theorems ask of the constants: every request has a process, the collectors are
\* some, and what they have for a query is documents, whose scores are numbers.
AskingIsSound ==
  /\ DOMAIN Process = Calls /\ "" \notin Range(Process) /\ Records \subseteq Calls
  /\ IsFiniteSet(Sources) /\ Sources # {} /\ IsFiniteSet(Urls)
  /\ \A q \in {Keyword} \cup Usable : Finds[q] \in Seq([from : Sources, key : Urls])
  /\ \A d \in Urls : Documents[d].closeness \in Nat /\ Documents[d].fresh \in Nat
  /\ MaxReformulations \in Nat /\ Lookback \in Nat /\ LastDay \in Nat

-----------------------------------------------------------------------------
(* What the collectors return.                                             *)

\* A source answers with its documents for the query or fails, each for itself.
_collect_sources(q) ==
  [Sources -> BOOLEAN]

\* The elements at these places, in their order.
Subsequence(all, places) ==
  [k \in 1..Cardinality(places) |->
     all[CHOOSE i \in places : Cardinality({j \in places : j <= i}) = k]]

\* Of the documents that were had with one url_key, the first stays.
collect_documents(q, answers) ==
  LET found == Finds[q]
      had == {i \in DOMAIN found : answers[found[i].from]}
  IN  Subsequence([i \in DOMAIN found |-> found[i].key],
                  {i \in had : \A j \in had : j < i => found[j].key # found[i].key})

\* A document with no date of its own is as old as the history says.
Published(d, seen) ==
  IF Documents[d].published >= 0 THEN Documents[d].published ELSE seen[d]

_basic_filter(docs, seen, now) ==
  LET new(d) == seen[d] >= now /\ ~Documents[d].short /\ Published(d, seen) >= now - Window
  IN  Subsequence(docs, {i \in DOMAIN docs : new(docs[i])})

-----------------------------------------------------------------------------
(* Selection: similarity, clusters, scores, duplicates, cut-offs.          *)

Best(S) == CHOOSE x \in S : \A y \in S : x >= y

\* Both cut-offs are relative to the best of this run (3/4 and 1/2), above a floor.
similarity_cutoff(docs) ==
  SelectSeq(docs, LAMBDA d :
    /\ Documents[d].closeness >= 1
    /\ 4 * Documents[d].closeness >= 3 * Best({Documents[e].closeness : e \in Range(docs)}))

\* Alike: 0 unrelated, 1 one cluster, 2 a duplicate unless it is newer, 3 the same text.
Alike(d, e) == IF d = e THEN 3 ELSE Documents[d].alike[e]

\* A document joins the first cluster that holds one like it.
greedy_clusters(docs) ==
  FoldLeft(LAMBDA groups, d :
    LET fits == {i \in DOMAIN groups : \E e \in Range(groups[i]) : Alike(d, e) >= 1}
    IN  IF fits = {} THEN Append(groups, <<d>>)
        ELSE LET i == CHOOSE i \in fits : \A j \in fits : i <= j
             IN  [groups EXCEPT ![i] = Append(@, d)],
    <<>>, docs)

\* Freshness is neutral on a cold start; a larger cluster weighs a little more.
score_document(d, cold, size) ==
  Documents[d].closeness * (IF cold THEN 1 ELSE Documents[d].fresh) * (9 + size)

final_score(cluster, cold) ==
  Best({score_document(d, cold, Len(cluster)) : d \in Range(cluster)})

representative(cluster, cold) ==
  cluster[CHOOSE i \in DOMAIN cluster :
    /\ score_document(cluster[i], cold, Len(cluster)) = final_score(cluster, cold)
    /\ \A j \in 1..(i-1) :
         score_document(cluster[j], cold, Len(cluster)) # final_score(cluster, cold)]

\* The rows a duplicate check reads, with their days: young enough, and not of today, so
\* that a second run of a day finds what the first one reported.
load_recent_report_items_Mutant(history, now) ==
  [d \in {d \in Urls : history[d] >= 0 /\ history[d] >= now - Lookback} |-> history[d]]

load_recent_report_items(history, now) ==
  [d \in {d \in Urls : /\ history[d] >= 0 /\ history[d] >= now - Lookback
                       /\ history[d] # now} |-> history[d]]

\* The most similar row decides.  In the band below "the same text" a candidate that was
\* published after the row is an update.
check_duplicate_Mutant(d, seen, rows) ==
  IF \A e \in DOMAIN rows : Alike(d, e) < 2 THEN "new"
  ELSE IF Published(d, seen) >= 0 THEN "update" ELSE "duplicate"

check_duplicate(d, seen, rows) ==
  IF \E e \in DOMAIN rows : Alike(d, e) = 3 THEN "duplicate"
  ELSE IF \A e \in DOMAIN rows : Alike(d, e) < 2 THEN "new"
  ELSE LET e == CHOOSE e \in DOMAIN rows : Alike(d, e) = 2
       IN  IF Published(d, seen) > rows[e] THEN "update" ELSE "duplicate"

\* The clusters that a duplicate check of their representatives leaves.
Survivors(clusters, cold, seen, rows) ==
  {i \in DOMAIN clusters :
     check_duplicate(representative(clusters[i], cold), seen, rows) # "duplicate"}

\* What is published: of these clusters the MaxItems best that reach the cut-off, the
\* earlier one of two with one score.  The order within a report is left out.
publish_cutoff(clusters, cold, survivors) ==
  LET score(i) == final_score(clusters[i], cold)
      reach == {i \in survivors : /\ score(i) >= PublishFloor
                                  /\ 2 * score(i) >= Best({score(j) : j \in survivors})}
      better(i) == {j \in reach : score(j) > score(i) \/ (score(j) = score(i) /\ j < i)}
  IN  {representative(clusters[i], cold) : i \in {i \in reach : Cardinality(better(i)) < MaxItems}}

\* The fallback: what was collected and scored in the last week.
_weekly_trend_items(s, now) ==
  LET rows == {d \in Urls : /\ collected[s][d].seen >= 0
                            /\ collected[s][d].seen >= now - Lookback
                            /\ collected[s][d].score >= 0}
      ranked == SetToSortSeq(rows, LAMBDA d, e : collected[s][d].score > collected[s][e].score)
  IN  Range(SubSeq(ranked, 1, IF Len(ranked) < MaxItems THEN Len(ranked) ELSE MaxItems))

\* Why nothing was published.  Outages are told apart first.
classify(x) ==
  IF x.mode = "daily" THEN "success"
  ELSE IF x.unembedded THEN "provider_failure"
  ELSE IF x.failures # {} /\ (x.docs = <<>> \/ Cardinality(x.failures) >= Cardinality(Sources))
       THEN "provider_failure"
  ELSE IF x.docs = <<>> \/ x.kept = <<>> THEN "no_results"
  ELSE IF x.filtered = 0 THEN "low_relevance"
  ELSE IF x.clusters # <<>> /\ x.rejected >= Len(x.clusters) THEN "duplicate_only"
  ELSE "below_threshold"

should_reformulate(outcome) == outcome \in {"no_results", "low_relevance"}

-----------------------------------------------------------------------------
(* The steps of a request.                                                 *)

AskTypeOK ==
  /\ day \in 0..LastDay
  /\ chosen \in [Range(Process) -> Stores \cup {""}]
  /\ collected \in [Stores -> [Urls -> [seen : -1..LastDay, score : Int]]]
  /\ reported \in [Stores -> [Urls -> -1..LastDay]]
  /\ \A r \in Calls :
       /\ ask[r].at \in {"plan", "cold", "collect", "dates", "embed", "scores", "history",
                         "record", "route", "reformulate", "write", "done", "failed"}
       /\ ask[r].now \in 0..LastDay
       /\ ask[r].tried \in Seq({Keyword} \cup Suggestions)
       /\ Range(ask[r].docs) \subseteq Urls /\ Range(ask[r].kept) \subseteq Range(ask[r].docs)
       /\ ask[r].mode \in {"", "daily", "weekly", "evergreen"}

AskInit ==
  /\ day = 0
  /\ chosen = [p \in Range(Process) |-> ""]
  /\ collected = [s \in Stores |-> [d \in Urls |-> NoRow]]
  /\ reported = [s \in Stores |-> [d \in Urls |-> -1]]
  /\ ask = [r \in Calls |-> Unasked]

To(r, changes) ==
  ask' = [ask EXCEPT ![r] = [f \in DOMAIN @ |-> IF f \in DOMAIN changes THEN changes[f] ELSE @[f]]]

NextDay == day < LastDay /\ day' = day + 1 /\ UNCHANGED <<chosen, collected, reported, ask>>

\* A request is planned: the keyword is its first query.
_plan(r) ==
  /\ ask[r].at = "plan"
  /\ To(r, [at |-> "cold", query |-> Keyword])
  /\ UNCHANGED <<day, chosen, collected, reported>>

\* An attempt starts: it reads the clock and whether the keyword has any history.
has_collect_history(r) ==
  /\ ask[r].at = "cold"
  /\ \E s \in IF store(r) = "" THEN _build_store(r) ELSE {store(r)} :
       /\ chosen' = [chosen EXCEPT ![Process[r]] = s]
       /\ To(r, [at |-> "collect", now |-> day, known |-> reported[s],
                 cold |-> \A d \in Urls : collected[s][d].seen = -1])
  /\ UNCHANGED <<day, collected, reported>>

\* The sources are asked; a failed one is only noted.
Collect(r) ==
  /\ ask[r].at = "collect"
  /\ \E answers \in _collect_sources(ask[r].query) :
       To(r, [at |-> "dates", docs |-> collect_documents(ask[r].query, answers),
              failures |-> {s \in Sources : ~answers[s]},
              unembedded |-> FALSE, kept |-> <<>>, filtered |-> 0, clusters |-> <<>>,
              rejected |-> 0, items |-> {}, mode |-> "", outcome |-> ""])
  /\ UNCHANGED <<day, chosen, collected, reported>>

\* A row is inserted; one that exists keeps its first_seen, and its score unless there is a
\* new one.
record_collected(row, seen, score) ==
  [seen |-> IF row.seen >= 0 THEN row.seen ELSE seen,
   score |-> IF score >= 0 THEN score ELSE row.score]

\* Each document is its own transaction: a database that goes away half way leaves the
\* first ones recorded, and the request fails.  A report generation only reads.
_resolve_dates(r) ==
  /\ ask[r].at = "dates"
  /\ LET s == store(r)
         docs == ask[r].docs
     IN  \E n \in IF r \in Records /\ s = "db" THEN 0..Len(docs) ELSE {Len(docs)} :
           LET rows == [d \in Urls |->
                          IF \E i \in 1..n : docs[i] = d
                          THEN record_collected(collected[s][d], ask[r].now, -1)
                          ELSE collected[s][d]]
           IN  /\ collected' = IF r \in Records THEN [collected EXCEPT ![s] = rows]
                               ELSE collected
               /\ To(r, IF n < Len(docs) THEN [at |-> "failed"]
                        ELSE [at |-> "embed",
                              seen |-> [d \in Urls |->
                                IF r \in Records THEN rows[d].seen
                                ELSE IF rows[d].seen >= 0 THEN rows[d].seen ELSE ask[r].now]])
  /\ UNCHANGED <<day, chosen, reported>>

\* Filters, vectors, similarity and clusters.  Vectors may not be had.
Embed(r) ==
  /\ ask[r].at = "embed"
  /\ LET kept == _basic_filter(ask[r].docs, ask[r].seen, ask[r].now)
         near == similarity_cutoff(kept)
     IN  \E ok \in IF kept = <<>> THEN {FALSE} ELSE BOOLEAN :
           To(r, IF ok THEN [at |-> "scores", kept |-> kept, filtered |-> Len(near),
                             clusters |-> greedy_clusters(near)]
                 ELSE [at |-> "history", kept |-> kept, unembedded |-> kept # <<>>])
  /\ UNCHANGED <<day, chosen, collected, reported>>

\* A briefing keeps the scores for the weekly fallback, each in its own transaction: those
\* of the first clusters are left when the database goes away.
RecordScores(r) ==
  /\ ask[r].at = "scores"
  /\ LET s == store(r)
         clusters == ask[r].clusters
         near(d) == {e \in Urls : \E c \in Range(clusters) : {d, e} \subseteq Range(c)}
     IN  \E n \in IF r \in Records /\ s = "db" THEN 0..Len(clusters) ELSE {Len(clusters)} :
           /\ collected' = IF r \notin Records THEN collected ELSE
                [collected EXCEPT ![s] = [d \in Urls |->
                   IF \E i \in 1..n : d \in Range(clusters[i])
                   THEN record_collected(@[d], ask[r].seen[d],
                          score_document(d, ask[r].cold, Cardinality(near(d))))
                   ELSE @[d]]]
           /\ To(r, [at |-> IF n < Len(clusters) THEN "failed" ELSE "history"])
  /\ UNCHANGED <<day, chosen, reported>>

\* Duplicates and cut-offs; with nothing to publish, the week or nothing at all.
Judge(r) ==
  /\ ask[r].at = "history"
  /\ LET x == ask[r]
         history == reported[store(r)]
         survivors == Survivors(x.clusters, x.cold, x.seen, load_recent_report_items(history, x.now))
         daily == publish_cutoff(x.clusters, x.cold, survivors)
         weekly == _weekly_trend_items(store(r), x.now)
         rejected == Len(x.clusters) - Cardinality(survivors)
     IN  To(r, IF daily # {}
               THEN [at |-> "record", mode |-> "daily", items |-> daily,
                     judged |-> history, rejected |-> rejected]
               ELSE [at |-> "route", mode |-> IF weekly = {} THEN "evergreen" ELSE "weekly",
                     items |-> weekly, judged |-> history, rejected |-> rejected])
  /\ UNCHANGED <<day, chosen, collected, reported>>

\* One transaction drops the rows that are too old and writes today's.
record_report_items(r) ==
  /\ ask[r].at = "record"
  /\ LET s == store(r)
     IN  \E ok \in IF r \in Records /\ s = "db" THEN BOOLEAN ELSE {TRUE} :
           /\ reported' = IF r \notin Records \/ ~ok THEN reported ELSE
                [reported EXCEPT ![s] = [d \in Urls |->
                   IF d \in ask[r].items THEN ask[r].now
                   ELSE IF @[d] >= ask[r].now - Lookback THEN @[d] ELSE -1]]
           /\ To(r, [at |-> IF ok THEN "route" ELSE "failed"])
  /\ UNCHANGED <<day, chosen, collected>>

\* The attempt is classified, and another is allowed when a query could help and some
\* are left.
_select(r) ==
  /\ ask[r].at = "route"
  /\ LET outcome == classify(ask[r])
         tried == Append(ask[r].tried, ask[r].query)
     IN  To(r, [outcome |-> outcome, tried |-> tried,
                at |-> IF should_reformulate(outcome) /\ Len(tried) <= MaxReformulations
                       THEN "reformulate" ELSE "write"])
  /\ UNCHANGED <<day, chosen, collected, reported>>

\* The model proposes a query.  One that was tried, is empty or too long, or no answer at
\* all, ends the search.
_reformulate_Mutant(r) ==
  /\ ask[r].at = "reformulate"
  /\ \/ To(r, [at |-> "write"])
     \/ \E q \in Suggestions :
          To(r, IF q \in Usable THEN [at |-> "cold", query |-> q] ELSE [at |-> "write"])
  /\ UNCHANGED <<day, chosen, collected, reported>>

_reformulate(r) ==
  /\ ask[r].at = "reformulate"
  /\ \/ To(r, [at |-> "write"])
     \/ \E q \in Suggestions :
          To(r, IF q \in Usable /\ q \notin Range(ask[r].tried)
                THEN [at |-> "cold", query |-> q] ELSE [at |-> "write"])
  /\ UNCHANGED <<day, chosen, collected, reported>>

\* The text of the briefing; a failure leaves it empty and the request still answers.
_write_report(r) ==
  /\ ask[r].at = "write"
  /\ To(r, [at |-> "done"])
  /\ UNCHANGED <<day, chosen, collected, reported>>

Serve(r) ==
  \/ _plan(r) \/ has_collect_history(r) \/ Collect(r) \/ _resolve_dates(r) \/ Embed(r)
  \/ RecordScores(r) \/ Judge(r) \/ record_report_items(r) \/ _select(r)
  \/ _reformulate(r) \/ _write_report(r)

AskNext == NextDay \/ \E r \in Calls : Serve(r)
AskSpec == AskInit /\ [][AskNext]_askVars

-----------------------------------------------------------------------------
(* Properties.                                                             *)

\* A search is repeated only when a query could have been the reason: the attempts of a
\* request all use different queries, and none follows an attempt whose vectors failed or
\* whose sources all failed.
RetriesCanHelp ==
  \A r \in Calls :
    /\ IsInjective(ask[r].tried)
    /\ Len(ask[r].tried) <= MaxReformulations + 1
    /\ ask[r].at = "reformulate" =>
         ~ask[r].unembedded /\ ask[r].failures # Sources

\* A row from which r started may look another way since: a request of another day that
\* has written its report has moved the row to its own day (there is one row for a
\* document), or found it too old.
Rewritten(r, e) ==
  \E z \in Records \ {r} :
    /\ store(z) = store(r) /\ ask[z].mode = "daily" /\ ask[z].at \in {"route", "write", "done"}
    /\ \/ e \in ask[z].items /\ ask[z].now # ask[r].known[e]
       \/ ask[z].now > ask[r].known[e] + Lookback

\* News is reported once: what a briefing or a report is about to publish as today's is
\* never the text of something that the history already showed as reported on an earlier
\* day of the last week when the attempt started, unless its row was rewritten since.
NewsIsReportedOnce ==
  \A r \in Calls : ask[r].at = "record" =>
    \A d \in ask[r].items, e \in Urls :
      /\ ask[r].known[e] \in (ask[r].now - Lookback)..(ask[r].now - 1) /\ ask[r].known[e] >= 0
      /\ ~Rewritten(r, e)
      => Alike(d, e) # 3

\* A request that collects what another one of its day published from, with the same cold
\* start, and finds the same reports of other days, publishes the same: what was recorded
\* today hides nothing today.
SameDayRepeats ==
  \A r, q \in Calls :
    LET x == ask[r]
        y == ask[q]
        past(z) == {<<d, z.judged[d]>> : d \in {e \in Urls : z.judged[e] \notin {-1, z.now}}}
    IN  /\ x.at = "done" /\ y.at = "done"
        /\ x.mode = "daily" /\ x.now = y.now /\ x.docs = y.docs /\ x.seen = y.seen
        /\ past(x) = past(y) /\ x.cold = y.cold /\ ~y.unembedded
        => y.mode = "daily" /\ x.items = y.items

\* What is published is new, and searched for no more often than it helps.
NewsIsNew == AskTypeOK /\ RetriesCanHelp /\ NewsIsReportedOnce /\ SameDayRepeats
=============================================================================
