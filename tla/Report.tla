-------------------------------- MODULE Report --------------------------------
(***************************************************************************)
(* The attempts of one report job: what a report reads, collects, writes   *)
(* and stores (src/workers/features/report_generation.py, src/agent/       *)
(* graph.py from build_report_generation_graph on, src/agent/              *)
(* report_builder/features, src/infrastructure/persistence/features/       *)
(* generation_runtime.py).                                                 *)
(*                                                                         *)
(* A job whose lease lapsed is run again while the worker before may still *)
(* be at it, so attempts run side by side; one that died takes no further  *)
(* step.  Model calls, searches and collections are nondeterministic in    *)
(* whether they succeed and in what they keep.                             *)
(***************************************************************************)
EXTENDS Naturals, Sequences, FiniteSets, SequencesExt

CONSTANTS
  Reports,       \* [topics, v2, agent, delta, bundled, prepared, tries]: a job and its attempts
  Wiki,          \* per topic: the pages its reader selects
  Pool,          \* per topic: the stored articles a search finds
  Web,           \* per topic: the articles a live collection finds
  Attempts,      \* 1..n
  MinPool,       \* POOL_MIN_DOCUMENTS
  MaxLiveTopics, \* _MAX_LIVE_COLLECT_TOPICS
  MinShare,      \* _MIN_TOPIC_CONTEXT_DOCUMENTS
  MaxContexts,   \* _MAX_REPORT_CONTEXTS
  MaxRevisions   \* REVIEW_MAX_REVISIONS

VARIABLES
  payload,   \* of the job
  pinned,    \* wiki_navigation_snapshots: per topic the attempt that stored it, 0 for none
  attempts,  \* attempts that started
  done,      \* the job is completed
  versions,  \* generated_content_candidates of the report in order of their version
  writer     \* per attempt: the state of its graph

reportVars == <<payload, pinned, attempts, done, versions, writer>>

Topics == DOMAIN Wiki
NotBegun == [pc |-> "idle", i |-> 1, pins |-> [t \in Topics |-> 0], docs |-> [t \in Topics |-> <<>>],
             completed |-> {}, attempted |-> {}, needs |-> {}, live |-> [t \in Topics |-> 0], budget |-> 0,
             own |-> [t \in Topics |-> {}], picked |-> [t \in Topics |-> <<>>], contexts |-> <<>>,
             covered |-> {}, body |-> "none", drafts |-> 0, change |-> "none", reviews |-> 0]

\* What the theorems ask of the constants: topics are asked for once each (normalize_topics),
\* and every try of a job is an attempt.
ReportsAreSound ==
  /\ DOMAIN Pool = Topics /\ DOMAIN Web = Topics
  /\ \A t \in Topics : /\ Wiki[t] \in Seq(Range(Wiki[t])) /\ Pool[t] \in Seq(Range(Pool[t]))
                       /\ Web[t] \in Seq(Range(Web[t]))
  /\ \A q \in Reports : /\ q.topics \in Seq(Topics) /\ q.topics # <<>> /\ IsInjective(q.topics)
                        /\ q.tries \in Nat /\ 1..q.tries \subseteq Attempts
                        /\ q.prepared \subseteq Topics
  /\ MaxLiveTopics \in Nat /\ MinShare \in Nat /\ MaxContexts \in Nat

---------------------------------------------------------------------------
(* Documents                                                               *)

Numbered(kind, t, srcs) ==
  [k \in DOMAIN srcs |-> [src |-> srcs[k], kind |-> kind, ref |-> k,
                          chunk |-> IF kind = "wiki" THEN t ELSE "",
                          number |-> IF kind = "live" THEN k ELSE 0]]
WikiDocuments(t) == Numbered("wiki", t, Wiki[t])
PoolDocuments(t) == Numbered("global", t, Pool[t])
\* Live articles have no version: their chunk is the number of their reference.
LiveDocuments(t) == Numbered("live", t, Web[t])

Key(d) == <<IF d.kind = "wiki" THEN "version" ELSE "url", d.src>>
Identity(d) == IF d.kind = "live" THEN <<"", "L", d.number>> ELSE <<d.src, d.chunk, 0>>
SameDocument(d, e) == Key(d) = Key(e)
Reference(d) == <<d.kind, d.ref>>

\* The documents at some positions, and of those with one id the first.
Kept(docs, K) == [n \in 1..Cardinality(K) |-> docs[CHOOSE k \in K : Cardinality({j \in K : j <= k}) = n]]
Firsts(docs, id) == Kept(docs, {k \in DOMAIN docs : \A j \in 1..(k-1) : id[j] # id[k]})

\* A document already there is left out; references are numbered anew by kind.
MergeContexts(seq) ==
  LET new == Firsts(seq, [k \in DOMAIN seq |-> Key(seq[k])])
  IN [k \in DOMAIN new |->
        [new[k] EXCEPT !.ref = Cardinality({j \in 1..k : new[j].kind = new[k].kind})]]

\* One document per reference, up to a limit.
Select(seq, limit) ==
  LET s == Firsts(seq, [k \in DOMAIN seq |-> Reference(seq[k])])
  IN SubSeq(s, 1, IF Len(s) < limit THEN Len(s) ELSE limit)

---------------------------------------------------------------------------
(* Attempts                                                                *)

Asked == payload.topics
Several == Len(Asked) > 1
Topic(a) == Asked[writer[a].i]
Moved(a, r) == writer' = [writer EXCEPT ![a] = r]

\* REPORT-022 prepares contexts for exactly the topics of the report, or they are not used.
Start ==
  /\ attempts < payload.tries /\ ~done
  /\ attempts' = attempts + 1
  /\ \E prewarmed \in SUBSET payload.prepared :
       Moved(attempts + 1,
             [NotBegun EXCEPT !.pc = "research", !.pins = pinned,
                          !.docs = [t \in Topics |-> IF t \in prewarmed THEN WikiDocuments(t) \o PoolDocuments(t) ELSE <<>>],
                          !.completed = prewarmed])
  /\ UNCHANGED <<payload, pinned, done, versions>>

---------------------------------------------------------------------------
(* Research                                                                *)

\* Few articles are never enough; of enough a model says whether they are relevant.
Judged(t) == IF Len(Pool[t]) >= MinPool THEN BOOLEAN ELSE {FALSE}
Deferring == payload.v2 /\ Several

\* What a reader finds, with pages that stay those of the first reader.
Read(t, live) == MergeContexts(WikiDocuments(t) \o PoolDocuments(t) \o live)
Restores(a, t) == writer[a].pins[t] # 0
Pins(a, t, stores) == IF stores /\ ~Restores(a, t) /\ Wiki[t] # <<>> THEN [pinned EXCEPT ![t] = a] ELSE pinned
Advance(a, r) == IF r.i < Len(Asked) THEN [r EXCEPT !.i = @ + 1] ELSE [r EXCEPT !.pc = "deferred"]

Skips(a) == Topic(a) \in writer[a].completed \/ (~payload.v2 /\ ~payload.agent)
SkipTopic(a) ==
  /\ writer[a].pc = "research" /\ Skips(a)
  /\ Moved(a, Advance(a, writer[a]))
  /\ UNCHANGED <<payload, pinned, attempts, done, versions>>

\* V1 collects what is missing itself, V2 leaves that to the report when it has several topics.
ReadTopic(a) ==
  LET t == Topic(a)
      r == writer[a]
  IN /\ writer[a].pc = "research" /\ ~Skips(a)
     /\ pinned' = Pins(a, t, TRUE)
     /\ \E enough \in Judged(t) : \E found \in {LiveDocuments(t), <<>>} :
          Moved(a, Advance(a,
            IF enough \/ Deferring
            THEN [r EXCEPT !.docs[t] = Read(t, <<>>), !.completed = @ \cup {t},
                           !.needs = IF enough THEN @ ELSE @ \cup {t}]
            ELSE [r EXCEPT !.docs[t] = Read(t, found), !.completed = @ \cup {t},
                           !.attempted = @ \cup {t}, !.live[t] = @ + 1]))
     /\ UNCHANGED <<payload, attempts, done, versions>>

\* Ninety seconds are over: before or after the pages were stored or the articles collected.
ReadTimesOut_Mutant(a) ==
  /\ writer[a].pc = "research" /\ ~Skips(a)
  /\ \E stores \in BOOLEAN : \E n \in IF Deferring THEN {0} ELSE {0, 1} :
       /\ pinned' = Pins(a, Topic(a), stores)
       /\ Moved(a, Advance(a, [writer[a] EXCEPT !.live[Topic(a)] = @ + n]))
  /\ UNCHANGED <<payload, attempts, done, versions>>
ReadTimesOut(a) ==
  /\ writer[a].pc = "research" /\ ~Skips(a)
  /\ \E stores \in BOOLEAN : \E n \in IF Deferring THEN {0} ELSE {0, 1} :
       /\ pinned' = Pins(a, Topic(a), stores)
       /\ Moved(a, Advance(a, [writer[a] EXCEPT !.live[Topic(a)] = @ + n, !.attempted = @ \cup {Topic(a)}]))
  /\ UNCHANGED <<payload, attempts, done, versions>>

\* A call fails.  V2 stores the pages last, when it may have collected already.
ReadFails(a) ==
  /\ writer[a].pc = "research" /\ ~Skips(a)
  /\ \E stores \in BOOLEAN : \E n \in IF payload.v2 /\ ~Several THEN {0, 1} ELSE {0} :
       /\ stores => ~payload.v2
       /\ pinned' = Pins(a, Topic(a), stores)
       /\ Moved(a, Advance(a, [writer[a] EXCEPT !.live[Topic(a)] = @ + n]))
  /\ UNCHANGED <<payload, attempts, done, versions>>

\* The first topics that miss articles are collected for side by side; any of them may fail.
Deferred(r) ==
  LET needy == {k \in DOMAIN Asked : Asked[k] \in r.needs}
  IN {Asked[k] : k \in {j \in needy : Cardinality({i \in needy : i <= j}) <= MaxLiveTopics}}
CollectDeferred(a) ==
  LET r == writer[a]
      D == Deferred(r)
  IN /\ r.pc = "deferred"
     /\ \E ok \in SUBSET D :
          Moved(a, [r EXCEPT !.pc = "context", !.i = 1, !.attempted = @ \cup D, !.budget = MaxLiveTopics,
                             !.live = [t \in Topics |-> IF t \in D THEN r.live[t] + 1 ELSE r.live[t]],
                             !.docs = [t \in Topics |-> IF t \in ok THEN MergeContexts(r.docs[t] \o LiveDocuments(t))
                                                        ELSE r.docs[t]]])
     /\ UNCHANGED <<payload, pinned, attempts, done, versions>>

---------------------------------------------------------------------------
(* Contexts                                                                *)

Bundled(t) == t \in payload.bundled
\* A topic that is an interest reads its pages again, and stores them anew.
Repins(a, t) == IF Bundled(t) /\ payload.agent /\ Wiki[t] # <<>> THEN [pinned EXCEPT ![t] = a] ELSE pinned
Hybrid(t) == MergeContexts((IF Bundled(t) THEN WikiDocuments(t) ELSE <<>>) \o PoolDocuments(t))
Routed(r) == IF payload.delta THEN [r EXCEPT !.pc = "delta"] ELSE [r EXCEPT !.pc = "generate"]

\* A report on one topic: what was read, or the fixed path when that is nothing.
SingleContext(a) ==
  LET r == writer[a]
      t == Asked[1]
      found == r.docs[t] # <<>>
  IN /\ r.pc = "context" /\ ~Several
     /\ pinned' = IF found THEN pinned ELSE Repins(a, t)
     /\ \E enough \in Judged(t) : \E live \in {LiveDocuments(t), <<>>} :
          LET skip == found \/ enough \/ t \in r.attempted
              all == IF found THEN r.docs[t] ELSE Hybrid(t) \o (IF skip THEN <<>> ELSE live)
              C == Select(all, MaxContexts)
          IN Moved(a, Routed([r EXCEPT !.live[t] = IF skip THEN @ ELSE @ + 1, !.contexts = C,
                                       !.picked[t] = C, !.covered = {t}]))
     /\ UNCHANGED <<payload, attempts, done, versions>>

Quota == LET share == MaxContexts \div Len(Asked) IN IF share < MinShare THEN MinShare ELSE share
Taken(r) == {Identity(r.contexts[k]) : k \in DOMAIN r.contexts}
Untaken(r, docs) == Kept(docs, {k \in DOMAIN docs : Identity(docs[k]) \notin Taken(r)})
\* Two documents of one topic with one identity are one.
Unseen(docs) == Firsts(docs, [k \in DOMAIN docs |-> Identity(docs[k])])
\* A document no document of an earlier topic is the same as.
Own(r, docs) == {d.src : d \in {e \in ToSet(docs) : \A k \in DOMAIN r.contexts : ~SameDocument(r.contexts[k], e)}}

\* One topic of several: its documents, those the focus keeps, none an earlier topic took,
\* and of these its share.
TopicContext(a) ==
  LET r == writer[a]
      t == Topic(a)
      found == r.docs[t] # <<>> \/ t \in r.completed
  IN /\ r.pc = "context" /\ Several
     /\ pinned' = IF found THEN pinned ELSE Repins(a, t)
     /\ \E enough \in Judged(t) : \E live \in {LiveDocuments(t), <<>>} :
          LET skip == found \/ enough \/ t \in r.attempted \/ r.budget = 0
              all == IF found THEN r.docs[t] ELSE Hybrid(t) \o (IF skip THEN <<>> ELSE live)
          IN \E K \in SUBSET (DOMAIN all) :
               LET focused == Kept(all, K)
                   mine == Unseen(Select(Untaken(r, focused), Quota))
               IN Moved(a, [r EXCEPT !.pc = IF r.i = Len(Asked) THEN "merge" ELSE @,
                                     !.i = IF r.i = Len(Asked) THEN @ ELSE @ + 1,
                                     !.live[t] = IF skip THEN @ ELSE @ + 1,
                                     !.budget = IF skip THEN @ ELSE @ - 1,
                                     !.own[t] = Own(r, focused), !.picked[t] = mine,
                                     !.contexts = @ \o mine,
                                     !.covered = IF mine = <<>> THEN @ ELSE @ \cup {t}])
     /\ UNCHANGED <<payload, attempts, done, versions>>

\* The contexts of all topics get one numbering, which those of each topic follow.
Renumbered_Mutant(r) == r
Renumbered(r) ==
  LET all == MergeContexts(r.contexts)
      At(d) == {k \in DOMAIN all : Identity(all[k]) = Identity(d)}
  IN [r EXCEPT !.contexts = all,
               !.picked = [t \in Topics |->
                 LET left == Kept(r.picked[t], {k \in DOMAIN r.picked[t] : At(r.picked[t][k]) # {}})
                 IN [k \in DOMAIN left |-> all[CHOOSE j \in At(left[k]) : TRUE]]]]
MergeTopics(a) ==
  /\ writer[a].pc = "merge"
  /\ IF writer[a].contexts = <<>> THEN Moved(a, [writer[a] EXCEPT !.pc = "failed"])
     ELSE Moved(a, Routed(Renumbered(writer[a])))
  /\ UNCHANGED <<payload, pinned, attempts, done, versions>>

---------------------------------------------------------------------------
(* Writing                                                                 *)

\* chg_001 for every topic with contexts; without an outcome the report is generated.
Delta(a) ==
  /\ writer[a].pc = "delta"
  /\ \/ /\ \E t \in writer[a].covered : writer[a].picked[t] # <<>>
        /\ Moved(a, [writer[a] EXCEPT !.pc = "review", !.body = "delta", !.change = "made"])
     \/ Moved(a, [writer[a] EXCEPT !.pc = "generate", !.change = "failed"])
  /\ UNCHANGED <<payload, pinned, attempts, done, versions>>

\* An answer that is poor or broken is asked for once more; then a broken one fails the job.
Qualities == {"good", "poor", "broken"}
Drafted(r, q) == IF q = "broken" THEN [r EXCEPT !.pc = "failed"] ELSE [r EXCEPT !.pc = "review", !.body = "generated"]
Generate(a) ==
  /\ writer[a].pc = "generate"
  /\ \/ Moved(a, Drafted([writer[a] EXCEPT !.drafts = @ + 1], "good"))
     \/ \E q \in Qualities : Moved(a, Drafted([writer[a] EXCEPT !.drafts = @ + 2], q))
  /\ UNCHANGED <<payload, pinned, attempts, done, versions>>

\* A critic that is off or fails passes; a revision is made once, and never of a delta.
Reviews == {"pass", "revise"}
Changed(r) == r.change = "made"
Rewrites_Mutant(r) == r.reviews < MaxRevisions
Rewrites(r) == r.reviews < MaxRevisions /\ ~Changed(r)
Review(a) ==
  /\ writer[a].pc = "review"
  /\ \E v \in Reviews :
       Moved(a, IF v = "revise" /\ Rewrites(writer[a]) THEN [writer[a] EXCEPT !.pc = "generate", !.reviews = @ + 1]
                ELSE [writer[a] EXCEPT !.pc = "persist"])
  /\ UNCHANGED <<payload, pinned, attempts, done, versions>>

\* prag_007 in one transaction: the version before it is superseded, a snapshot is ready.
NewVersion(a) == [attempt |-> a, status |-> "ready", body |-> writer[a].body, changes |-> Changed(writer[a])]
Superseded(vs) == [k \in DOMAIN vs |-> [vs[k] EXCEPT !.status = "superseded"]]
PersistReport(a) ==
  /\ writer[a].pc = "persist"
  /\ versions' = Append(Superseded(versions), NewVersion(a))
  /\ Moved(a, [writer[a] EXCEPT !.pc = "complete"])
  /\ UNCHANGED <<payload, pinned, attempts, done>>

\* Only the attempt that holds the lease completes the job.
Complete(a) ==
  /\ writer[a].pc = "complete"
  /\ done' = (done \/ a = attempts)
  /\ Moved(a, [writer[a] EXCEPT !.pc = "done"])
  /\ UNCHANGED <<payload, pinned, attempts, versions>>

---------------------------------------------------------------------------

ReportInit ==
  /\ payload \in Reports
  /\ pinned = [t \in Topics |-> 0]
  /\ attempts = 0 /\ done = FALSE /\ versions = <<>>
  /\ writer = [a \in Attempts |-> NotBegun]

ReportStep(a) ==
  \/ SkipTopic(a) \/ ReadTopic(a) \/ ReadTimesOut(a) \/ ReadFails(a) \/ CollectDeferred(a)
  \/ SingleContext(a) \/ TopicContext(a) \/ MergeTopics(a)
  \/ Delta(a) \/ Generate(a) \/ Review(a) \/ PersistReport(a) \/ Complete(a)
ReportNext == Start \/ \E a \in Attempts : ReportStep(a)
ReportSpec == ReportInit /\ [][ReportNext]_reportVars

---------------------------------------------------------------------------
(* Properties                                                              *)

Kinds == {"wiki", "global", "live"}
Articles == UNION {Range(Wiki[t]) \cup Range(Pool[t]) \cup Range(Web[t]) : t \in Topics}
Context == [src : Articles, kind : Kinds, ref : Nat, chunk : Topics \cup {""}, number : Nat]
Bodies == {"none", "delta", "generated"}
Writer ==
  [pc : {"idle", "research", "deferred", "context", "merge", "delta", "generate", "review",
         "persist", "complete", "failed", "done"},
   i : Nat \ {0}, pins : [Topics -> {0} \cup Attempts], docs : [Topics -> Seq(Context)],
   completed : SUBSET Topics, attempted : SUBSET Topics, needs : SUBSET Topics,
   live : [Topics -> Nat], budget : 0..MaxLiveTopics, own : [Topics -> SUBSET Articles],
   picked : [Topics -> Seq(Context)], contexts : Seq(Context), covered : SUBSET Topics,
   body : Bodies, drafts : Nat, change : {"none", "failed", "made"}, reviews : Nat]
Version == [attempt : Attempts, status : {"ready", "superseded"}, body : Bodies, changes : BOOLEAN]

\* Attempts and versions are what the code may build.
ReportTypeOK ==
  /\ payload \in Reports /\ attempts \in 0..payload.tries /\ done \in BOOLEAN
  /\ pinned \in [Topics -> {0} \cup Attempts]
  /\ writer \in [Attempts -> Writer] /\ \A a \in Attempts : writer[a].i <= Len(Asked)
  /\ versions \in Seq(Version)

Writing(a) == writer[a].pc \in {"delta", "generate", "review", "persist", "complete", "done"}

\* Once a report is written, a reference stands for one document: neither the numbers every
\* topic starts from one with nor those of pages read twice meet, and the contexts of a
\* topic are those of the report.
ReferencesAreUnique ==
  \A a \in Attempts : Writing(a) =>
    /\ \A j, k \in DOMAIN writer[a].contexts :
         Reference(writer[a].contexts[j]) = Reference(writer[a].contexts[k]) => j = k
    /\ \A t \in Topics : ToSet(writer[a].picked[t]) \subseteq ToSet(writer[a].contexts)

\* An attempt collects for a topic once, whichever of its three places does it and whatever
\* timed out or failed before: but for a V2 reader of a single topic that fails after it
\* collected, which leaves no mark.
CollectedOnce ==
  \A a \in Attempts : \A t \in Topics : writer[a].live[t] <= IF payload.v2 /\ ~Several THEN 2 ELSE 1

\* A version says it shows changes exactly when its body is the one the change history made,
\* an attempt stores one version, and the last version alone is ready: whatever failed,
\* was reviewed, or ran side by side.
VersionsTellTheTruth ==
  /\ \A v \in DOMAIN versions :
       /\ versions[v].changes <=> versions[v].body = "delta"
       /\ versions[v].status = "ready" <=> v = Len(versions)
  /\ \A v, w \in DOMAIN versions : versions[v].attempt = versions[w].attempt => v = w

\* A topic with a document of its own is covered: what is counted as taken is documents,
\* not the numbers every topic starts anew.
OwnEvidenceIsKept ==
  \A a \in Attempts : Several /\ writer[a].pc = "merge" =>
    \A t \in ToSet(Asked) : writer[a].own[t] # {} => t \in writer[a].covered

\* What a report cites, collects and stores agree, of the types they have.
ReportsAgree == ReportTypeOK /\ ReferencesAreUnique /\ CollectedOnce /\ VersionsTellTheTruth
=============================================================================
