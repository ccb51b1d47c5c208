--------------------------- MODULE WikiMaintenance ---------------------------
(***************************************************************************)
(* The weekly maintenance of one user's wiki: audit what is stored, rebuild *)
(* it, or ask a model for semantic issues and repair the wiki from inside  *)
(* (src/agent/wiki_builder/features/maintenance.py, maintenance_v3.py,     *)
(* semantic_audit.py, semantic_repairs.py, knowledge_gap_research.py).     *)
(*                                                                         *)
(* What a full rebuild writes is a function of its sources here (WikiBuild *)
(* models how); so are the issues a model may report.  A page is the set   *)
(* of sources it lists, the semantic issues its metadata records and the   *)
(* day it was rendered: its metadata is stored only with a new rendering.  *)
(***************************************************************************)
EXTENDS Naturals, Sequences, FiniteSets, SequencesExt, TLC

CONSTANTS
  Pages, Sources,
  PagesOf,      \* per source: the pages a rebuild finds in it
  Issues,       \* what the model may report, in the order of a report: by code, then id
  Reports,      \* the sets of issues (indices of Issues) a call may answer
  UrlsOf,       \* per knowledge gap: the public URLs a search may answer
  Jobs, JobOf,  \* maintenance jobs: the pipeline version and the trigger in their payload
  MaxDay,       \* bound: days
  MaxOther,     \* bound: attempts that die, and builds, MCP writes and changes of sources
  None

ConstantsAreSound ==
  /\ IsFiniteSet(Sources) /\ PagesOf \in [Sources -> SUBSET Pages] /\ None \notin Jobs
  /\ Len(Issues) \in Nat /\ DOMAIN Issues = 1 .. Len(Issues)
  /\ \A i \in DOMAIN Issues :
       /\ Issues[i].code \in {"contradiction", "knowledge_gap", "missing_relation", "missing_topic", "stale_claim"}
       /\ Issues[i].pages \subseteq Pages /\ Issues[i].cites \in Seq(Sources)
       /\ Issues[i].code # "knowledge_gap" => Issues[i].cites # <<>>
       /\ Issues[i].code = "missing_topic" => Issues[i].topic \in Pages
  /\ \A R \in Reports : R \subseteq DOMAIN Issues
  /\ \A j \in Jobs : JobOf[j].pipeline \in {"legacy_v1", "langgraph_v2", "langgraph_v3"}

VARIABLES
  sources,   \* active source heads of the user
  newer,     \* a source was updated after the active wiki version was activated
  pages,     \* wiki documents with their current versions
  links,     \* supports of relations: a pair of pages with a source
  broken,    \* two stored pages share a surface: the gate would not pass
  version,   \* the active wiki version: who built it and what its summary says of quality
  lacking,   \* chunks of the active snapshot without embedding
  events,    \* source events registered for researched URLs
  run,       \* the state of a maintenance graph
  today, others,
  quiet      \* history: a V3 run ended and nothing but maintenance wrote since

vars == <<sources, newer, pages, links, broken, version, lacking, events, run, today, others, quiet>>

NoPages == [p \in {} |-> None]
NoVersion == [by |-> None, metrics |-> "none"]
Idle == [pc |-> "idle", rebuilt |-> FALSE, audited |-> NoVersion, missing |-> FALSE,
         view |-> [pages |-> NoPages, links |-> {}, sources |-> {}], broken |-> FALSE,
         report |-> {}, repaired |-> {}, quality |-> "none", calm |-> TRUE]
\* The session lock of the user: one build, rebuild or maintenance at a time.
Held == \E j \in Jobs : run[j].pc \notin {"idle", "done", "failed"}

---------------------------------------------------------------------------
(* Operational audit and plan                                              *)

\* plan_wiki_maintenance_v3; V2 also counts orphans and contradictions (_has_structural_issues),
\* though no rebuild removes an orphan.
NeedsRebuild(j) ==
  \/ JobOf[j].trigger = "source_deleted"
  \/ sources = {} \/ version = NoVersion
  \/ version.metrics = "none"
  \/ newer
  \/ version.metrics = "issues" /\ JobOf[j].pipeline = "langgraph_v2"

AuditedPc(j) ==
  IF JobOf[j].pipeline = "legacy_v1" \/ NeedsRebuild(j) THEN "rebuild"
  ELSE IF JobOf[j].pipeline = "langgraph_v3" THEN "inspect"
  ELSE IF lacking THEN "derive" ELSE "finalize"

Start(j) ==
  /\ run[j].pc = "idle" /\ ~Held
  /\ run' = [run EXCEPT ![j] = [Idle EXCEPT !.pc = AuditedPc(j), !.audited = version, !.missing = lacking]]
  /\ UNCHANGED <<sources, newer, pages, links, broken, version, lacking, events, today, others, quiet>>

---------------------------------------------------------------------------
(* Full rebuild                                                            *)

\* validate_wiki_quality passes; its metrics are clean only where a relation leads to every
\* page (relations have no direction here) and no page records a contradiction.
Joined(p, L) == \E l \in L : p \in l[1]
Contradicted(page) == \E i \in page.records : Issues[i].code = "contradiction"
Qualities(P, L) ==
  {q \in {"clean", "issues"} :
     /\ q = "clean" => \A p \in DOMAIN P : Joined(p, L) /\ ~Contradicted(P[p])
     /\ q = "issues" => DOMAIN P # {}}

Fresh(S) == [p \in UNION {PagesOf[s] : s \in S} |->
               [sources |-> {s \in S : p \in PagesOf[s]}, records |-> {}, day |-> today]]
AfterRebuild(j) == IF JobOf[j].pipeline = "langgraph_v3" THEN "inspect" ELSE "finalize"
Joinable(S) == UNION {{<<P, s>> : P \in {Q \in SUBSET PagesOf[s] : Cardinality(Q) = 2}} : s \in S}
\* The embeddings of what is written may fail; that is a warning.
Embed == lacking' \in BOOLEAN

\* One transaction replaces the wiki by what the active sources say, or retires it when
\* there is none; the graph may not rebuild twice.
Rebuild(j) ==
  /\ run[j].pc = "rebuild" /\ ~run[j].rebuilt
  /\ pages' = Fresh(sources) /\ links' \in SUBSET Joinable(sources) /\ broken' = FALSE
  /\ IF sources = {} THEN version' = NoVersion /\ lacking' = FALSE
     ELSE (\E q \in Qualities(pages', links') : version' = [by |-> j, metrics |-> q]) /\ Embed
  /\ newer' = FALSE
  /\ run' = [run EXCEPT ![j].pc = AfterRebuild(j), ![j].rebuilt = TRUE]
  /\ UNCHANGED <<sources, events, today, others, quiet>>

---------------------------------------------------------------------------
(* Inspection: snapshot, structural lint, semantic lint                    *)

RouteStructural(r, bad) ==
  IF ~bad THEN "lint" ELSE IF r.rebuilt THEN "failed" ELSE "rebuild"
LoadSnapshot(j) ==
  /\ run[j].pc = "inspect"
  /\ run' = [run EXCEPT ![j].view = [pages |-> pages, links |-> links, sources |-> sources],
                        ![j].pc = RouteStructural(run[j], broken)]
  /\ UNCHANGED <<sources, newer, pages, links, broken, version, lacking, events, today, others, quiet>>

\* What parse_wiki_semantic_lint_response keeps of an answer: references must exist, a
\* contradiction and a stale claim rest on two sources, a topic has no page yet and a
\* relation joins two pages that no relation joins.
Linked(view, P) == \E l \in view.links : l[1] = P
IsValid(view, i) ==
  /\ Issues[i].pages \subseteq DOMAIN view.pages
  /\ Range(Issues[i].cites) \subseteq view.sources
  /\ Issues[i].code \in {"contradiction", "stale_claim"} => Cardinality(Range(Issues[i].cites)) >= 2
  /\ Issues[i].code = "missing_topic" => Issues[i].topic \notin DOMAIN view.pages
  /\ Issues[i].code = "missing_relation" => ~Linked(view, Issues[i].pages)

SemanticLint(j) ==
  /\ run[j].pc = "lint"
  /\ \E R \in Reports :
       run' = [run EXCEPT ![j].report = {i \in R : IsValid(run[j].view, i)}, ![j].pc = "repair"]
  /\ UNCHANGED <<sources, newer, pages, links, broken, version, lacking, events, today, others, quiet>>

---------------------------------------------------------------------------
(* Internal repairs                                                        *)

\* _primary_source_reference: the first source an issue cites.
Evidence(i) == Head(Issues[i].cites)
Internal(R) == {i \in R : Issues[i].code # "knowledge_gap"}
\* An issue a page already records is not recorded again, and one that no page lacks is skipped.
PagesToMark(view, i) == {p \in Issues[i].pages : i \notin view.pages[p].records}
Planned(view, R) ==
  {i \in Internal(R) : Issues[i].code \in {"contradiction", "stale_claim"} => PagesToMark(view, i) # {}}
Batches(view, R) == {Evidence(i) : i \in Planned(view, R)}
BatchIssues(view, R, s) == {i \in Planned(view, R) : Evidence(i) = s}

\* plan_wiki_semantic_repairs stores every batch under source_version_id, what the loop over
\* the issues left in that variable: the evidence of the last issue that is no knowledge gap.
StoredUnder(R, s) == Evidence(Max(Internal(R)))

\* The records one batch adds to a page, the pages it makes and the relations it adds.
Marks(view, B, p) ==
  {i \in B : Issues[i].code \in {"contradiction", "stale_claim"} /\ p \in PagesToMark(view, i)}
Topics(B) == {Issues[i].topic : i \in {k \in B : Issues[k].code = "missing_topic"}}
Pairs(B) == {Issues[i].pages : i \in {k \in B : Issues[k].code = "missing_relation"}}
Touched(view, B) == {p \in DOMAIN view.pages : Marks(view, B, p) # {}} \cup Topics(B)

StagedPage_Mutant(view, staged, B, s, p) ==
  IF p \notin DOMAIN staged THEN [sources |-> {s}, records |-> {}, day |-> today]
  ELSE [sources |-> staged[p].sources \cup {s}, records |-> Marks(view, B, p), day |-> today]
StagedPage_Bare_Mutant(view, staged, B, s, p) ==
  [sources |-> IF p \in DOMAIN staged THEN staged[p].sources ELSE {}, day |-> today,
   records |-> IF p \in DOMAIN view.pages THEN view.pages[p].records \cup Marks(view, B, p) ELSE {}]
\* build_wiki_plan on what the batches before planned: the page gains the source, and the
\* records of the snapshot and of this batch replace those it has.
StagedPage(view, staged, B, s, p) ==
  IF p \notin DOMAIN staged THEN [sources |-> {s}, records |-> {}, day |-> today]
  ELSE [sources |-> staged[p].sources \cup {s}, day |-> today,
        records |-> IF p \in DOMAIN view.pages THEN view.pages[p].records \cup Marks(view, B, p) ELSE {}]

\* _upsert_wiki_document: a version is stored only when its rendering is new.
SameRendering(a, b) == a.sources = b.sources /\ a.day = b.day
Upserted(db, new) ==
  [p \in DOMAIN db \cup DOMAIN new |->
     IF p \notin DOMAIN new \/ (p \in DOMAIN db /\ SameRendering(db[p], new[p])) THEN db[p] ELSE new[p]]

\* _entries_after_plan: what a batch plans takes the place of what was planned before.
Entries(staged, new) ==
  [p \in DOMAIN staged \cup DOMAIN new |-> IF p \in DOMAIN new THEN new[p] ELSE staged[p]]

\* Every batch is planned on what those before it planned and stored in the same
\* transaction; supports are appended (replace_source_relation_supports=False).
ApplyBatch(view, R, acc, s) ==
  LET B == {i \in Planned(view, R) : Evidence(i) = s}
      under == StoredUnder(R, s)
      new == [p \in Touched(view, B) |-> StagedPage(view, acc.staged, B, under, p)]
      db == Upserted(acc.pages, new)
  IN [staged |-> Entries(acc.staged, new), pages |-> db,
      links |-> acc.links \cup {<<P, under>> : P \in {Q \in Pairs(B) : Q \subseteq DOMAIN db}}]
Applied(view, R) ==
  LET order == SetToSeq(Batches(view, R))
      last == Cardinality(Batches(view, R))
      after[n \in 0 .. last] ==
        IF n = 0 THEN [staged |-> view.pages, pages |-> pages, links |-> links]
        ELSE ApplyBatch(view, R, after[n - 1], order[n])
  IN after[last]

\* The repairs make a version of the job, without metrics unless the job rebuilt before.
VersionOf(j) == IF version.by = j THEN version ELSE [by |-> j, metrics |-> "none"]
ApplyInternalRepairs(j) ==
  /\ run[j].pc = "repair"
  /\ LET r == run[j]
         done == Applied(r.view, r.report)
     IN /\ \E q \in Qualities(done.staged, r.view.links \cup done.links) :
             run' = [run EXCEPT ![j].pc = "research", ![j].repaired = Planned(r.view, r.report),
                                ![j].quality = q]
        /\ IF Batches(r.view, r.report) = {} THEN UNCHANGED <<pages, links, version, newer, lacking>>
           ELSE /\ pages' = done.pages /\ links' = done.links
                /\ version' = VersionOf(j) /\ newer' = FALSE /\ Embed
  /\ UNCHANGED <<sources, broken, events, today, others, quiet>>

---------------------------------------------------------------------------
(* After the repairs: research, derivatives, summary                       *)

\* Each gap is searched; what a search or a registration fails to bring is a warning.  An
\* event is named by issue and URL, and a URL is taken once per run.
Gaps(R) == {i \in R : Issues[i].code = "knowledge_gap"}
ResearchKnowledgeGaps(j) ==
  /\ run[j].pc = "research"
  /\ \E E \in SUBSET UNION {{<<i, u>> : u \in UrlsOf[i]} : i \in Gaps(run[j].report)} :
       /\ \A e, f \in E : e[2] = f[2] => e = f
       /\ events' = events \cup E
  /\ run' = [run EXCEPT ![j].pc = IF ~run[j].rebuilt /\ run[j].missing THEN "derive" ELSE "summary"]
  /\ UNCHANGED <<sources, newer, pages, links, broken, version, lacking, today, others, quiet>>

\* V3 takes a failure as a warning, V2 fails with it (Crash).
RepairDerivatives(j) ==
  /\ run[j].pc = "derive"
  /\ IF JobOf[j].pipeline = "langgraph_v3" THEN lacking' \in {lacking, FALSE} ELSE lacking' = FALSE
  /\ run' = [run EXCEPT ![j].pc = IF JobOf[j].pipeline = "langgraph_v3" THEN "summary" ELSE "finalize"]
  /\ UNCHANGED <<sources, newer, pages, links, broken, version, events, today, others, quiet>>

SummaryVersion_Mutant(r, j) == r.audited.by
\* _summary_wiki_version_id: the version of the repairs, of the rebuild, or of the audit.
SummaryVersion(r, j) == IF r.repaired # {} \/ r.rebuilt THEN j ELSE r.audited.by
\* update_wiki_maintenance_summary touches the version only while it is the active one.
PersistSummary(j) ==
  /\ run[j].pc = "summary"
  /\ version' = IF version # NoVersion /\ SummaryVersion(run[j], j) = version.by
                  THEN [version EXCEPT !.metrics = run[j].quality] ELSE version
  /\ run' = [run EXCEPT ![j].pc = "finalize"]
  /\ UNCHANGED <<sources, newer, pages, links, broken, lacking, events, today, others, quiet>>

Finalize(j) ==
  /\ run[j].pc = "finalize"
  /\ run' = [run EXCEPT ![j] = [Idle EXCEPT !.pc = "done"]]
  /\ quiet' = (JobOf[j].pipeline = "langgraph_v3" /\ run[j].calm)
  /\ UNCHANGED <<sources, newer, pages, links, broken, version, lacking, events, today, others>>

\* A call raises, the worker dies or the structure stays broken: the job runs again.
Crash(j) ==
  /\ run[j].pc \notin {"idle", "done"} /\ others < MaxOther
  /\ run' = [run EXCEPT ![j] = Idle]
  /\ others' = others + 1 /\ quiet' = FALSE
  /\ UNCHANGED <<sources, newer, pages, links, broken, version, lacking, events, today>>

---------------------------------------------------------------------------
(* What happens beside maintenance                                         *)

Other ==
  /\ others < MaxOther /\ others' = others + 1 /\ quiet' = FALSE
  /\ run' = [j \in Jobs |-> [run[j] EXCEPT !.calm = FALSE]]
  /\ UNCHANGED <<events, today>>
AddSource(s) ==
  /\ Other
  /\ sources' = sources \cup {s} /\ newer' = TRUE
  /\ UNCHANGED <<pages, links, broken, version, lacking>>
RemoveSource(s) ==
  /\ Other /\ s \in sources
  /\ sources' = sources \ {s}
  /\ UNCHANGED <<newer, pages, links, broken, version, lacking>>
\* A build renders the pages of its source anew from fixed fields, without the records.
Written(s) ==
  [p \in PagesOf[s] |-> [sources |-> {s} \cup IF p \in DOMAIN pages THEN pages[p].sources ELSE {},
                         records |-> {}, day |-> today]]
Store(s) ==
  /\ Other /\ s \in sources
  /\ pages' = Upserted(pages, Written(s)) /\ links' = links \cup Joinable({s})
  /\ version' = [by |-> "build", metrics |-> "none"] /\ newer' = FALSE /\ Embed
  /\ UNCHANGED sources
Build(s) == ~Held /\ ~broken /\ Store(s) /\ UNCHANGED broken
\* An MCP write holds no lock and may store what shares a surface with another page.
Submit(s) == Store(s) /\ broken' \in BOOLEAN /\ (broken => broken')
Delete(p) ==
  /\ Other /\ p \in DOMAIN pages
  /\ pages' = [q \in DOMAIN pages \ {p} |-> pages[q]]
  /\ links' = {l \in links : p \notin l[1]}
  /\ UNCHANGED <<sources, newer, broken, version, lacking>>
NextDay ==
  /\ today < MaxDay /\ today' = today + 1
  /\ UNCHANGED <<sources, newer, pages, links, broken, version, lacking, events, run, others, quiet>>

Init ==
  /\ sources = Sources /\ newer = FALSE
  /\ pages = [p \in UNION {PagesOf[s] : s \in Sources} |->
                [sources |-> {s \in Sources : p \in PagesOf[s]}, records |-> {}, day |-> 0]]
  /\ links = {} /\ broken = FALSE
  /\ version \in [by : {"build"}, metrics : {"none", "issues"}]
  /\ lacking \in BOOLEAN
  /\ events = {} /\ run = [j \in Jobs |-> Idle]
  /\ today = 0 /\ others = 0 /\ quiet = FALSE

Next ==
  \/ \E j \in Jobs : \/ Start(j) \/ Rebuild(j) \/ LoadSnapshot(j) \/ SemanticLint(j)
                     \/ ApplyInternalRepairs(j) \/ ResearchKnowledgeGaps(j)
                     \/ RepairDerivatives(j) \/ PersistSummary(j) \/ Finalize(j) \/ Crash(j)
  \/ \E s \in Sources : AddSource(s) \/ RemoveSource(s) \/ Build(s) \/ Submit(s)
  \/ \E p \in Pages : Delete(p)
  \/ NextDay
Spec == Init /\ [][Next]_vars

---------------------------------------------------------------------------
(* Properties                                                              *)

\* The state has its types; a page lists and a relation rests on known sources.
TypeOK ==
  /\ sources \subseteq Sources /\ DOMAIN pages \subseteq Pages
  /\ \A p \in DOMAIN pages : pages[p].sources \in (SUBSET Sources) \ {{}} /\ pages[p].records \subseteq DOMAIN Issues
  /\ links \subseteq (SUBSET Pages) \X Sources
  /\ version.by \in Jobs \cup {"build", None} /\ version.metrics \in {"none", "clean", "issues"}
  /\ \A j \in Jobs : run[j].repaired \subseteq run[j].report

\* docs/wiki-maintenance-v3.md:12-14, maintenance does what is needed and no more: once a V3
\* run has ended and nobody else wrote, a later V3 run does not rebuild the wiki, whatever
\* the first rebuilt or repaired.
LeavesQuietWiki ==
  \A j \in Jobs :
    quiet /\ sources # {} /\ JobOf[j].pipeline = "langgraph_v3" /\ JobOf[j].trigger = "weekly"
      /\ run[j].pc = "idle" => run'[j].pc # "rebuild"
QuietWikiIsLeftAlone == [][LeavesQuietWiki]_vars

Repairs(j) == run[j].pc = "repair" /\ run'[j].pc = "research"
\* docs/wiki-maintenance-v3.md:137, a repair deletes nothing: when nobody else wrote since
\* the snapshot, every page, source, record and relation outlives every batch.
OnlyAdds ==
  \A j \in Jobs : Repairs(j) /\ run[j].calm =>
    /\ links \subseteq links'
    /\ \A p \in DOMAIN pages : /\ p \in DOMAIN pages'
                                /\ pages[p].sources \subseteq pages'[p].sources
                                /\ pages[p].records \subseteq pages'[p].records
RepairsOnlyAdd == [][OnlyAdds]_vars
=============================================================================
