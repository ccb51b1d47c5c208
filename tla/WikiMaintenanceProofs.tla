------------------------- MODULE WikiMaintenanceProofs -------------------------
(***************************************************************************)
(* Proofs about the pages of a wiki: about WikiMaintenance, for any pages, *)
(* sources, issues, reports, jobs, days and writes beside the maintenance, *)
(* and about WikiBuild, for any names, surfaces, sources, answers, jobs    *)
(* and deletions.                                                          *)
(*                                                                         *)
(* Maintenance has two invariants: IInv, what a graph knows of the active  *)
(* version (of the repairs only the version they leave matters to it),     *)
(* from which a quiet wiki is left alone; and WikiInv, which adds what     *)
(* pages, relations and snapshots rest on.  What the fold over repair      *)
(* batches leaves is shown by induction over the batches, with the least   *)
(* number a statement fails for.                                           *)
(*                                                                         *)
(* Builds have one, BuildInv, stated job by job: what a job that wrote     *)
(* beside nobody foresees of the wiki, and that the pages it plans cover   *)
(* what it found.  It rests on what identity resolution yields: one node   *)
(* for every connected component, no two of which share a surface.         *)
(***************************************************************************)
EXTENDS WikiMaintenance, WikiBuild, FiniteSetTheorems, WellFoundedInduction, TLAPS

Metrics == {"none", "clean", "issues"}
Busy(j) == run[j].pc \notin {"idle", "done", "failed"}
IsV3(j) == JobOf[j].pipeline = "langgraph_v3"

\* The fields of the state of a graph; what a snapshot, a report and an audited
\* version hold does not matter.
Row(r) == r \in [pc : {r.pc}, rebuilt : BOOLEAN, audited : {r.audited}, missing : {r.missing}, view : {r.view},
                 broken : {r.broken}, report : {r.report}, repaired : {r.repaired}, quality : Metrics, calm : BOOLEAN]
Rows ==
  /\ run = [j \in Jobs |-> run[j]]
  /\ \A j \in Jobs : Row(run[j])
  /\ version \in [by : {version.by}, metrics : Metrics]

\* One graph at a time has the lock of the user.
OneGraph == \A i, j \in Jobs : Busy(i) /\ Busy(j) => i = j

\* Inspection, repairs and what follows them are steps of the third version.
KeepsPath == \A j \in Jobs : run[j].pc \in {"inspect", "lint", "repair", "research", "summary"} => IsV3(j)

\* The active version has seen every source; Settled: its quality is known too.
Seen == sources = {} \/ (version # NoVersion /\ ~newer)
Settled == sources = {} \/ (version # NoVersion /\ ~newer /\ version.metrics # "none")

\* What a V3 graph beside which nobody wrote relies on: the version is the one it
\* audited or made itself, and the one its summary will name.
Calm(j) ==
  LET r == run[j]
  IN  /\ r.pc \in {"inspect", "lint", "repair"} =>
           /\ Seen
           /\ IF r.rebuilt THEN ~broken /\ (version = NoVersion \/ version.by = j) ELSE version = r.audited
      /\ r.pc \in {"research", "derive", "summary"} =>
           /\ Seen /\ r.quality \in {"clean", "issues"}
           /\ version = NoVersion \/ version.by = SummaryVersion(r, j)
      /\ r.pc = "finalize" => Settled

IInv ==
  /\ Rows /\ OneGraph /\ KeepsPath
  /\ \A j \in Jobs : IsV3(j) /\ run[j].calm => Calm(j)
  /\ quiet => /\ \A j \in Jobs : Busy(j) => run[j].calm
              /\ (\A j \in Jobs : ~Busy(j)) => Settled

-----------------------------------------------------------------------------
(* What the steps have in common.                                          *)

\* A row whose step, flags and marks change is a row.
LEMMA RowOf ==
  ASSUME NEW r, Row(r), NEW pc, NEW b \in BOOLEAN
  PROVE  /\ Row([r EXCEPT !.pc = pc])
         /\ [r EXCEPT !.pc = pc].pc = pc
         /\ \A x : [r EXCEPT !.pc = pc].calm = r.calm /\ [r EXCEPT !.pc = pc].rebuilt = r.rebuilt
BY DEF Row

LEMMA IdleRow ==
  /\ Row(Idle) /\ Idle.pc = "idle" /\ Idle.calm = TRUE /\ Idle.rebuilt = FALSE
BY DEF Idle, Row, Metrics

\* The step of a graph, where no other graph has the lock.
LEMMA GraphStep ==
  ASSUME IInv, NEW j \in Jobs, NEW r, Row(r), run' = [run EXCEPT ![j] = r],
         \A i \in Jobs : Busy(i) => i = j,
         version' \in [by : {version.by'}, metrics : Metrics],
         r.pc \in {"inspect", "lint", "repair", "research", "summary"} => IsV3(j),
         IsV3(j) /\ r.calm => Calm(j)',
         quiet' => IF r.pc \in {"idle", "done", "failed"} THEN Settled' ELSE r.calm
  PROVE  IInv'
<1>1. run'[j] = r /\ (\A i \in Jobs : i # j => run'[i] = run[i]) /\ run' = [i \in Jobs |-> run'[i]]
  BY DEF IInv, Rows
<1>2. Rows'
  BY <1>1 DEF IInv, Rows
<1>3. \A i \in Jobs : i # j => run[i].pc \in {"idle", "done", "failed"}
  BY DEF Busy
<1>4. \A i \in Jobs : Busy(i)' => i = j
  BY <1>1, <1>3 DEF Busy
<1>5. OneGraph'
  BY <1>4 DEF OneGraph
<1>6. KeepsPath'
  BY <1>1, <1>3 DEF KeepsPath, IsV3
<1>7. ASSUME NEW i \in Jobs, IsV3(i), run'[i].calm PROVE Calm(i)'
  <2>1. CASE i = j
    BY <1>1, <1>7, <2>1
  <2>2. CASE i # j
    <3>1. run'[i].pc \in {"idle", "done", "failed"}
      BY <1>1, <1>3, <2>2
    <3> QED
      BY <3>1 DEF Calm
  <2> QED
    BY <2>1, <2>2
<1>8. ASSUME quiet' PROVE (\A i \in Jobs : Busy(i)' => run'[i].calm) /\ ((\A i \in Jobs : ~Busy(i)') => Settled')
  BY <1>1, <1>4, <1>8 DEF Busy
<1>9. \A i \in Jobs : IsV3(i)' <=> IsV3(i)
  BY DEF IsV3
<1> QED
  BY <1>2, <1>5, <1>6, <1>7, <1>8, <1>9 DEF IInv

-----------------------------------------------------------------------------
(* The steps of a graph.                                                   *)

LEMMA InitInv == ASSUME Init PROVE IInv
<1>1. \A j \in Jobs : run[j] = Idle
  BY DEF Init
<1>2. Rows
  BY <1>1, IdleRow DEF Rows, Init, Metrics
<1>3. \A j \in Jobs : ~Busy(j) /\ Calm(j)
  BY <1>1, IdleRow DEF Busy, Calm
<1>4. OneGraph /\ KeepsPath
  BY <1>1, <1>3, IdleRow DEF OneGraph, KeepsPath
<1>5. ~quiet
  BY DEF Init
<1> QED
  BY <1>2, <1>3, <1>4, <1>5 DEF IInv

\* A graph that has the lock has it alone.
LEMMA BusyAlone == ASSUME IInv, NEW j \in Jobs, Busy(j) PROVE \A i \in Jobs : Busy(i) => i = j
BY DEF IInv, OneGraph

LEMMA StartKeeps == ASSUME IInv, NEW j \in Jobs, Start(j) PROVE IInv'
<1> DEFINE r == [Idle EXCEPT !.pc = AuditedPc(j), !.audited = version, !.missing = lacking]
<1>1. /\ run' = [run EXCEPT ![j] = r]
      /\ version' = version /\ sources' = sources /\ newer' = newer /\ quiet' = quiet
  BY DEF Start
<1>2. Row(r) /\ r.pc = AuditedPc(j) /\ r.audited = version /\ r.calm = TRUE /\ r.rebuilt = FALSE
  BY DEF Idle, Row, Metrics
<1> HIDE DEF r
<1>3. \A i \in Jobs : ~Busy(i)
  BY DEF Start, Held, Busy
<1>4. r.pc \in {"rebuild", "inspect", "derive", "finalize"}
  BY <1>2 DEF AuditedPc
<1>5. ASSUME IsV3(j) PROVE r.pc = "rebuild" \/ (r.pc = "inspect" /\ Seen)
  BY <1>2, <1>5 DEF AuditedPc, NeedsRebuild, IsV3, Seen
<1>6. r.pc = "inspect" => IsV3(j)
  BY <1>2 DEF AuditedPc, IsV3
<1>7. run'[j] = r
  BY <1>1 DEF IInv, Rows
<1>8. ASSUME IsV3(j) PROVE Calm(j)'
  BY <1>1, <1>2, <1>5, <1>7, <1>8 DEF Calm, Seen, NoVersion
<1>9. version' \in [by : {version'.by}, metrics : Metrics]
  BY <1>1 DEF IInv, Rows
<1> QED
  BY <1>1, <1>2, <1>3, <1>4, <1>6, <1>8, <1>9, GraphStep

LEMMA RebuildKeeps == ASSUME IInv, NEW j \in Jobs, None \notin Jobs, Rebuild(j) PROVE IInv'
<1> DEFINE r == [run[j] EXCEPT !.pc = AfterRebuild(j), !.rebuilt = TRUE]
<1>1. run[j].pc = "rebuild" /\ sources' = sources /\ quiet' = quiet /\ newer' = FALSE /\ broken' = FALSE
  BY DEF Rebuild
<1>2. run' = [run EXCEPT ![j] = r]
  BY DEF Rebuild, IInv, Rows
<1>3. Row(r) /\ r.pc = AfterRebuild(j) /\ r.rebuilt = TRUE /\ r.calm = run[j].calm
  <2>1. Row(run[j])
    BY DEF IInv, Rows
  <2> QED
    BY <2>1 DEF Row
<1> HIDE DEF r
<1>4. Busy(j)
  BY <1>1 DEF Busy
<1>5. \/ sources = {} /\ version' = NoVersion
      \/ version'.by = j /\ version' # NoVersion /\ version' \in [by : {j}, metrics : {"clean", "issues"}]
  <2>1. Qualities(pages', links') \subseteq {"clean", "issues"}
    BY DEF Qualities
  <2>2. CASE sources = {}
    BY <2>2 DEF Rebuild
  <2>3. CASE sources # {}
    BY <2>1, <2>3 DEF Rebuild, NoVersion
  <2> QED
    BY <2>2, <2>3
<1>6. r.pc = IF IsV3(j) THEN "inspect" ELSE "finalize"
  BY <1>3 DEF AfterRebuild, IsV3
<1>7. run'[j] = r
  BY <1>2 DEF IInv, Rows
<1>8. ASSUME IsV3(j) PROVE Calm(j)'
  BY <1>1, <1>3, <1>5, <1>6, <1>7, <1>8 DEF Calm, Seen
<1>9. version' \in [by : {version'.by}, metrics : Metrics]
  BY <1>5 DEF NoVersion, Metrics
<1>10. quiet' => r.calm
  BY <1>1, <1>3, <1>4 DEF IInv
<1> QED
  BY <1>2, <1>3, <1>4, <1>6, <1>8, <1>9, <1>10, BusyAlone, GraphStep

\* A step that reads: the version and what it rests on stay.
LEMMA ReadingStep ==
  ASSUME IInv, NEW j \in Jobs, NEW r, Row(r), run' = [run EXCEPT ![j] = r], Busy(j), IsV3(j),
         UNCHANGED <<sources, newer, broken, version, quiet>>,
         r.calm = run[j].calm, r.calm => Calm(j)',
         r.pc \notin {"idle", "done", "failed"} \/ ~quiet
  PROVE  IInv'
<1>1. quiet' = quiet /\ version' = version
  OBVIOUS
<1>2. version' \in [by : {version'.by}, metrics : Metrics]
  BY <1>1 DEF IInv, Rows
<1>3. quiet => r.calm
  BY DEF IInv
<1>4. quiet' => IF r.pc \in {"idle", "done", "failed"} THEN Settled' ELSE r.calm
  BY <1>1, <1>3
<1>5. \A i \in Jobs : Busy(i) => i = j
  BY BusyAlone
<1>6. IsV3(j) /\ r.calm => Calm(j)'
  OBVIOUS
<1>7. r.pc \in {"inspect", "lint", "repair", "research", "summary"} => IsV3(j)
  OBVIOUS
<1> QED
  BY <1>2, <1>4, <1>5, <1>6, <1>7, GraphStep

LEMMA LoadSnapshotKeeps == ASSUME IInv, NEW j \in Jobs, LoadSnapshot(j) PROVE IInv'
<1> DEFINE r == [run[j] EXCEPT !.view = [pages |-> pages, links |-> links, sources |-> sources],
                               !.pc = RouteStructural(run[j], broken)]
<1>1. run[j].pc = "inspect" /\ UNCHANGED <<sources, newer, broken, version, quiet>>
  BY DEF LoadSnapshot
<1>2. run' = [run EXCEPT ![j] = r]
  BY DEF LoadSnapshot, IInv, Rows
<1>3. /\ Row(r) /\ r.pc = RouteStructural(run[j], broken) /\ r.calm = run[j].calm
      /\ r.rebuilt = run[j].rebuilt /\ r.audited = run[j].audited
  <2>1. Row(run[j])
    BY DEF IInv, Rows
  <2> QED
    BY <2>1 DEF Row
<1> HIDE DEF r
<1>4. Busy(j) /\ IsV3(j)
  BY <1>1 DEF Busy, IInv, KeepsPath
<1>5. run[j].calm => Calm(j)
  BY <1>4 DEF IInv
<1>6. run'[j] = r
  BY <1>2 DEF IInv, Rows
<1>7. r.pc \in {"lint", "failed", "rebuild"} /\ (r.pc = "failed" => run[j].rebuilt /\ broken)
  BY <1>3 DEF RouteStructural
<1>8. r.calm => Calm(j)'
  BY <1>1, <1>3, <1>5, <1>6, <1>7 DEF Calm, Seen
<1>9. r.pc # "failed" \/ ~quiet
  BY <1>1, <1>4, <1>5, <1>7 DEF Calm, IInv
<1> QED
  BY <1>1, <1>2, <1>3, <1>4, <1>7, <1>8, <1>9, ReadingStep

LEMMA SemanticLintKeeps == ASSUME IInv, NEW j \in Jobs, SemanticLint(j) PROVE IInv'
<1>1. PICK R \in Reports :
        run' = [run EXCEPT ![j].report = {i \in R : IsValid(run[j].view, i)}, ![j].pc = "repair"]
  BY DEF SemanticLint
<1> DEFINE r == [run[j] EXCEPT !.report = {i \in R : IsValid(run[j].view, i)}, !.pc = "repair"]
<1>2. run[j].pc = "lint" /\ UNCHANGED <<sources, newer, broken, version, quiet>>
  BY DEF SemanticLint
<1>3. run' = [run EXCEPT ![j] = r]
  BY <1>1 DEF IInv, Rows
<1>4. Row(r) /\ r.pc = "repair" /\ r.calm = run[j].calm /\ r.rebuilt = run[j].rebuilt /\ r.audited = run[j].audited
  <2>1. Row(run[j])
    BY DEF IInv, Rows
  <2> QED
    BY <2>1 DEF Row
<1> HIDE DEF r
<1>5. Busy(j) /\ IsV3(j)
  BY <1>2 DEF Busy, IInv, KeepsPath
<1>6. run[j].calm => Calm(j)
  BY <1>5 DEF IInv
<1>7. run'[j] = r
  BY <1>3 DEF IInv, Rows
<1>8. r.calm => Calm(j)'
  BY <1>2, <1>4, <1>6, <1>7 DEF Calm, Seen
<1> QED
  BY <1>2, <1>3, <1>4, <1>5, <1>8, ReadingStep

\* Batches are made of the planned issues.
LEMMA NoBatches == ASSUME NEW V, NEW R PROVE Batches(V, R) = {} <=> Planned(V, R) = {}
BY DEF Batches

LEMMA QualityIsKnown == ASSUME NEW P, NEW L PROVE Qualities(P, L) \subseteq {"clean", "issues"}
BY DEF Qualities

LEMMA ApplyInternalRepairsKeeps ==
  ASSUME IInv, NEW j \in Jobs, None \notin Jobs, ApplyInternalRepairs(j) PROVE IInv'
<1> DEFINE V == run[j].view
           R == run[j].report
<1>0. PICK q \in Qualities(Applied(V, R).staged, V.links \cup Applied(V, R).links) :
        run' = [run EXCEPT ![j].pc = "research", ![j].repaired = Planned(V, R), ![j].quality = q]
  BY DEF ApplyInternalRepairs
<1> DEFINE r == [run[j] EXCEPT !.pc = "research", !.repaired = Planned(V, R), !.quality = q]
<1>1. run[j].pc = "repair" /\ sources' = sources /\ broken' = broken /\ quiet' = quiet
  BY DEF ApplyInternalRepairs
<1>2. \/ Planned(V, R) = {} /\ version' = version /\ newer' = newer
      \/ Planned(V, R) # {} /\ version' = VersionOf(j) /\ newer' = FALSE
  BY NoBatches DEF ApplyInternalRepairs
<1>3. run' = [run EXCEPT ![j] = r]
  BY <1>0 DEF IInv, Rows
<1>4. q \in {"clean", "issues"}
  BY <1>0, QualityIsKnown
<1>5. /\ Row(r) /\ r.pc = "research" /\ r.calm = run[j].calm /\ r.rebuilt = run[j].rebuilt
      /\ r.audited = run[j].audited /\ r.repaired = Planned(V, R) /\ r.quality \in {"clean", "issues"}
  <2>1. Row(run[j])
    BY DEF IInv, Rows
  <2> QED
    BY <2>1, <1>4 DEF Row, Metrics
<1> HIDE DEF r, V, R
<1>6. Busy(j) /\ IsV3(j)
  BY <1>1 DEF Busy, IInv, KeepsPath
<1>7. run'[j] = r
  BY <1>3 DEF IInv, Rows
<1>8. /\ version \in [by : {version.by}, metrics : Metrics]
      /\ VersionOf(j).by = j /\ VersionOf(j) \in [by : {j}, metrics : Metrics] /\ VersionOf(j) # NoVersion
  <2>1. version \in [by : {version.by}, metrics : Metrics]
    BY DEF IInv, Rows
  <2> QED
    BY <2>1 DEF VersionOf, NoVersion, Metrics
<1>9. version' \in [by : {version'.by}, metrics : Metrics]
  BY <1>2, <1>8
<1>10. ASSUME r.calm PROVE Calm(j)'
  <2>1. Calm(j)
    BY <1>5, <1>6, <1>10 DEF IInv
  <2>2. /\ Seen
        /\ IF r.rebuilt THEN version = NoVersion \/ version.by = j ELSE version = r.audited
    BY <2>1, <1>1, <1>5 DEF Calm
  <2>3. Seen'
    BY <2>2, <1>1, <1>2, <1>8 DEF Seen, NoVersion
  <2>4. SummaryVersion(r, j) = IF Planned(V, R) # {} \/ r.rebuilt THEN j ELSE r.audited.by
    BY <1>5 DEF SummaryVersion
  <2>5. version' = NoVersion \/ version'.by = SummaryVersion(r, j)
    BY <2>2, <2>4, <1>2, <1>8 DEF NoVersion
  <2>6. (version' = NoVersion \/ version'.by = SummaryVersion(run[j], j)') <=> (version' = NoVersion \/ version'.by = SummaryVersion(r, j))
    BY <1>7 DEF SummaryVersion, NoVersion
  <2> QED
    BY <1>5, <1>7, <2>3, <2>5, <2>6 DEF Calm
<1>11. quiet' => r.calm
  BY <1>1, <1>5, <1>6 DEF IInv
<1>12. \A i \in Jobs : Busy(i) => i = j
  BY <1>6, BusyAlone
<1> QED
  BY <1>3, <1>5, <1>6, <1>9, <1>10, <1>11, <1>12, GraphStep

\* What a graph still needs once its repairs are done stays true while nothing is written.
LEMMA AfterRepairs ==
  ASSUME NEW j \in Jobs, Row(run[j]), Calm(j), run[j].pc \in {"research", "derive"}, NEW r, Row(r),
         r.pc \in {"derive", "summary"}, r.rebuilt = run[j].rebuilt, r.repaired = run[j].repaired,
         r.audited = run[j].audited, r.quality = run[j].quality, run'[j] = r,
         UNCHANGED <<sources, newer, broken, version, quiet>>
  PROVE  Calm(j)'
<1>1. SummaryVersion(r, j) = SummaryVersion(run[j], j)
  BY DEF SummaryVersion
<1>2. SummaryVersion(run[j], j)' = SummaryVersion(r, j)
  BY DEF SummaryVersion
<1>3. Seen /\ run[j].quality \in {"clean", "issues"} /\ (version = NoVersion \/ version.by = SummaryVersion(run[j], j))
  BY DEF Calm
<1>4. Seen'
  BY <1>3 DEF Seen, NoVersion
<1>5. version' = NoVersion \/ version'.by = SummaryVersion(run[j], j)'
  BY <1>1, <1>2, <1>3 DEF NoVersion
<1> QED
  BY <1>3, <1>4, <1>5 DEF Calm

LEMMA ResearchKeeps == ASSUME IInv, NEW j \in Jobs, ResearchKnowledgeGaps(j) PROVE IInv'
<1> DEFINE pc == IF ~run[j].rebuilt /\ run[j].missing THEN "derive" ELSE "summary"
           r == [run[j] EXCEPT !.pc = pc]
<1>1. run[j].pc = "research" /\ UNCHANGED <<sources, newer, broken, version, quiet>>
  BY DEF ResearchKnowledgeGaps
<1>2. run' = [run EXCEPT ![j] = r]
  BY DEF ResearchKnowledgeGaps, IInv, Rows
<1>3. Row(run[j])
  BY DEF IInv, Rows
<1>4. /\ Row(r) /\ r.pc \in {"derive", "summary"} /\ r.calm = run[j].calm /\ r.rebuilt = run[j].rebuilt
      /\ r.repaired = run[j].repaired /\ r.audited = run[j].audited /\ r.quality = run[j].quality
  BY <1>3 DEF Row
<1> HIDE DEF r
<1>5. Busy(j) /\ IsV3(j)
  BY <1>1 DEF Busy, IInv, KeepsPath
<1>6. run'[j] = r
  BY <1>2 DEF IInv, Rows
<1>7. r.calm => Calm(j)
  BY <1>4, <1>5 DEF IInv
<1>8. r.calm => Calm(j)'
  BY <1>1, <1>3, <1>4, <1>6, <1>7, AfterRepairs
<1> QED
  BY <1>1, <1>2, <1>4, <1>5, <1>8, ReadingStep

LEMMA RepairDerivativesKeeps == ASSUME IInv, NEW j \in Jobs, RepairDerivatives(j) PROVE IInv'
<1> DEFINE pc == IF IsV3(j) THEN "summary" ELSE "finalize"
           r == [run[j] EXCEPT !.pc = pc]
<1>1. run[j].pc = "derive" /\ UNCHANGED <<sources, newer, broken, version, quiet>>
  BY DEF RepairDerivatives
<1>2. run' = [run EXCEPT ![j] = r]
  BY DEF RepairDerivatives, IsV3, IInv, Rows
<1>3. Row(run[j])
  BY DEF IInv, Rows
<1>4. /\ Row(r) /\ r.pc = pc /\ r.calm = run[j].calm /\ r.rebuilt = run[j].rebuilt
      /\ r.repaired = run[j].repaired /\ r.audited = run[j].audited /\ r.quality = run[j].quality
  BY <1>3 DEF Row
<1> HIDE DEF r
<1>5. Busy(j)
  BY <1>1 DEF Busy
<1>6. run'[j] = r
  BY <1>2 DEF IInv, Rows
<1>7. CASE IsV3(j)
  <2>1. r.calm => Calm(j)
    BY <1>4, <1>7 DEF IInv
  <2>2. r.calm => Calm(j)'
    BY <1>1, <1>3, <1>4, <1>6, <1>7, <2>1, AfterRepairs
  <2> QED
    BY <1>1, <1>2, <1>4, <1>5, <1>7, <2>2, ReadingStep
<1>8. CASE ~IsV3(j)
  <2>1. version' \in [by : {version'.by}, metrics : Metrics]
    BY <1>1 DEF IInv, Rows
  <2>2. quiet' => r.calm
    BY <1>1, <1>4, <1>5 DEF IInv
  <2>3. \A i \in Jobs : Busy(i) => i = j
    BY <1>5, BusyAlone
  <2> QED
    BY <1>2, <1>4, <1>8, <2>1, <2>2, <2>3, GraphStep
<1> QED
  BY <1>7, <1>8

\* The summary gives the version it names a quality, so a calm graph ends settled.
LEMMA PersistSummaryKeeps ==
  ASSUME IInv, NEW j \in Jobs, None \notin Jobs, PersistSummary(j) PROVE IInv'
<1> DEFINE r == [run[j] EXCEPT !.pc = "finalize"]
<1>1. run[j].pc = "summary" /\ sources' = sources /\ newer' = newer /\ quiet' = quiet
  BY DEF PersistSummary
<1>2. run' = [run EXCEPT ![j] = r]
  BY DEF PersistSummary, IInv, Rows
<1>3. Row(run[j])
  BY DEF IInv, Rows
<1>4. Row(r) /\ r.pc = "finalize" /\ r.calm = run[j].calm
  BY <1>3 DEF Row
<1> HIDE DEF r
<1>5. Busy(j) /\ IsV3(j)
  BY <1>1 DEF Busy, IInv, KeepsPath
<1>6. run'[j] = r
  BY <1>2 DEF IInv, Rows
<1>7. version \in [by : {version.by}, metrics : Metrics] /\ run[j].quality \in Metrics
  BY <1>3 DEF IInv, Rows, Row
<1> DEFINE v == [version EXCEPT !.metrics = run[j].quality]
<1>8. v \in [by : {version.by}, metrics : Metrics] /\ v.by = version.by /\ v.metrics = run[j].quality
  BY <1>7
<1>9. version' = IF version # NoVersion /\ SummaryVersion(run[j], j) = version.by THEN v ELSE version
  BY DEF PersistSummary
<1> HIDE DEF v
<1>10. version' \in [by : {version'.by}, metrics : Metrics]
  BY <1>7, <1>8, <1>9
<1>11. ASSUME r.calm PROVE Calm(j)'
  <2>1. Calm(j)
    BY <1>4, <1>5, <1>11 DEF IInv
  <2>2. Seen /\ run[j].quality \in {"clean", "issues"} /\ (version = NoVersion \/ version.by = SummaryVersion(run[j], j))
    BY <2>1, <1>1 DEF Calm
  <2>3. Settled'
    <3>1. CASE sources = {}
      BY <3>1, <1>1 DEF Settled
    <3>2. CASE sources # {}
      <4>1. version # NoVersion /\ ~newer
        BY <2>2, <3>2 DEF Seen
      <4>2. version' = v /\ v.metrics # "none"
        BY <4>1, <2>2, <1>8, <1>9
      <4> QED
        BY <4>1, <4>2, <1>1 DEF Settled, NoVersion
    <3> QED
      BY <3>1, <3>2
  <2> QED
    BY <1>4, <1>6, <2>3 DEF Calm
<1>12. quiet' => r.calm
  BY <1>1, <1>4, <1>5 DEF IInv
<1>13. \A i \in Jobs : Busy(i) => i = j
  BY <1>5, BusyAlone
<1> QED
  BY <1>2, <1>4, <1>5, <1>10, <1>11, <1>12, <1>13, GraphStep

LEMMA FinalizeKeeps == ASSUME IInv, NEW j \in Jobs, Finalize(j) PROVE IInv'
<1> DEFINE r == [Idle EXCEPT !.pc = "done"]
<1>1. run[j].pc = "finalize" /\ sources' = sources /\ newer' = newer /\ version' = version
  BY DEF Finalize
<1>2. run' = [run EXCEPT ![j] = r] /\ quiet' = (IsV3(j) /\ run[j].calm)
  BY DEF Finalize, IsV3
<1>3. Row(r) /\ r.pc = "done"
  BY DEF Idle, Row, Metrics
<1> HIDE DEF r
<1>4. run'[j] = r
  BY <1>2 DEF IInv, Rows
<1>5. Calm(j)'
  BY <1>3, <1>4 DEF Calm
<1>6. ASSUME quiet' PROVE Settled'
  <2>1. Calm(j)
    BY <1>2, <1>6 DEF IInv
  <2>2. Settled
    BY <2>1, <1>1 DEF Calm
  <2> QED
    BY <2>2, <1>1 DEF Settled, NoVersion
<1>7. version' \in [by : {version'.by}, metrics : Metrics]
  BY <1>1 DEF IInv, Rows
<1>8. \A i \in Jobs : Busy(i) => i = j
  BY <1>1, BusyAlone DEF Busy
<1> QED
  BY <1>2, <1>3, <1>5, <1>6, <1>7, <1>8, GraphStep

LEMMA CrashKeeps == ASSUME IInv, NEW j \in Jobs, Crash(j) PROVE IInv'
<1>1. /\ run' = [run EXCEPT ![j] = Idle] /\ quiet' = FALSE
      /\ UNCHANGED <<sources, newer, broken, version>>
  BY DEF Crash
<1>2. run'[j] = Idle /\ (\A i \in Jobs : i # j => run'[i] = run[i]) /\ run' = [i \in Jobs |-> run'[i]]
  BY <1>1 DEF IInv, Rows
<1>3. Rows'
  BY <1>1, <1>2, IdleRow DEF IInv, Rows
<1>4. OneGraph'
  BY <1>2, IdleRow DEF IInv, OneGraph, Busy
<1>5. KeepsPath'
  BY <1>2, IdleRow DEF IInv, KeepsPath, IsV3
<1>6. ASSUME NEW i \in Jobs, IsV3(i), run'[i].calm PROVE Calm(i)'
  <2>1. CASE i = j
    BY <1>2, <2>1, IdleRow DEF Calm
  <2>2. CASE i # j
    <3>1. run'[i] = run[i] /\ Calm(i)
      BY <1>2, <1>6, <2>2 DEF IInv
    <3> QED
      BY <3>1, <1>1 DEF Calm, Seen, Settled, NoVersion, SummaryVersion
  <2> QED
    BY <2>1, <2>2
<1>7. \A i \in Jobs : IsV3(i)' <=> IsV3(i)
  BY DEF IsV3
<1> QED
  BY <1>1, <1>3, <1>4, <1>5, <1>6, <1>7 DEF IInv

-----------------------------------------------------------------------------
(* What happens beside the maintenance.                                    *)

\* A write of somebody else: no graph is calm after it.
LEMMA OtherKeeps ==
  ASSUME IInv, Other, version' \in [by : {version'.by}, metrics : Metrics] PROVE IInv'
<1> DEFINE r(j) == [run[j] EXCEPT !.calm = FALSE]
<1>1. quiet' = FALSE /\ run' = [j \in Jobs |-> r(j)]
  BY DEF Other
<1>2. ASSUME NEW j \in Jobs PROVE Row(r(j)) /\ r(j).pc = run[j].pc /\ r(j).calm = FALSE
  <2>1. Row(run[j])
    BY DEF IInv, Rows
  <2> QED
    BY <2>1 DEF Row
<1> HIDE DEF r
<1>3. \A j \in Jobs : run'[j] = r(j) /\ run'[j].pc = run[j].pc /\ ~run'[j].calm
  BY <1>1, <1>2
<1>4. Rows'
  BY <1>1, <1>2, <1>3 DEF Rows
<1>5. OneGraph' /\ KeepsPath'
  BY <1>3 DEF IInv, OneGraph, KeepsPath, Busy, IsV3
<1> QED
  BY <1>1, <1>3, <1>4, <1>5 DEF IInv

LEMMA StoreKeeps == ASSUME IInv, NEW s \in Sources, Store(s) PROVE IInv'
<1>1. Other /\ version' = [by |-> "build", metrics |-> "none"]
  BY DEF Store
<1>2. version' \in [by : {version'.by}, metrics : Metrics]
  BY <1>1 DEF Metrics
<1> QED
  BY <1>1, <1>2, OtherKeeps

LEMMA UnbuiltKeeps == ASSUME IInv, Other, version' = version PROVE IInv'
BY OtherKeeps DEF IInv, Rows

LEMMA StutterKeeps ==
  ASSUME IInv, UNCHANGED <<run, sources, newer, broken, version, quiet>> PROVE IInv'
<1>1. Rows' /\ OneGraph' /\ KeepsPath'
  BY DEF IInv, Rows, OneGraph, KeepsPath, Busy, IsV3
<1>2. ASSUME NEW j \in Jobs PROVE Calm(j)' <=> Calm(j)
  BY DEF Calm, Seen, Settled, NoVersion, SummaryVersion
<1>3. Settled' <=> Settled
  BY DEF Settled, NoVersion
<1>4. \A j \in Jobs : (IsV3(j)' <=> IsV3(j)) /\ (Busy(j)' <=> Busy(j)) /\ run'[j].calm = run[j].calm
  BY DEF IsV3, Busy
<1>5. quiet' = quiet
  OBVIOUS
<1> QED
  BY <1>1, <1>2, <1>3, <1>4, <1>5 DEF IInv

LEMMA NextKeeps == ASSUME IInv, None \notin Jobs, [Next]_vars PROVE IInv'
<1>1. ASSUME NEW j \in Jobs,
             \/ Start(j) \/ Rebuild(j) \/ LoadSnapshot(j) \/ SemanticLint(j)
             \/ ApplyInternalRepairs(j) \/ ResearchKnowledgeGaps(j)
             \/ RepairDerivatives(j) \/ PersistSummary(j) \/ Finalize(j) \/ Crash(j)
      PROVE  IInv'
  BY <1>1, StartKeeps, RebuildKeeps, LoadSnapshotKeeps, SemanticLintKeeps, ApplyInternalRepairsKeeps,
     ResearchKeeps, RepairDerivativesKeeps, PersistSummaryKeeps, FinalizeKeeps, CrashKeeps
<1>2. ASSUME NEW s \in Sources, AddSource(s) \/ RemoveSource(s) PROVE IInv'
  BY <1>2, UnbuiltKeeps DEF AddSource, RemoveSource
<1>3. ASSUME NEW s \in Sources, Build(s) \/ Submit(s) PROVE IInv'
  BY <1>3, StoreKeeps DEF Build, Submit
<1>4. ASSUME NEW p \in Pages, Delete(p) PROVE IInv'
  BY <1>4, UnbuiltKeeps DEF Delete
<1>5. CASE NextDay
  BY <1>5, StutterKeeps DEF NextDay
<1>6. CASE UNCHANGED vars
  BY <1>6, StutterKeeps DEF vars
<1> QED
  BY <1>1, <1>2, <1>3, <1>4, <1>5, <1>6 DEF Next

-----------------------------------------------------------------------------
(* A quiet wiki is left alone.                                             *)

\* The weekly audit of a V3 job orders no rebuild of a settled wiki.
LEMMA SettledIsKept ==
  ASSUME Settled, sources # {}, NEW j \in Jobs, IsV3(j), JobOf[j].trigger = "weekly"
  PROVE  AuditedPc(j) # "rebuild"
<1>1. ~NeedsRebuild(j)
  BY DEF NeedsRebuild, Settled, IsV3
<1> QED
  BY <1>1 DEF AuditedPc, IsV3

GraphSteps(j) ==
  \/ Start(j) \/ Rebuild(j) \/ LoadSnapshot(j) \/ SemanticLint(j)
  \/ ApplyInternalRepairs(j) \/ ResearchKnowledgeGaps(j)
  \/ RepairDerivatives(j) \/ PersistSummary(j) \/ Finalize(j) \/ Crash(j)

\* Where a graph is changes by its own steps only.
LEMMA GraphMoves ==
  ASSUME IInv, NEW j \in Jobs, [Next]_vars, run'[j].pc # run[j].pc
  PROVE  GraphSteps(j)
<1>1. ~UNCHANGED run
  OBVIOUS
<1>2. ~Other
  <2>1. ASSUME Other PROVE FALSE
    <3>1. run'[j] = [run[j] EXCEPT !.calm = FALSE]
      BY <2>1 DEF Other
    <3>2. Row(run[j])
      BY DEF IInv, Rows
    <3>3. run'[j].pc = run[j].pc
      BY <3>1, <3>2 DEF Row
    <3> QED
      BY <3>3
  <2> QED
    BY <2>1
<1>3. PICK k \in Jobs : GraphSteps(k)
  BY <1>1, <1>2 DEF Next, GraphSteps, vars, NextDay, AddSource, RemoveSource, Build, Submit, Store, Delete
<1>4. k = j
  <2>1. j \in DOMAIN run
    BY DEF IInv, Rows
  <2>2. ASSUME k # j PROVE run'[j] = run[j]
    <3>1. ASSUME Start(k) \/ Rebuild(k) \/ LoadSnapshot(k) \/ SemanticLint(k) \/ ResearchKnowledgeGaps(k)
          PROVE  run'[j] = run[j]
      BY <2>1, <2>2, <3>1 DEF Start, Rebuild, LoadSnapshot, SemanticLint, ResearchKnowledgeGaps
    <3>2. ASSUME ApplyInternalRepairs(k) PROVE run'[j] = run[j]
      BY <2>1, <2>2, <3>2 DEF ApplyInternalRepairs
    <3>3. ASSUME RepairDerivatives(k) \/ PersistSummary(k) \/ Finalize(k) \/ Crash(k)
          PROVE  run'[j] = run[j]
      BY <2>1, <2>2, <3>3 DEF RepairDerivatives, PersistSummary, Finalize, Crash
    <3> QED
      BY <1>3, <3>1, <3>2, <3>3 DEF GraphSteps
  <2> QED
    BY <2>2
<1> QED
  BY <1>3, <1>4

\* A job leaves idle in one way: it starts.
LEMMA IdleStarts ==
  ASSUME IInv, NEW j \in Jobs, run[j].pc = "idle", [Next]_vars, run'[j].pc # "idle"
  PROVE  Start(j)
BY GraphMoves DEF GraphSteps, Rebuild, LoadSnapshot, SemanticLint, ApplyInternalRepairs,
   ResearchKnowledgeGaps, RepairDerivatives, PersistSummary, Finalize, Crash

LEMMA QuietStep == ASSUME IInv, [Next]_vars PROVE LeavesQuietWiki
<1> SUFFICES ASSUME NEW j \in Jobs, quiet, sources # {}, IsV3(j), JobOf[j].trigger = "weekly", run[j].pc = "idle"
             PROVE  run'[j].pc # "rebuild"
  BY DEF LeavesQuietWiki, IsV3
<1>1. CASE run'[j].pc = "idle"
  BY <1>1
<1>2. CASE run'[j].pc # "idle"
  <2>1. Start(j)
    BY <1>2, IdleStarts
  <2>2. \A i \in Jobs : ~Busy(i)
    BY <2>1 DEF Start, Held, Busy
  <2>3. Settled
    BY <2>2 DEF IInv
  <2>4. AuditedPc(j) # "rebuild"
    BY <2>3, SettledIsKept
  <2>5. run'[j] = [Idle EXCEPT !.pc = AuditedPc(j), !.audited = version, !.missing = lacking]
    BY <2>1 DEF Start, IInv, Rows
  <2>6. run'[j].pc = AuditedPc(j)
    BY <2>5 DEF Idle
  <2> QED
    BY <2>4, <2>6
<1> QED
  BY <1>1, <1>2

\* Whatever the graphs and the writes beside them do: one graph at a time has the lock, and
\* a calm V3 graph knows the version it audited, made or repaired (maintenance_v3.py).
THEOREM MaintenanceInvariant ==
  ASSUME None \notin Jobs PROVE Spec => []IInv
<1>1. Init => IInv
  BY InitInv
<1>2. IInv /\ [Next]_vars => IInv'
  BY NextKeeps
<1> QED
  BY <1>1, <1>2, PTL DEF Spec

\* For any number of jobs, pages, sources, issues and writes: once a V3 run has ended and
\* nobody else wrote, a weekly V3 run does not rebuild the wiki (maintenance_v3.py:126-168).
THEOREM QuietWikiIsKept ==
  ASSUME None \notin Jobs PROVE Spec => QuietWikiIsLeftAlone
<1>1. IInv /\ [Next]_vars => [LeavesQuietWiki]_vars
  BY QuietStep
<1> QED
  BY <1>1, MaintenanceInvariant, PTL DEF Spec, QuietWikiIsLeftAlone

-----------------------------------------------------------------------------
(* What a fold over the batches keeps: induction along their order.        *)

LEMMA Least == ASSUME NEW T \in SUBSET Nat, T # {} PROVE \E x \in T : \A y \in T : x <= y
<1>1. \E x \in T : \A y \in T : ~ (<<y, x>> \in OpToRel(<, Nat))
  BY NatLessThanWellFounded, WFMin
<1>2. PICK x \in T : \A y \in T : ~ (<<y, x>> \in OpToRel(<, Nat))
  BY <1>1
<1>3. ASSUME NEW y \in T PROVE x <= y
  <2>1. x \in Nat /\ y \in Nat
    OBVIOUS
  <2>2. ~ (y < x)
    BY <1>2, <2>1 DEF OpToRel
  <2> QED
    BY <2>1, <2>2
<1> QED
  BY <1>3

IsFold(f, V, R, order, base, last) ==
  f = [n \in 0 .. last |-> IF n = 0 THEN base ELSE ApplyBatch(V, R, f[n - 1], order[n])]

\* The function that Applied recurs on exists: one for n batches extends to n + 1.
LEMMA FoldExists ==
  ASSUME NEW V, NEW R, NEW order, NEW base, NEW last \in Nat
  PROVE  \E f : IsFold(f, V, R, order, base, last)
<1> DEFINE Is(f, m) == IsFold(f, V, R, order, base, m)
           T == {m \in Nat : \A f : ~Is(f, m)}
<1>1. SUFFICES ASSUME T # {} PROVE FALSE
  OBVIOUS
<1>2. PICK m \in T : \A y \in T : m <= y
  BY <1>1, Least
<1>3. m # 0
  <2>1. Is([n \in 0 .. 0 |-> base], 0)
    BY DEF IsFold
  <2> QED
    BY <1>2, <2>1
<1>4. m \in Nat /\ m - 1 \in Nat /\ ~(m <= m - 1)
  BY <1>2, <1>3
<1>5. m - 1 \notin T
  BY <1>2, <1>4
<1>6. PICK f : Is(f, m - 1)
  BY <1>4, <1>5
<1> DEFINE g == [n \in 0 .. m |-> IF n = m THEN ApplyBatch(V, R, f[m - 1], order[m]) ELSE f[n]]
<1>7. Is(g, m)
  <2>1. \A n \in 0 .. m - 1 : g[n] = f[n]
    BY <1>4
  <2>2. \A n \in 0 .. m - 1 : f[n] = IF n = 0 THEN base ELSE ApplyBatch(V, R, f[n - 1], order[n])
    BY <1>6 DEF IsFold
  <2>3. ASSUME NEW n \in 0 .. m
        PROVE  g[n] = IF n = 0 THEN base ELSE ApplyBatch(V, R, g[n - 1], order[n])
    <3>1. CASE n = m
      BY <1>3, <1>4, <2>1, <3>1
    <3>2. CASE n # m
      <4>1. n \in 0 .. m - 1 /\ (n # 0 => n - 1 \in 0 .. m - 1)
        BY <1>4, <3>2
      <4>2. g[n] = f[n] /\ (n # 0 => g[n - 1] = f[n - 1])
        BY <2>1, <4>1
      <4> QED
        BY <2>2, <4>1, <4>2
    <3> QED
      BY <3>1, <3>2
  <2> HIDE DEF g
  <2>4. g = [n \in 0 .. m |-> g[n]]
    BY DEF g
  <2> QED
    BY <2>3, <2>4 DEF IsFold
<1> QED
  BY <1>2, <1>7

TypedPages(P) ==
  /\ DOMAIN P \subseteq Pages
  /\ \A p \in DOMAIN P : P[p].sources \in (SUBSET Sources) \ {{}} /\ P[p].records \subseteq DOMAIN Issues
TypedLinks(L) == L \subseteq (SUBSET Pages) \X Sources
Grows(P, Q) ==
  \A p \in DOMAIN P : p \in DOMAIN Q /\ P[p].sources \subseteq Q[p].sources /\ P[p].records \subseteq Q[p].records

\* What the batches applied so far have made of the wiki that V shows.
Grown(acc, V) ==
  /\ TypedPages(acc.staged) /\ TypedPages(acc.pages) /\ TypedLinks(acc.links) /\ links \subseteq acc.links
  /\ V.pages = pages => Grows(pages, acc.pages) /\ Grows(pages, acc.staged)

\* Where there is an issue to repair there is a last one, and its evidence is a source.
LEMMA EvidenceIsSource ==
  ASSUME ConstantsAreSound, NEW R, R \subseteq DOMAIN Issues, Internal(R) # {}, NEW s
  PROVE  StoredUnder(R, s) \in Sources
<1>1. Internal(R) \subseteq 1 .. Len(Issues) /\ Len(Issues) \in Nat
  BY DEF Internal, ConstantsAreSound
<1> DEFINE T == {Len(Issues) - i : i \in Internal(R)}
<1>2. T \in SUBSET Nat /\ T # {}
  BY <1>1
<1>3. PICK x \in T : \A y \in T : x <= y
  BY <1>2, Least
<1>4. PICK i \in Internal(R) : x = Len(Issues) - i
  BY <1>3
<1>5. \A k \in Internal(R) : i >= k
  <2> TAKE k \in Internal(R)
  <2>1. Len(Issues) - i <= Len(Issues) - k
    BY <1>3, <1>4
  <2> QED
    BY <1>1, <2>1
<1>6. Max(Internal(R)) \in Internal(R)
  BY <1>5 DEF Max
<1>7. \A k \in Internal(R) : Issues[k].cites \in Seq(Sources) /\ Issues[k].cites # <<>>
  BY DEF Internal, ConstantsAreSound
<1> QED
  BY <1>6, <1>7 DEF StoredUnder, Evidence

LEMMA BatchesNeedIssues ==
  ASSUME NEW V, NEW R
  PROVE  /\ Planned(V, R) \subseteq Internal(R) /\ Internal(R) \subseteq R
         /\ Batches(V, R) # {} => Internal(R) # {}
BY DEF Planned, Internal, Batches

\* The page a batch plans: it has the source, and what the snapshot recorded.
LEMMA StagedPageIs ==
  ASSUME NEW V, NEW staged, NEW B, NEW s \in Sources, NEW p,
         TypedPages(V.pages), TypedPages(staged), B \subseteq DOMAIN Issues,
         NEW page, page = StagedPage(V, staged, B, s, p)
  PROVE  /\ page.sources \in (SUBSET Sources) \ {{}} /\ page.records \subseteq DOMAIN Issues
         /\ p \in DOMAIN staged => staged[p].sources \subseteq page.sources
         /\ p \in DOMAIN staged /\ p \in DOMAIN V.pages => V.pages[p].records \subseteq page.records
<1>1. CASE p \notin DOMAIN staged
  BY <1>1 DEF StagedPage
<1>2. CASE p \in DOMAIN staged
  <2>1. staged[p].sources \subseteq Sources
    BY <1>2 DEF TypedPages
  <2>2. Marks(V, B, p) \subseteq DOMAIN Issues
    BY DEF Marks
  <2>3. p \in DOMAIN V.pages => V.pages[p].records \subseteq DOMAIN Issues
    BY DEF TypedPages
  <2> QED
    BY <1>2, <2>1, <2>2, <2>3 DEF StagedPage
<1> QED
  BY <1>1, <1>2

LEMMA UpsertedIs ==
  ASSUME NEW P, NEW N
  PROVE  LET all == Upserted(P, N)
         IN  /\ DOMAIN all = DOMAIN P \cup DOMAIN N
             /\ \A p \in DOMAIN all : (p \in DOMAIN N /\ all[p] = N[p]) \/ (p \in DOMAIN P /\ all[p] = P[p])
BY DEF Upserted

LEMMA EntriesAre ==
  ASSUME NEW P, NEW N
  PROVE  LET st == Entries(P, N)
         IN  /\ DOMAIN st = DOMAIN P \cup DOMAIN N
             /\ \A p \in DOMAIN st : IF p \in DOMAIN N THEN st[p] = N[p] ELSE st[p] = P[p]
BY DEF Entries

LEMMA BatchGrows ==
  ASSUME ConstantsAreSound, NEW V, NEW R, NEW acc, NEW s, TypedPages(V.pages),
         R \subseteq DOMAIN Issues, Internal(R) # {}, Grown(acc, V)
  PROVE  Grown(ApplyBatch(V, R, acc, s), V)
<1> DEFINE B == {i \in Planned(V, R) : Evidence(i) = s}
           under == StoredUnder(R, s)
           new == [p \in Touched(V, B) |-> StagedPage(V, acc.staged, B, under, p)]
           db == Upserted(acc.pages, new)
           more == {<<P, under>> : P \in {Q \in Pairs(B) : Q \subseteq DOMAIN db}}
           next == ApplyBatch(V, R, acc, s)
<1>1. next.staged = Entries(acc.staged, new) /\ next.pages = db /\ next.links = acc.links \cup more
  BY DEF ApplyBatch
<1>2. under \in Sources /\ B \subseteq DOMAIN Issues
  BY EvidenceIsSource, BatchesNeedIssues
<1>3. /\ TypedPages(acc.staged) /\ TypedPages(acc.pages) /\ TypedLinks(acc.links) /\ links \subseteq acc.links
      /\ V.pages = pages => Grows(pages, acc.pages) /\ Grows(pages, acc.staged)
  BY DEF Grown
<1> HIDE DEF under, B, next
<1>4. Touched(V, B) \subseteq Pages
  BY <1>2 DEF Touched, Topics, TypedPages, ConstantsAreSound
<1>5. ASSUME NEW p \in Touched(V, B)
      PROVE  /\ new[p].sources \in (SUBSET Sources) \ {{}} /\ new[p].records \subseteq DOMAIN Issues
             /\ p \in DOMAIN acc.staged => acc.staged[p].sources \subseteq new[p].sources
             /\ p \in DOMAIN acc.staged /\ p \in DOMAIN V.pages => V.pages[p].records \subseteq new[p].records
  <2>1. new[p] = StagedPage(V, acc.staged, B, under, p)
    OBVIOUS
  <2> HIDE DEF new
  <2> QED
    BY <1>2, <1>3, <2>1, StagedPageIs
<1>6. DOMAIN new = Touched(V, B)
  OBVIOUS
<1> HIDE DEF new
<1>7. /\ DOMAIN db = DOMAIN acc.pages \cup Touched(V, B)
      /\ \A p \in DOMAIN db : (p \in Touched(V, B) /\ db[p] = new[p]) \/ (p \in DOMAIN acc.pages /\ db[p] = acc.pages[p])
  <2>1. /\ DOMAIN db = DOMAIN acc.pages \cup DOMAIN new
        /\ \A p \in DOMAIN db : (p \in DOMAIN new /\ db[p] = new[p]) \/ (p \in DOMAIN acc.pages /\ db[p] = acc.pages[p])
    BY UpsertedIs
  <2> QED
    BY <1>6, <2>1
<1>8. TypedPages(db)
  BY <1>3, <1>4, <1>5, <1>7 DEF TypedPages
<1>9. LET st == Entries(acc.staged, new)
      IN  /\ DOMAIN st = DOMAIN acc.staged \cup Touched(V, B)
          /\ \A p \in DOMAIN st : IF p \in Touched(V, B) THEN st[p] = new[p] ELSE st[p] = acc.staged[p]
  BY <1>6, EntriesAre
<1> DEFINE st == Entries(acc.staged, new)
<1> HIDE DEF st, db
<1>10. TypedPages(st)
  BY <1>3, <1>4, <1>5, <1>9 DEF TypedPages, st
<1>11. TypedLinks(acc.links \cup more)
  <2>1. \A P \in SUBSET DOMAIN db : <<P, under>> \in (SUBSET Pages) \X Sources
    BY <1>2, <1>8 DEF TypedPages
  <2> QED
    BY <1>3, <2>1 DEF TypedLinks
<1>12. ASSUME V.pages = pages PROVE Grows(pages, db) /\ Grows(pages, st)
  <2>1. ASSUME NEW p \in DOMAIN pages, p \in Touched(V, B)
        PROVE  pages[p].sources \subseteq new[p].sources /\ pages[p].records \subseteq new[p].records
    BY <1>3, <1>5, <1>12, <2>1 DEF Grows
  <2> QED
    BY <1>3, <1>7, <1>9, <1>12, <2>1 DEF Grows, st
<1>13. next.staged = st /\ next.pages = db /\ next.links = acc.links \cup more
  BY <1>1 DEF st
<1> QED
  BY <1>3, <1>8, <1>10, <1>11, <1>12, <1>13 DEF Grown, next

\* All batches together keep what one keeps.
LEMMA AppliedGrows ==
  ASSUME ConstantsAreSound, NEW V, NEW R, TypedPages(V.pages), TypedPages(pages), TypedLinks(links),
         R \subseteq DOMAIN Issues, Batches(V, R) # {}
  PROVE  Grown(Applied(V, R), V)
<1> DEFINE order == SetToSeq(Batches(V, R))
           last == Cardinality(Batches(V, R))
           base == [staged |-> V.pages, pages |-> pages, links |-> links]
           after == CHOOSE f : IsFold(f, V, R, order, base, last)
<1>1. Internal(R) # {}
  BY BatchesNeedIssues
<1>2. last \in Nat
  <2>1. Batches(V, R) \subseteq Sources
    <3>1. \A i \in Planned(V, R) : Issues[i].cites \in Seq(Sources) /\ Issues[i].cites # <<>>
      BY BatchesNeedIssues DEF Internal, ConstantsAreSound
    <3> QED
      BY <3>1 DEF Batches, Evidence
  <2> QED
    BY <2>1, FS_Subset, FS_CardinalityType DEF ConstantsAreSound
<1>3. Applied(V, R) = after[last]
  BY DEF Applied, IsFold
<1> HIDE DEF order, last, base
<1>4. IsFold(after, V, R, order, base, last)
  <2>1. \E f : IsFold(f, V, R, order, base, last)
    BY <1>2, FoldExists
  <2> QED
    BY <2>1
<1> HIDE DEF after
<1>5. \A n \in 0 .. last : after[n] = IF n = 0 THEN base ELSE ApplyBatch(V, R, after[n - 1], order[n])
  BY <1>4 DEF IsFold
<1> DEFINE T == {n \in 0 .. last : ~Grown(after[n], V)}
<1>6. T = {}
  <2>1. SUFFICES ASSUME T # {} PROVE FALSE
    OBVIOUS
  <2>2. T \in SUBSET Nat
    BY <1>2
  <2>3. PICK m \in T : \A y \in T : m <= y
    BY <2>1, <2>2, Least
  <2>4. CASE m = 0
    <3>1. after[m] = base
      BY <1>2, <1>5, <2>4
    <3>2. Grown(base, V)
      BY DEF Grown, Grows, base
    <3> QED
      BY <2>3, <3>1, <3>2
  <2>5. CASE m # 0
    <3>1. m - 1 \in 0 .. last /\ ~(m <= m - 1)
      BY <1>2, <2>3, <2>5
    <3>2. Grown(after[m - 1], V)
      BY <2>3, <3>1
    <3>3. after[m] = ApplyBatch(V, R, after[m - 1], order[m])
      BY <1>5, <2>3, <2>5
    <3>4. Grown(after[m], V)
      BY <1>1, <3>2, <3>3, BatchGrows
    <3> QED
      BY <2>3, <3>4
  <2> QED
    BY <2>4, <2>5
<1> QED
  BY <1>2, <1>3, <1>6

-----------------------------------------------------------------------------
(* Types, and that repairs only add.                                       *)

\* What a graph remembers: known issues, repaired ones among the reported; and when it
\* is about to repair, a snapshot which is the wiki unless somebody else wrote.
Snapshot(j) ==
  LET r == run[j]
  IN  /\ r.report \subseteq DOMAIN Issues /\ r.repaired \subseteq r.report
      /\ r.pc \in {"rebuild", "inspect", "lint"} => r.repaired = {}
      /\ r.pc \in {"lint", "repair"} => TypedPages(r.view.pages) /\ (r.calm => r.view.pages = pages)

Stored ==
  /\ sources \subseteq Sources /\ TypedPages(pages) /\ TypedLinks(links)
  /\ version.by \in Jobs \cup {"build", None}

WikiInv == IInv /\ Stored /\ \A j \in Jobs : Snapshot(j)

LEMMA WikiTypes == WikiInv => TypeOK
<1> SUFFICES ASSUME WikiInv PROVE TypeOK
  OBVIOUS
<1>1. version.metrics \in {"none", "clean", "issues"}
  BY DEF WikiInv, IInv, Rows, Metrics
<1> QED
  BY <1>1 DEF WikiInv, Stored, TypeOK, TypedPages, TypedLinks, Snapshot

\* The step of a graph, where no other graph has the lock.
LEMMA SnapshotStep ==
  ASSUME WikiInv, NEW j \in Jobs, NEW r, run' = [run EXCEPT ![j] = r],
         \A i \in Jobs : Busy(i) => i = j,
         r.report \subseteq DOMAIN Issues, r.repaired \subseteq r.report,
         r.pc \in {"rebuild", "inspect", "lint"} => r.repaired = {},
         r.pc \in {"lint", "repair"} => TypedPages(r.view.pages) /\ (r.calm => r.view.pages = pages')
  PROVE  \A i \in Jobs : Snapshot(i)'
<1>1. run'[j] = r /\ (\A i \in Jobs : i # j => run'[i] = run[i])
  BY DEF WikiInv, IInv, Rows
<1>2. \A i \in Jobs : i # j => run[i].pc \in {"idle", "done", "failed"}
  BY DEF Busy
<1> TAKE i \in Jobs
<1>3. CASE i = j
  BY <1>1, <1>3 DEF Snapshot
<1>4. CASE i # j
  <2>1. Snapshot(i) /\ run'[i] = run[i] /\ run[i].pc \in {"idle", "done", "failed"}
    BY <1>1, <1>2, <1>4 DEF WikiInv
  <2> QED
    BY <2>1 DEF Snapshot
<1> QED
  BY <1>3, <1>4

LEMMA StoredFrame ==
  ASSUME Stored, UNCHANGED <<sources, pages, links>>, version'.by = version.by PROVE Stored'
BY DEF Stored, TypedPages, TypedLinks

LEMMA WikiInit == ASSUME ConstantsAreSound, Init PROVE WikiInv
<1>1. IInv
  BY InitInv
<1>2. \A p \in DOMAIN pages : pages[p].sources \in (SUBSET Sources) \ {{}} /\ pages[p].records = {} /\ p \in Pages
  <2> TAKE p \in DOMAIN pages
  <2>1. p \in UNION {PagesOf[s] : s \in Sources}
    BY DEF Init
  <2>2. PICK s \in Sources : p \in PagesOf[s]
    BY <2>1
  <2>3. pages[p] = [sources |-> {t \in Sources : p \in PagesOf[t]}, records |-> {}, day |-> 0]
    BY <2>1 DEF Init
  <2> QED
    BY <2>2, <2>3 DEF ConstantsAreSound
<1>3. Stored
  <2>1. sources = Sources /\ links = {} /\ version.by = "build"
    BY DEF Init
  <2> QED
    BY <1>2, <2>1 DEF Stored, TypedPages, TypedLinks
<1>4. ASSUME NEW j \in Jobs PROVE Snapshot(j)
  <2>1. run[j] = Idle
    BY DEF Init
  <2> QED
    BY <2>1 DEF Snapshot, Idle
<1> QED
  BY <1>1, <1>3, <1>4 DEF WikiInv

\* What a rebuild writes is made of its sources.
LEMMA FreshIsTyped ==
  ASSUME ConstantsAreSound, sources \subseteq Sources PROVE TypedPages(Fresh(sources))
<1>1. DOMAIN Fresh(sources) = UNION {PagesOf[s] : s \in sources}
  BY DEF Fresh
<1>2. ASSUME NEW p \in DOMAIN Fresh(sources)
      PROVE  /\ p \in Pages /\ Fresh(sources)[p].records = {}
             /\ Fresh(sources)[p].sources \in (SUBSET Sources) \ {{}}
  <2>1. PICK s \in sources : p \in PagesOf[s]
    BY <1>1, <1>2
  <2>2. Fresh(sources)[p] = [sources |-> {t \in sources : p \in PagesOf[t]}, records |-> {}, day |-> today]
    BY <1>1, <1>2 DEF Fresh
  <2> QED
    BY <2>1, <2>2 DEF ConstantsAreSound
<1> QED
  BY <1>2 DEF TypedPages

LEMMA JoinableIsTyped ==
  ASSUME ConstantsAreSound, NEW S, S \subseteq Sources PROVE TypedLinks(Joinable(S))
BY DEF Joinable, TypedLinks, ConstantsAreSound

LEMMA StartTypes == ASSUME WikiInv, NEW j \in Jobs, Start(j) PROVE Stored' /\ \A i \in Jobs : Snapshot(i)'
<1> DEFINE r == [Idle EXCEPT !.pc = AuditedPc(j), !.audited = version, !.missing = lacking]
<1>1. run' = [run EXCEPT ![j] = r] /\ UNCHANGED <<sources, pages, links, version>>
  BY DEF Start
<1>2. r.report = {} /\ r.repaired = {} /\ r.pc = AuditedPc(j)
  BY DEF Idle
<1> HIDE DEF r
<1>3. r.pc \notin {"lint", "repair"}
  BY <1>2 DEF AuditedPc
<1>4. \A i \in Jobs : Busy(i) => i = j
  BY DEF Start, Held, Busy
<1>5. \A i \in Jobs : Snapshot(i)'
  BY <1>1, <1>2, <1>3, <1>4, SnapshotStep
<1> QED
  BY <1>1, <1>5, StoredFrame DEF WikiInv

LEMMA RebuildTypes ==
  ASSUME ConstantsAreSound, WikiInv, NEW j \in Jobs, Rebuild(j)
  PROVE  Stored' /\ \A i \in Jobs : Snapshot(i)'
<1> DEFINE r == [run[j] EXCEPT !.pc = AfterRebuild(j), !.rebuilt = TRUE]
<1>1. /\ run[j].pc = "rebuild" /\ sources' = sources
      /\ pages' = Fresh(sources) /\ links' \in SUBSET Joinable(sources)
      /\ version'.by \in {j, None}
  BY DEF Rebuild, NoVersion
<1>2. run' = [run EXCEPT ![j] = r]
  BY DEF Rebuild, WikiInv, IInv, Rows
<1>3. /\ r.pc \in {"inspect", "finalize"} /\ r.report = run[j].report /\ r.repaired = run[j].repaired
  <2>1. Row(run[j])
    BY DEF WikiInv, IInv, Rows
  <2> QED
    BY <2>1 DEF Row, AfterRebuild
<1> HIDE DEF r
<1>4. \A i \in Jobs : Busy(i) => i = j
  BY <1>1, BusyAlone DEF Busy, WikiInv
<1>5. run[j].report \subseteq DOMAIN Issues /\ run[j].repaired = {}
  BY <1>1 DEF WikiInv, Snapshot
<1>6. \A i \in Jobs : Snapshot(i)'
  BY <1>2, <1>3, <1>4, <1>5, SnapshotStep
<1>7. sources \subseteq Sources /\ TypedPages(Fresh(sources)) /\ TypedLinks(Joinable(sources))
  BY FreshIsTyped, JoinableIsTyped DEF WikiInv, Stored
<1>8. TypedPages(pages')
  BY <1>1, <1>7
<1>9. Stored'
  BY <1>1, <1>7, <1>8 DEF Stored, TypedPages, TypedLinks
<1> QED
  BY <1>6, <1>9

LEMMA LoadSnapshotTypes ==
  ASSUME WikiInv, NEW j \in Jobs, LoadSnapshot(j) PROVE Stored' /\ \A i \in Jobs : Snapshot(i)'
<1> DEFINE r == [run[j] EXCEPT !.view = [pages |-> pages, links |-> links, sources |-> sources],
                               !.pc = RouteStructural(run[j], broken)]
<1>1. run[j].pc = "inspect" /\ UNCHANGED <<sources, pages, links, version>>
  BY DEF LoadSnapshot
<1>2. run' = [run EXCEPT ![j] = r]
  BY DEF LoadSnapshot, WikiInv, IInv, Rows
<1>3. /\ r.report = run[j].report /\ r.repaired = run[j].repaired /\ r.view.pages = pages
      /\ r.pc = RouteStructural(run[j], broken)
  <2>1. Row(run[j])
    BY DEF WikiInv, IInv, Rows
  <2> QED
    BY <2>1 DEF Row
<1> HIDE DEF r
<1>4. r.pc # "repair"
  BY <1>3 DEF RouteStructural
<1>5. \A i \in Jobs : Busy(i) => i = j
  BY <1>1, BusyAlone DEF Busy, WikiInv
<1>6. run[j].report \subseteq DOMAIN Issues /\ run[j].repaired = {} /\ TypedPages(pages)
  BY <1>1 DEF WikiInv, Snapshot, Stored
<1>7. \A i \in Jobs : Snapshot(i)'
  BY <1>1, <1>2, <1>3, <1>4, <1>5, <1>6, SnapshotStep
<1> QED
  BY <1>1, <1>7, StoredFrame DEF WikiInv

LEMMA SemanticLintTypes ==
  ASSUME ConstantsAreSound, WikiInv, NEW j \in Jobs, SemanticLint(j)
  PROVE  Stored' /\ \A i \in Jobs : Snapshot(i)'
<1>1. PICK R \in Reports :
        run' = [run EXCEPT ![j].report = {i \in R : IsValid(run[j].view, i)}, ![j].pc = "repair"]
  BY DEF SemanticLint
<1> DEFINE r == [run[j] EXCEPT !.report = {i \in R : IsValid(run[j].view, i)}, !.pc = "repair"]
<1>2. run[j].pc = "lint" /\ UNCHANGED <<sources, pages, links, version>>
  BY DEF SemanticLint
<1>3. run' = [run EXCEPT ![j] = r]
  BY <1>1 DEF WikiInv, IInv, Rows
<1>4. /\ r.report \subseteq R /\ r.repaired = run[j].repaired /\ r.view = run[j].view
      /\ r.pc = "repair" /\ r.calm = run[j].calm
  <2>1. Row(run[j])
    BY DEF WikiInv, IInv, Rows
  <2> QED
    BY <2>1 DEF Row
<1> HIDE DEF r
<1>5. \A i \in Jobs : Busy(i) => i = j
  BY <1>2, BusyAlone DEF Busy, WikiInv
<1>6. /\ run[j].repaired = {} /\ R \subseteq DOMAIN Issues
      /\ TypedPages(run[j].view.pages) /\ (run[j].calm => run[j].view.pages = pages)
  BY <1>2 DEF WikiInv, Snapshot, ConstantsAreSound
<1>7. \A i \in Jobs : Snapshot(i)'
  BY <1>2, <1>3, <1>4, <1>5, <1>6, SnapshotStep
<1> QED
  BY <1>2, <1>7, StoredFrame DEF WikiInv

\* What the repairs store.
LEMMA RepairsAre ==
  ASSUME ConstantsAreSound, WikiInv, NEW j \in Jobs, ApplyInternalRepairs(j)
  PROVE  /\ TypedPages(pages') /\ TypedLinks(links') /\ links \subseteq links'
         /\ run[j].calm => Grows(pages, pages')
<1> DEFINE V == run[j].view
           R == run[j].report
           done == Applied(V, R)
<1>1. run[j].pc = "repair"
  BY DEF ApplyInternalRepairs
<1>2. R \subseteq DOMAIN Issues /\ TypedPages(V.pages) /\ (run[j].calm => V.pages = pages)
  BY <1>1 DEF WikiInv, Snapshot
<1>3. TypedPages(pages) /\ TypedLinks(links)
  BY DEF WikiInv, Stored
<1>4. \/ Batches(V, R) = {} /\ pages' = pages /\ links' = links
      \/ Batches(V, R) # {} /\ pages' = done.pages /\ links' = done.links
  BY DEF ApplyInternalRepairs
<1> HIDE DEF V, R, done
<1>5. CASE Batches(V, R) = {}
  BY <1>3, <1>4, <1>5 DEF Grows
<1>6. CASE Batches(V, R) # {}
  <2>1. Grown(done, V)
    BY <1>2, <1>3, <1>6, AppliedGrows DEF done
  <2> QED
    BY <1>2, <1>4, <1>6, <2>1 DEF Grown
<1> QED
  BY <1>5, <1>6

LEMMA ApplyInternalRepairsTypes ==
  ASSUME ConstantsAreSound, WikiInv, NEW j \in Jobs, ApplyInternalRepairs(j)
  PROVE  Stored' /\ \A i \in Jobs : Snapshot(i)'
<1> DEFINE V == run[j].view
           R == run[j].report
<1>0. PICK q \in Qualities(Applied(V, R).staged, V.links \cup Applied(V, R).links) :
        run' = [run EXCEPT ![j].pc = "research", ![j].repaired = Planned(V, R), ![j].quality = q]
  BY DEF ApplyInternalRepairs
<1> DEFINE r == [run[j] EXCEPT !.pc = "research", !.repaired = Planned(V, R), !.quality = q]
<1>1. run[j].pc = "repair" /\ sources' = sources
  BY DEF ApplyInternalRepairs
<1>2. version' = version \/ version' = VersionOf(j)
  BY DEF ApplyInternalRepairs
<1>3. run' = [run EXCEPT ![j] = r]
  BY <1>0 DEF WikiInv, IInv, Rows
<1>4. r.report = R /\ r.repaired = Planned(V, R) /\ r.pc = "research"
  <2>1. Row(run[j])
    BY DEF WikiInv, IInv, Rows
  <2> QED
    BY <2>1 DEF Row
<1>5. R \subseteq DOMAIN Issues
  BY DEF WikiInv, Snapshot
<1> HIDE DEF r, V, R
<1>6. \A i \in Jobs : Busy(i) => i = j
  BY <1>1, BusyAlone DEF Busy, WikiInv
<1>7. Planned(V, R) \subseteq R
  BY BatchesNeedIssues
<1>8. \A i \in Jobs : Snapshot(i)'
  BY <1>3, <1>4, <1>5, <1>6, <1>7, SnapshotStep
<1>9. version'.by \in Jobs \cup {"build", None}
  BY <1>2 DEF VersionOf, WikiInv, Stored
<1>10. TypedPages(pages') /\ TypedLinks(links') /\ sources \subseteq Sources
  BY RepairsAre DEF WikiInv, Stored
<1> QED
  BY <1>1, <1>8, <1>9, <1>10 DEF Stored, TypedPages, TypedLinks

\* A graph past its repairs goes on.
LEMMA MovesOn ==
  ASSUME WikiInv, NEW j \in Jobs, Busy(j), NEW pc \in {"derive", "summary", "finalize"},
         run' = [run EXCEPT ![j].pc = pc], UNCHANGED <<sources, pages, links>>, version'.by = version.by
  PROVE  Stored' /\ \A i \in Jobs : Snapshot(i)'
<1> DEFINE r == [run[j] EXCEPT !.pc = pc]
<1>1. run' = [run EXCEPT ![j] = r]
  BY DEF WikiInv, IInv, Rows
<1>2. r.report = run[j].report /\ r.repaired = run[j].repaired /\ r.pc = pc
  <2>1. Row(run[j])
    BY DEF WikiInv, IInv, Rows
  <2> QED
    BY <2>1 DEF Row
<1> HIDE DEF r
<1>3. \A i \in Jobs : Busy(i) => i = j
  BY BusyAlone DEF WikiInv
<1>4. run[j].report \subseteq DOMAIN Issues /\ run[j].repaired \subseteq run[j].report
  BY DEF WikiInv, Snapshot
<1>5. \A i \in Jobs : Snapshot(i)'
  BY <1>1, <1>2, <1>3, <1>4, SnapshotStep
<1> QED
  BY <1>5, StoredFrame DEF WikiInv

LEMMA LaterStepsTypes ==
  ASSUME WikiInv, NEW j \in Jobs, ResearchKnowledgeGaps(j) \/ RepairDerivatives(j) \/ PersistSummary(j)
  PROVE  Stored' /\ \A i \in Jobs : Snapshot(i)'
<1>1. Busy(j) /\ UNCHANGED <<sources, pages, links>>
  BY DEF Busy, ResearchKnowledgeGaps, RepairDerivatives, PersistSummary
<1>2. version'.by = version.by
  <2>1. version \in [by : {version.by}, metrics : Metrics]
    BY DEF WikiInv, IInv, Rows
  <2>2. CASE PersistSummary(j)
    BY <2>1, <2>2 DEF PersistSummary
  <2>3. CASE ResearchKnowledgeGaps(j) \/ RepairDerivatives(j)
    BY <2>3 DEF ResearchKnowledgeGaps, RepairDerivatives
  <2> QED
    BY <2>2, <2>3
<1>3. \E pc \in {"derive", "summary", "finalize"} : run' = [run EXCEPT ![j].pc = pc]
  <2>1. CASE ResearchKnowledgeGaps(j)
    BY <2>1 DEF ResearchKnowledgeGaps
  <2>2. CASE RepairDerivatives(j)
    BY <2>2 DEF RepairDerivatives
  <2>3. CASE PersistSummary(j)
    BY <2>3 DEF PersistSummary
  <2> QED
    BY <2>1, <2>2, <2>3
<1> QED
  BY <1>1, <1>2, <1>3, MovesOn

LEMMA FinalizeTypes == ASSUME WikiInv, NEW j \in Jobs, Finalize(j) PROVE Stored' /\ \A i \in Jobs : Snapshot(i)'
<1> DEFINE r == [Idle EXCEPT !.pc = "done"]
<1>1. run' = [run EXCEPT ![j] = r] /\ UNCHANGED <<sources, pages, links, version>> /\ Busy(j)
  BY DEF Finalize, Busy
<1>2. r.report = {} /\ r.repaired = {} /\ r.pc = "done"
  BY DEF Idle
<1> HIDE DEF r
<1>3. \A i \in Jobs : Busy(i) => i = j
  BY <1>1, BusyAlone DEF WikiInv
<1>4. \A i \in Jobs : Snapshot(i)'
  BY <1>1, <1>2, <1>3, SnapshotStep
<1> QED
  BY <1>1, <1>4, StoredFrame DEF WikiInv

LEMMA CrashTypes == ASSUME WikiInv, NEW j \in Jobs, Crash(j) PROVE Stored' /\ \A i \in Jobs : Snapshot(i)'
<1>1. run' = [run EXCEPT ![j] = Idle] /\ UNCHANGED <<sources, pages, links, version>>
  BY DEF Crash
<1>2. run'[j] = Idle /\ (\A i \in Jobs : i # j => run'[i] = run[i])
  BY <1>1 DEF WikiInv, IInv, Rows
<1>3. ASSUME NEW i \in Jobs PROVE Snapshot(i)'
  <2>1. CASE i = j
    BY <1>2, <2>1 DEF Snapshot, Idle
  <2>2. CASE i # j
    <3>1. Snapshot(i) /\ run'[i] = run[i]
      BY <1>2, <2>2 DEF WikiInv
    <3> QED
      BY <3>1, <1>1 DEF Snapshot, TypedPages
  <2> QED
    BY <2>1, <2>2
<1> QED
  BY <1>1, <1>3, StoredFrame DEF WikiInv

\* After a write of somebody else no graph relies on its snapshot.
LEMMA OtherTypes == ASSUME WikiInv, Other PROVE \A i \in Jobs : Snapshot(i)'
<1> TAKE i \in Jobs
<1>1. run'[i] = [run[i] EXCEPT !.calm = FALSE]
  BY DEF Other
<1>2. Row(run[i]) /\ Snapshot(i)
  BY DEF WikiInv, IInv, Rows
<1>3. /\ run'[i].pc = run[i].pc /\ run'[i].report = run[i].report /\ run'[i].repaired = run[i].repaired
      /\ run'[i].view = run[i].view /\ run'[i].calm = FALSE
  BY <1>1, <1>2 DEF Row
<1> QED
  BY <1>2, <1>3 DEF Snapshot, TypedPages

LEMMA SourceTypes ==
  ASSUME WikiInv, NEW s \in Sources, AddSource(s) \/ RemoveSource(s)
  PROVE  Stored' /\ \A i \in Jobs : Snapshot(i)'
<1>1. Other /\ sources' \subseteq Sources /\ UNCHANGED <<pages, links, version>>
  BY DEF AddSource, RemoveSource, WikiInv, Stored
<1>2. Stored'
  BY <1>1 DEF WikiInv, Stored, TypedPages, TypedLinks
<1> QED
  BY <1>1, <1>2, OtherTypes

LEMMA UpsertedIsTyped ==
  ASSUME NEW P, NEW N, TypedPages(P), TypedPages(N) PROVE TypedPages(Upserted(P, N))
<1> DEFINE all == Upserted(P, N)
<1>1. /\ DOMAIN all = DOMAIN P \cup DOMAIN N
      /\ \A p \in DOMAIN all : (p \in DOMAIN N /\ all[p] = N[p]) \/ (p \in DOMAIN P /\ all[p] = P[p])
  BY UpsertedIs
<1> HIDE DEF all
<1>2. TypedPages(all)
  BY <1>1 DEF TypedPages
<1> QED
  BY <1>2 DEF all

LEMMA StoreTypes ==
  ASSUME ConstantsAreSound, WikiInv, NEW s \in Sources, Store(s)
  PROVE  Stored' /\ \A i \in Jobs : Snapshot(i)'
<1>1. /\ Other /\ sources' = sources /\ version'.by = "build"
      /\ pages' = Upserted(pages, Written(s)) /\ links' = links \cup Joinable({s})
  BY DEF Store
<1>2. TypedPages(pages) /\ TypedLinks(links) /\ sources \subseteq Sources
  BY DEF WikiInv, Stored
<1>3. TypedPages(Written(s))
  <2>1. DOMAIN Written(s) = PagesOf[s] /\ PagesOf[s] \subseteq Pages
    BY DEF Written, ConstantsAreSound
  <2>2. ASSUME NEW p \in PagesOf[s]
        PROVE  Written(s)[p].sources \in (SUBSET Sources) \ {{}} /\ Written(s)[p].records = {}
    <3>1. /\ Written(s)[p].sources = {s} \cup IF p \in DOMAIN pages THEN pages[p].sources ELSE {}
          /\ Written(s)[p].records = {}
      BY DEF Written
    <3> QED
      BY <1>2, <3>1 DEF TypedPages
  <2> QED
    BY <2>1, <2>2 DEF TypedPages
<1>4. TypedPages(Upserted(pages, Written(s)))
  BY <1>2, <1>3, UpsertedIsTyped
<1>5. TypedPages(pages')
  BY <1>1, <1>4
<1>6. TypedLinks(links')
  BY <1>1, <1>2, JoinableIsTyped DEF TypedLinks
<1>7. Stored'
  BY <1>1, <1>2, <1>5, <1>6 DEF Stored, TypedPages, TypedLinks
<1> QED
  BY <1>1, <1>7, OtherTypes

LEMMA DeleteTypes ==
  ASSUME WikiInv, NEW p \in Pages, Delete(p) PROVE Stored' /\ \A i \in Jobs : Snapshot(i)'
<1>1. /\ Other /\ UNCHANGED <<sources, version>> /\ links' \subseteq links
      /\ pages' = [q \in DOMAIN pages \ {p} |-> pages[q]]
  BY DEF Delete
<1>2. Stored'
  BY <1>1 DEF WikiInv, Stored, TypedPages, TypedLinks
<1> QED
  BY <1>1, <1>2, OtherTypes

LEMMA NoWriteTypes ==
  ASSUME WikiInv, UNCHANGED <<sources, pages, links, version, run>>
  PROVE  Stored' /\ \A i \in Jobs : Snapshot(i)'
<1>1. \A i \in Jobs : Snapshot(i)'
  BY DEF WikiInv, Snapshot, TypedPages
<1> QED
  BY <1>1, StoredFrame DEF WikiInv

LEMMA WikiKeeps == ASSUME ConstantsAreSound, WikiInv, [Next]_vars PROVE WikiInv'
<1>1. IInv'
  BY NextKeeps DEF WikiInv, ConstantsAreSound
<1>2. ASSUME NEW j \in Jobs, GraphSteps(j) PROVE Stored' /\ \A i \in Jobs : Snapshot(i)'
  BY <1>2, StartTypes, RebuildTypes, LoadSnapshotTypes, SemanticLintTypes, ApplyInternalRepairsTypes,
     LaterStepsTypes, FinalizeTypes, CrashTypes DEF GraphSteps
<1>3. ASSUME NEW s \in Sources, AddSource(s) \/ RemoveSource(s) \/ Build(s) \/ Submit(s)
      PROVE  Stored' /\ \A i \in Jobs : Snapshot(i)'
  BY <1>3, SourceTypes, StoreTypes DEF Build, Submit
<1>4. ASSUME NEW p \in Pages, Delete(p) PROVE Stored' /\ \A i \in Jobs : Snapshot(i)'
  BY <1>4, DeleteTypes
<1>5. ASSUME NextDay \/ UNCHANGED vars PROVE Stored' /\ \A i \in Jobs : Snapshot(i)'
  BY <1>5, NoWriteTypes DEF NextDay, vars
<1>6. \/ \E j \in Jobs : GraphSteps(j)
      \/ \E s \in Sources : AddSource(s) \/ RemoveSource(s) \/ Build(s) \/ Submit(s)
      \/ \E p \in Pages : Delete(p)
      \/ NextDay \/ UNCHANGED vars
  BY DEF Next, GraphSteps
<1>7. Stored' /\ \A i \in Jobs : Snapshot(i)'
  BY <1>2, <1>3, <1>4, <1>5, <1>6
<1> QED
  BY <1>1, <1>7 DEF WikiInv

LEMMA RepairsStep == ASSUME ConstantsAreSound, WikiInv, [Next]_vars PROVE OnlyAdds
<1> SUFFICES ASSUME NEW j \in Jobs, Repairs(j), run[j].calm
             PROVE  /\ links \subseteq links'
                    /\ \A p \in DOMAIN pages : /\ p \in DOMAIN pages'
                                                /\ pages[p].sources \subseteq pages'[p].sources
                                                /\ pages[p].records \subseteq pages'[p].records
  BY DEF OnlyAdds
<1>1. GraphSteps(j) /\ run[j].pc = "repair" /\ run'[j].pc = "research"
  BY GraphMoves DEF Repairs, WikiInv
<1>2. ~Crash(j)
  <2>1. Crash(j) => run'[j].pc = "idle"
    BY DEF Crash, WikiInv, IInv, Rows, Idle
  <2> QED
    BY <1>1, <2>1
<1>3. ApplyInternalRepairs(j)
  BY <1>1, <1>2 DEF GraphSteps, Start, Rebuild, LoadSnapshot, SemanticLint,
     ResearchKnowledgeGaps, RepairDerivatives, PersistSummary, Finalize
<1> QED
  BY <1>3, RepairsAre DEF Grows

\* Everything the proofs rest on, for every value of the constants: the graphs' versions and
\* snapshots, and that pages and relations rest on known sources whatever batches did to them.
THEOREM WikiInvariant ==
  ASSUME ConstantsAreSound PROVE Spec => []WikiInv
<1>1. Init => WikiInv
  BY WikiInit
<1>2. WikiInv /\ [Next]_vars => WikiInv'
  BY WikiKeeps
<1> QED
  BY <1>1, <1>2, PTL DEF Spec

\* Pages list and relations rest on known sources, and a graph repairs what was reported to
\* it, however many batches a run applies (semantic_repairs.py:641-700).
THEOREM MaintenanceTypes ==
  ASSUME ConstantsAreSound PROVE Spec => []TypeOK
BY WikiInvariant, WikiTypes, PTL

\* Unless somebody else wrote since the snapshot, repairs take no page, source, record or
\* relation away, however many batches touch a page (semantic_repairs.py:641-700).
THEOREM RepairsAlwaysOnlyAdd ==
  ASSUME ConstantsAreSound PROVE Spec => RepairsOnlyAdd
<1>1. WikiInv /\ [Next]_vars => [OnlyAdds]_vars
  BY RepairsStep
<1> QED
  BY <1>1, WikiInvariant, PTL DEF Spec, RepairsOnlyAdd

-----------------------------------------------------------------------------
(* Identity: the groups are apart, and no two resolved nodes meet.         *)

LEMMA AdjacentEither ==
  ASSUME NEW nodes, NEW view, NEW p, NEW q, Adjacent(nodes, view, p, q) PROVE Adjacent(nodes, view, q, p)
BY DEF Adjacent

\* A component is closed, and that of every reference in it.
LEMMA ComponentIs ==
  ASSUME NEW nodes, NEW view, NEW r \in Refs(nodes, view)
  PROVE  /\ r \in Component(nodes, view, r) /\ Component(nodes, view, r) \subseteq Refs(nodes, view)
         /\ \A p \in Component(nodes, view, r), q \in Refs(nodes, view) :
              Adjacent(nodes, view, p, q) => q \in Component(nodes, view, r)
         /\ \A q \in Component(nodes, view, r) : Component(nodes, view, q) = Component(nodes, view, r)
<1> DEFINE all == Refs(nodes, view)
           Closed(C) == \A p \in C, q \in all \ C : ~Adjacent(nodes, view, p, q)
           Of(x) == Component(nodes, view, x)
<1>1. \A x, q : q \in Of(x) <=> q \in all /\ \A C \in SUBSET all : x \in C /\ Closed(C) => q \in C
  BY DEF Component
<1>2. \A p, q : Adjacent(nodes, view, p, q) => Adjacent(nodes, view, q, p)
  BY AdjacentEither
<1> HIDE DEF all, Of
<1>3. \A x \in all : x \in Of(x) /\ Of(x) \in SUBSET all
  BY <1>1
<1>4. \A x : Closed(Of(x))
  BY <1>1
<1>5. \A x \in all : \A q \in Of(x) : Of(q) \subseteq Of(x)
  BY <1>1, <1>3, <1>4
<1>6. ASSUME NEW x \in all, NEW q \in Of(x) PROVE x \in Of(q)
  <2>1. SUFFICES ASSUME x \notin Of(q) PROVE FALSE
    OBVIOUS
  <2> DEFINE C == Of(x) \ Of(q)
  <2>2. Closed(C)
    <3> SUFFICES ASSUME NEW a \in C, NEW b \in all \ C, Adjacent(nodes, view, a, b) PROVE FALSE
      OBVIOUS
    <3>1. b \in Of(x)
      BY <1>4
    <3>2. b \in Of(q) /\ a \in all /\ a \notin Of(q)
      BY <1>3, <3>1
    <3>3. Adjacent(nodes, view, b, a)
      BY <1>2
    <3> QED
      BY <1>4, <3>2, <3>3
  <2>3. C \in SUBSET all /\ x \in C
    BY <1>3, <2>1
  <2>4. q \in C
    BY <1>1, <2>2, <2>3
  <2>5. q \in Of(q)
    BY <1>3
  <2> QED
    BY <2>4, <2>5
<1>7. \A x \in all : \A q \in Of(x) : Of(q) = Of(x)
  BY <1>3, <1>5, <1>6
<1>8. r \in all
  BY DEF all
<1>9. /\ r \in Of(r) /\ Of(r) \subseteq all
      /\ \A p \in Of(r), q \in all : Adjacent(nodes, view, p, q) => q \in Of(r)
      /\ \A q \in Of(r) : Of(q) = Of(r)
  BY <1>3, <1>4, <1>7, <1>8
<1> QED
  BY <1>9 DEF all, Of

\* A reference is in one group; neighbours are in the same.
GroupRefs(g) == {<<"in", i>> : i \in g.members} \cup {<<"page", k>> : k \in g.options}
GroupOf(nodes, view, i) ==
  [members |-> {j \in DOMAIN nodes : <<"in", j>> \in Component(nodes, view, <<"in", i>>)},
   options |-> {k \in DOMAIN view : <<"page", k>> \in Component(nodes, view, <<"in", i>>)}]

LEMMA GroupsAre ==
  ASSUME NEW nodes, NEW view
  PROVE  /\ Groups(nodes, view) = {GroupOf(nodes, view, i) : i \in DOMAIN nodes}
         /\ \A i \in DOMAIN nodes : /\ <<"in", i>> \in Refs(nodes, view)
                                    /\ GroupRefs(GroupOf(nodes, view, i)) = Component(nodes, view, <<"in", i>>)
<1> DEFINE Of(i) == Component(nodes, view, <<"in", i>>)
           Made(C) == [members |-> {r[2] : r \in {q \in C : q[1] = "in"}},
                       options |-> {r[2] : r \in {q \in C : q[1] = "page"}}]
<1>1. \A r \in Refs(nodes, view) : \/ \E i \in DOMAIN nodes : r = <<"in", i>>
                                   \/ \E k \in DOMAIN view : r = <<"page", k>>
  BY DEF Refs
<1>2. \A i \in DOMAIN nodes : <<"in", i>> \in Refs(nodes, view)
  BY DEF Refs
<1>3. ASSUME NEW i \in DOMAIN nodes
      PROVE  Made(Of(i)) = GroupOf(nodes, view, i) /\ GroupRefs(GroupOf(nodes, view, i)) = Of(i)
  <2>1. Of(i) \subseteq Refs(nodes, view)
    BY <1>2, ComponentIs
  <2> HIDE DEF Of
  <2>2. {r[2] : r \in {q \in Of(i) : q[1] = "in"}} = {j \in DOMAIN nodes : <<"in", j>> \in Of(i)}
    BY <1>1, <2>1
  <2>3. {r[2] : r \in {q \in Of(i) : q[1] = "page"}} = {k \in DOMAIN view : <<"page", k>> \in Of(i)}
    BY <1>1, <2>1
  <2>4. GroupOf(nodes, view, i) = [members |-> {j \in DOMAIN nodes : <<"in", j>> \in Of(i)},
                                   options |-> {k \in DOMAIN view : <<"page", k>> \in Of(i)}]
    BY DEF GroupOf, Of
  <2>5. Made(Of(i)) = GroupOf(nodes, view, i)
    BY <2>2, <2>3, <2>4
  <2>6. /\ GroupOf(nodes, view, i).members = {j \in DOMAIN nodes : <<"in", j>> \in Of(i)}
        /\ GroupOf(nodes, view, i).options = {k \in DOMAIN view : <<"page", k>> \in Of(i)}
    BY <2>4
  <2>7. \A x : x \in GroupRefs(GroupOf(nodes, view, i)) <=> x \in Of(i)
    BY <1>1, <2>1, <2>6 DEF GroupRefs
  <2> QED
    BY <2>5, <2>7
<1>4. Groups(nodes, view) = {Made(Of(i)) : i \in DOMAIN nodes}
  BY DEF Groups
<1> HIDE DEF Made, Of
<1>5. Groups(nodes, view) = {GroupOf(nodes, view, i) : i \in DOMAIN nodes}
  BY <1>3, <1>4
<1> QED
  BY <1>2, <1>3, <1>5 DEF Of

LEMMA GroupsApart ==
  ASSUME NEW nodes, NEW view, NEW g \in Groups(nodes, view), NEW h \in Groups(nodes, view),
         NEW p \in GroupRefs(g), NEW q \in GroupRefs(h), p = q \/ Adjacent(nodes, view, p, q)
  PROVE  g = h
<1>1. PICK i \in DOMAIN nodes : g = GroupOf(nodes, view, i)
  BY GroupsAre
<1>2. PICK j \in DOMAIN nodes : h = GroupOf(nodes, view, j)
  BY GroupsAre
<1>3. /\ GroupRefs(g) = Component(nodes, view, <<"in", i>>) /\ <<"in", i>> \in Refs(nodes, view)
      /\ GroupRefs(h) = Component(nodes, view, <<"in", j>>) /\ <<"in", j>> \in Refs(nodes, view)
  BY <1>1, <1>2, GroupsAre
<1>4. q \in Component(nodes, view, <<"in", i>>) /\ q \in Component(nodes, view, <<"in", j>>)
  BY <1>3, ComponentIs
<1>5. Component(nodes, view, <<"in", i>>) = Component(nodes, view, <<"in", j>>)
  BY <1>3, <1>4, ComponentIs
<1> QED
  BY <1>1, <1>2, <1>5 DEF GroupOf

LEMMA GroupIs ==
  ASSUME NEW nodes, NEW view, NEW g \in Groups(nodes, view)
  PROVE  /\ g = [members |-> g.members, options |-> g.options]
         /\ g.members \subseteq DOMAIN nodes /\ g.options \subseteq DOMAIN view /\ g.members # {}
         /\ \A i \in g.members : KeyOf(nodes[i]) \in DOMAIN view => KeyOf(nodes[i]) \in g.options
<1>1. PICK i \in DOMAIN nodes : g = GroupOf(nodes, view, i)
  BY GroupsAre
<1>2. GroupRefs(g) = Component(nodes, view, <<"in", i>>) /\ <<"in", i>> \in Refs(nodes, view)
  BY <1>1, GroupsAre
<1>3. /\ g = [members |-> g.members, options |-> g.options]
      /\ g.members \subseteq DOMAIN nodes /\ g.options \subseteq DOMAIN view
  BY <1>1 DEF GroupOf
<1>4. i \in g.members
  <2>1. <<"in", i>> \in Component(nodes, view, <<"in", i>>)
    BY <1>2, ComponentIs
  <2> QED
    BY <1>1, <2>1 DEF GroupOf
<1>5. ASSUME NEW m \in g.members, KeyOf(nodes[m]) \in DOMAIN view
      PROVE  KeyOf(nodes[m]) \in g.options
  <2>1. <<"in", m>> \in GroupRefs(g)
    BY DEF GroupRefs
  <2>2. <<"page", KeyOf(nodes[m])>> \in Refs(nodes, view)
    BY <1>5 DEF Refs
  <2>3. Adjacent(nodes, view, <<"in", m>>, <<"page", KeyOf(nodes[m])>>)
    BY DEF Adjacent, Names1
  <2>4. <<"page", KeyOf(nodes[m])>> \in Component(nodes, view, <<"in", i>>)
    BY <1>2, <2>1, <2>2, <2>3, ComponentIs
  <2> QED
    BY <1>1, <1>5, <2>4 DEF GroupOf
<1> QED
  BY <1>3, <1>4, <1>5

-----------------------------------------------------------------------------
(* What a group becomes.                                                   *)

IsWiki(P) ==
  DOMAIN P \subseteq Keys /\ \A k \in DOMAIN P : P[k] \in Page /\ SlugOf[P[k].title] = k.slug
IsList(list) ==
  DOMAIN list \subseteq Nat /\ IsFiniteSet(DOMAIN list) /\ \A i \in DOMAIN list : list[i] \in Node
Decided(list, view, decision) ==
  /\ DOMAIN decision = Conflicts(list, Groups(list, view))
  /\ \A g \in DOMAIN decision : decision[g] \in Decisions(list, view, g)
NodeOf(list, view, decision, g) ==
  IF g \in DOMAIN decision THEN ApplyDecision(list, g, decision[g]) ELSE MergeNodes(list, view, g)

LEMMA ResolvedAre ==
  ASSUME NEW list, NEW view, NEW decision, Decided(list, view, decision)
  PROVE  Resolved(list, view, Groups(list, view), decision)
           = {NodeOf(list, view, decision, g) : g \in Groups(list, view)}
BY DEF Resolved, NodeOf, Decided, Conflicts

LEMMA SurfacesOf ==
  ASSUME NEW n, NEW s
  PROVE  s \in NodeSurfaces(n) <=> \E x \in {n.name} \cup n.aliases : s = SurfaceOf[x]
BY DEF NodeSurfaces, Surfaces
LEMMA SurfacesOfPage ==
  ASSUME NEW p, NEW s
  PROVE  s \in PageSurfaces(p) <=> \E x \in {p.title} \cup p.aliases : s = SurfaceOf[x]
BY DEF PageSurfaces, Surfaces

\* A node keeps every surface of its group and has no other; the page it names is one of
\* the group or does not exist; and a name it does not carry is that page's title.
Gathers(list, view, g, n) ==
  /\ \A i \in g.members : NodeSurfaces(list[i]) \subseteq NodeSurfaces(n)
  /\ \A s \in NodeSurfaces(n) : \/ \E i \in g.members : s \in NodeSurfaces(list[i])
                                \/ \E k \in g.options : s \in PageSurfaces(view[k])
StandsFor(list, view, g, n) ==
  /\ n \in Node
  /\ Gathers(list, view, g, n)
  /\ n.match = Nothing \/ KeyOf(n) \in g.options \/ NamesMissingPage(n, view)
  /\ n.match # Nothing /\ KeyOf(n) \in DOMAIN view => n.name \in n.aliases \cup {view[KeyOf(n)].title}

LEMMA NodeGathers ==
  ASSUME NEW list, NEW view, NEW g, NEW n, g.members \subseteq DOMAIN list,
         n.name \in NamesIn(list, g) \/ \E k \in g.options : n.name = view[k].title,
         AliasesIn(list, g) \cup (NamesIn(list, g) \ {n.name}) \subseteq n.aliases,
         n.aliases \subseteq AliasesIn(list, g) \cup NamesIn(list, g)
  PROVE  Gathers(list, view, g, n)
<1>1. \A x : x \in NamesIn(list, g) <=> \E i \in g.members : x = list[i].name
  BY DEF NamesIn
<1>2. \A x : x \in AliasesIn(list, g) <=> \E i \in g.members : x \in list[i].aliases
  BY DEF AliasesIn
<1>3. ASSUME NEW i \in g.members, NEW s \in NodeSurfaces(list[i]) PROVE s \in NodeSurfaces(n)
  <2>1. PICK x \in {list[i].name} \cup list[i].aliases : s = SurfaceOf[x]
    BY <1>3, SurfacesOf
  <2>2. x \in {n.name} \cup n.aliases
    BY <1>1, <1>2, <2>1
  <2> QED
    BY <2>1, <2>2, SurfacesOf
<1>4. ASSUME NEW s \in NodeSurfaces(n)
      PROVE  \/ \E i \in g.members : s \in NodeSurfaces(list[i])
             \/ \E k \in g.options : s \in PageSurfaces(view[k])
  <2>1. PICK x \in {n.name} \cup n.aliases : s = SurfaceOf[x]
    BY <1>4, SurfacesOf
  <2>2. CASE \E k \in g.options : x = view[k].title
    BY <2>1, <2>2, SurfacesOfPage
  <2>3. CASE \E i \in g.members : x \in {list[i].name} \cup list[i].aliases
    BY <2>1, <2>3, SurfacesOf
  <2> QED
    BY <1>1, <1>2, <2>1, <2>2, <2>3
<1> QED
  BY <1>3, <1>4 DEF Gathers

LEMMA FirstIs == ASSUME NEW S, S \subseteq Nat, S # {} PROVE First(S) \in S
BY Least DEF First

LEMMA NamesAreNames ==
  ASSUME NEW list, NEW g, IsList(list), g.members \subseteq DOMAIN list
  PROVE  NamesIn(list, g) \subseteq Names /\ AliasesIn(list, g) \subseteq Names
BY DEF NamesIn, AliasesIn, IsList, Node

LEMMA DecisionStandsFor ==
  ASSUME NEW list, NEW view, NEW g \in Groups(list, view), NEW d \in Decisions(list, view, g),
         IsList(list), IsWiki(view), NEW n, n = ApplyDecision(list, g, d), NamesAreWellFormed
  PROVE  StandsFor(list, view, g, n)
<1>0. g.members \subseteq DOMAIN list /\ g.options \subseteq DOMAIN view
  BY GroupIs
<1>1. NamesIn(list, g) \subseteq Names /\ AliasesIn(list, g) \subseteq Names
  BY <1>0, NamesAreNames
<1>2. \/ \E k \in g.options : d = [kind |-> k.kind, name |-> view[k].title, match |-> k.slug]
      \/ d \in [kind : Kinds, name : NamesIn(list, g), match : {Nothing}]
  BY DEF Decisions
<1>3. /\ n = [kind |-> d.kind, name |-> d.name, match |-> d.match,
              aliases |-> AliasesIn(list, g) \cup (NamesIn(list, g) \ {d.name})]
      /\ n.kind = d.kind /\ n.name = d.name /\ n.match = d.match
      /\ n.aliases = AliasesIn(list, g) \cup (NamesIn(list, g) \ {d.name})
  BY DEF ApplyDecision
<1>4. n.name \in NamesIn(list, g) \/ \E k \in g.options : n.name = view[k].title
  BY <1>2, <1>3
<1>5. \A k \in DOMAIN view : k \in Keys /\ view[k].title \in Names /\ k = [kind |-> k.kind, slug |-> k.slug]
                             /\ k.kind \in Kinds /\ k.slug \in Slugs
  BY DEF IsWiki, Page, Keys
<1>6. d.kind \in Kinds /\ d.name \in Names /\ d.match \in Slugs \cup {Nothing}
  BY <1>0, <1>1, <1>2, <1>5
<1>7. n \in Node
  BY <1>1, <1>3, <1>6 DEF Node
<1>8. Gathers(list, view, g, n)
  BY <1>0, <1>3, <1>4, NodeGathers
<1>9. CASE d \in [kind : Kinds, name : NamesIn(list, g), match : {Nothing}]
  BY <1>3, <1>7, <1>8, <1>9 DEF StandsFor
<1>10. ASSUME NEW k \in g.options, d = [kind |-> k.kind, name |-> view[k].title, match |-> k.slug]
       PROVE  StandsFor(list, view, g, n)
  <2>1. KeyOf(n) = k
    BY <1>0, <1>3, <1>5, <1>10 DEF KeyOf
  <2> QED
    BY <1>3, <1>7, <1>8, <1>10, <2>1 DEF StandsFor
<1> QED
  BY <1>2, <1>9, <1>10

LEMMA MergeStandsFor ==
  ASSUME NEW list, NEW view, NEW g \in Groups(list, view), IsSettled(list, g),
         IsList(list), IsWiki(view), NEW n, n = MergeNodes(list, view, g), NamesAreWellFormed
  PROVE  StandsFor(list, view, g, n)
<1> DEFINE first == list[First(g.members)]
           aliases == AliasesIn(list, g) \cup (NamesIn(list, g) \ {first.name})
           k == CHOOSE k \in g.options : TRUE
<1>0. g.members \subseteq DOMAIN list /\ g.options \subseteq DOMAIN view /\ g.members # {}
  BY GroupIs
<1>1. NamesIn(list, g) \subseteq Names /\ AliasesIn(list, g) \subseteq Names
  BY <1>0, NamesAreNames
<1>2. First(g.members) \in g.members
  BY <1>0, FirstIs DEF IsList
<1>3. first \in Node /\ first.name \in NamesIn(list, g) /\ first.kind \in KindsOf(list, g)
  BY <1>0, <1>2 DEF IsList, NamesIn, KindsOf
<1>4. first.aliases \subseteq AliasesIn(list, g)
  BY <1>2 DEF AliasesIn
<1>5. /\ g.options = {} => n = [first EXCEPT !.aliases = aliases]
      /\ g.options # {} => n = [first EXCEPT !.match = k.slug,
                                             !.aliases = aliases \cup ({first.name} \ {view[k].title})]
  BY DEF MergeNodes
<1> HIDE DEF first, k
<1>6. CASE g.options = {}
  <2>1. /\ n \in Node /\ n.kind = first.kind /\ n.name = first.name /\ n.match = first.match
        /\ n.aliases = aliases
    BY <1>1, <1>3, <1>5, <1>6 DEF Node
  <2>2. Gathers(list, view, g, n)
    <3>1. /\ n.name \in NamesIn(list, g) \/ \E l \in g.options : n.name = view[l].title
          /\ AliasesIn(list, g) \cup (NamesIn(list, g) \ {n.name}) \subseteq n.aliases
          /\ n.aliases \subseteq AliasesIn(list, g) \cup NamesIn(list, g)
      BY <1>3, <2>1
    <3> QED
      BY <1>0, <3>1, NodeGathers
  <2>3. KeyOf(n) = KeyOf(first)
    BY <2>1 DEF KeyOf
  <2>4. KeyOf(first) \notin DOMAIN view
    BY <1>2, <1>6, GroupIs DEF first
  <2> QED
    BY <2>1, <2>2, <2>3, <2>4 DEF StandsFor, NamesMissingPage
<1>7. CASE g.options # {}
  <2>0. k \in g.options /\ k \in DOMAIN view
    BY <1>0, <1>7 DEF k
  <2>1. /\ k = [kind |-> k.kind, slug |-> k.slug] /\ k.slug \in Slugs
        /\ view[k].title \in Names
    BY <2>0 DEF IsWiki, Page, Keys
  <2>2. /\ n \in Node /\ n.kind = first.kind /\ n.name = first.name /\ n.match = k.slug
        /\ n.aliases = aliases \cup ({first.name} \ {view[k].title})
    <3>1. PICK al : al = aliases \cup ({first.name} \ {view[k].title})
      OBVIOUS
    <3>2. PICK f : f = first
      OBVIOUS
    <3>3. PICK m : m = k.slug
      OBVIOUS
    <3>4. n = [f EXCEPT !.match = m, !.aliases = al]
      BY <1>5, <1>7, <3>1, <3>2, <3>3
    <3>5. f \in Node /\ m \in Slugs
      BY <1>3, <2>1, <3>2, <3>3
    <3>6. al \subseteq Names
      <4>1. first.name \in Names
        BY <1>1, <1>3
      <4> QED
        BY <1>1, <3>1, <4>1
    <3>7. n \in Node /\ n.kind = f.kind /\ n.name = f.name /\ n.match = m /\ n.aliases = al
      BY <3>4, <3>5, <3>6 DEF Node
    <3> QED
      BY <3>1, <3>2, <3>3, <3>7
  <2>3. Gathers(list, view, g, n)
    <3>1. /\ n.name \in NamesIn(list, g) \/ \E l \in g.options : n.name = view[l].title
          /\ AliasesIn(list, g) \cup (NamesIn(list, g) \ {n.name}) \subseteq n.aliases
          /\ n.aliases \subseteq AliasesIn(list, g) \cup NamesIn(list, g)
      BY <1>3, <2>2
    <3> QED
      BY <1>0, <3>1, NodeGathers
  <2>4. k.kind = first.kind
    <3>1. KindsOf(list, g) \subseteq Kinds
      BY <1>0 DEF KindsOf, IsList, Node
    <3>2. IsFiniteSet(Kinds)
      <4>1. IsFiniteSet({"entity"}) /\ Kinds = {"entity"} \cup {"concept"}
        BY FS_Singleton DEF Kinds
      <4> QED
        BY <4>1, FS_AddElement
    <3>3. IsFiniteSet(KindsOf(list, g)) /\ Cardinality(KindsOf(list, g)) = 1
      BY <3>1, <3>2, FS_Subset DEF IsSettled
    <3>4. PICK x : KindsOf(list, g) = {x}
      BY <3>3, FS_Singleton
    <3>5. k.kind \in KindsOf(list, g)
      BY <2>0 DEF IsSettled
    <3> QED
      BY <1>3, <3>4, <3>5
  <2>5. KeyOf(n) = k
    BY <2>1, <2>2, <2>4 DEF KeyOf
  <2> QED
    BY <2>0, <2>2, <2>3, <2>5 DEF StandsFor
<1> QED
  BY <1>6, <1>7

LEMMA NodeStandsFor ==
  ASSUME NEW list, NEW view, NEW decision, NEW g \in Groups(list, view),
         IsList(list), IsWiki(view), Decided(list, view, decision), NamesAreWellFormed
  PROVE  StandsFor(list, view, g, NodeOf(list, view, decision, g))
<1>1. CASE g \in DOMAIN decision
  BY <1>1, DecisionStandsFor DEF NodeOf, Decided
<1>2. CASE g \notin DOMAIN decision
  <2>1. IsSettled(list, g)
    BY <1>2 DEF Decided, Conflicts
  <2> QED
    BY <1>2, <2>1, MergeStandsFor DEF NodeOf
<1> QED
  BY <1>1, <1>2

-----------------------------------------------------------------------------
(* What a resolution leaves.                                               *)

\* No two nodes would be stored under one key, every name found is carried on, and what a
\* node is called is the name of the page it goes to.
Apart(nodes, view) == \A m, n \in nodes : PlanKey(m, view) = PlanKey(n, view) => m = n
Carries(nodes, found) == \A s \in found : \E n \in nodes : s \in NodeSurfaces(n)
CallsItsPage(nodes, view) ==
  \A n \in nodes : n.match # Nothing => KeyOf(n) \in DOMAIN view /\ n.name \in n.aliases \cup {view[KeyOf(n)].title}
SettledAs(nodes, view, found) ==
  /\ IsFiniteSet(nodes)
  /\ Apart(nodes, view)
  /\ Carries(nodes, found)
  /\ CallsItsPage(nodes, view)

\* Two groups meet in no surface and name no page together.
LEMMA NodesApart ==
  ASSUME NEW list, NEW view, NEW g \in Groups(list, view), NEW h \in Groups(list, view),
         NEW m, NEW n, StandsFor(list, view, g, m), StandsFor(list, view, h, n),
         \/ NodeSurfaces(m) \cap NodeSurfaces(n) # {}
         \/ KeyOf(m) \in g.options /\ KeyOf(m) \in h.options
         \/ \E k \in g.options : PageSurfaces(view[k]) \cap NodeSurfaces(n) # {}
  PROVE  g = h
<1> DEFINE Has(G, s) == \/ \E i \in G.members : s \in NodeSurfaces(list[i])
                        \/ \E k \in G.options : s \in PageSurfaces(view[k])
<1>1. ASSUME NEW G \in Groups(list, view), NEW s, Has(G, s)
      PROVE  \E p \in GroupRefs(G) : s \in RefSurfaces(list, view, p)
  <2>1. ASSUME NEW i \in G.members, s \in NodeSurfaces(list[i])
        PROVE  \E p \in GroupRefs(G) : s \in RefSurfaces(list, view, p)
    <3>1. <<"in", i>> \in GroupRefs(G) /\ s \in RefSurfaces(list, view, <<"in", i>>)
      BY <2>1 DEF GroupRefs, RefSurfaces
    <3> QED
      BY <3>1
  <2>2. ASSUME NEW k \in G.options, s \in PageSurfaces(view[k])
        PROVE  \E p \in GroupRefs(G) : s \in RefSurfaces(list, view, p)
    <3>1. <<"page", k>> \in GroupRefs(G) /\ s \in RefSurfaces(list, view, <<"page", k>>)
      BY <2>2 DEF GroupRefs, RefSurfaces
    <3> QED
      BY <3>1
  <2> QED
    BY <1>1, <2>1, <2>2
<1>2. ASSUME NEW s, Has(g, s), Has(h, s) PROVE g = h
  <2>1. PICK p \in GroupRefs(g) : s \in RefSurfaces(list, view, p)
    BY <1>1, <1>2
  <2>2. PICK q \in GroupRefs(h) : s \in RefSurfaces(list, view, q)
    BY <1>1, <1>2
  <2>3. Adjacent(list, view, p, q)
    BY <2>1, <2>2 DEF Adjacent
  <2> QED
    BY <2>3, GroupsApart
<1>3. /\ \A s \in NodeSurfaces(m) : Has(g, s)
      /\ \A s \in NodeSurfaces(n) : Has(h, s)
  BY DEF StandsFor, Gathers
<1>4. CASE NodeSurfaces(m) \cap NodeSurfaces(n) # {}
  BY <1>2, <1>3, <1>4
<1>5. CASE KeyOf(m) \in g.options /\ KeyOf(m) \in h.options
  <2>1. <<"page", KeyOf(m)>> \in GroupRefs(g) /\ <<"page", KeyOf(m)>> \in GroupRefs(h)
    BY <1>5 DEF GroupRefs
  <2> QED
    BY <2>1, GroupsApart
<1>6. CASE \E k \in g.options : PageSurfaces(view[k]) \cap NodeSurfaces(n) # {}
  BY <1>2, <1>3, <1>6
<1> QED
  BY <1>4, <1>5, <1>6

LEMMA OwnSurface == ASSUME NEW n PROVE SurfaceOf[n.name] \in NodeSurfaces(n)
BY SurfacesOf
LEMMA TitleSurface == ASSUME NEW p PROVE SurfaceOf[p.title] \in PageSurfaces(p)
BY SurfacesOfPage

LEMMA OneGroupOneNode ==
  ASSUME NEW list, NEW view, NEW g \in Groups(list, view), NEW h \in Groups(list, view),
         NEW m, NEW n, StandsFor(list, view, g, m), StandsFor(list, view, h, n), m = n
  PROVE  g = h
BY OwnSurface, NodesApart

LEMMA KeysApart ==
  ASSUME NEW list, NEW view, NEW g \in Groups(list, view), NEW h \in Groups(list, view),
         NEW m, NEW n, StandsFor(list, view, g, m), StandsFor(list, view, h, n),
         IsWiki(view), NamesAreWellFormed,
         ~NamesMissingPage(m, view), ~NamesMissingPage(n, view), PlanKey(m, view) = PlanKey(n, view)
  PROVE  g = h
<1>1. /\ m.match = Nothing \/ (KeyOf(m) \in g.options /\ KeyOf(m) \in DOMAIN view)
      /\ n.match = Nothing \/ (KeyOf(n) \in h.options /\ KeyOf(n) \in DOMAIN view)
  BY DEF StandsFor, NamesMissingPage
<1>2. m.name \in Names /\ n.name \in Names
  BY DEF StandsFor, Node
<1>3. ASSUME NEW G \in Groups(list, view), NEW H \in Groups(list, view), NEW a, NEW b,
             StandsFor(list, view, G, a), StandsFor(list, view, H, b),
             a.match # Nothing, KeyOf(a) \in G.options, KeyOf(a) \in DOMAIN view,
             b.match = Nothing, b.name \in Names, PlanKey(a, view) = PlanKey(b, view)
      PROVE  G = H
  <2>1. KeyOf(a) = [kind |-> b.kind, slug |-> SlugOf[b.name]]
    BY <1>3 DEF PlanKey
  <2>2. SlugOf[view[KeyOf(a)].title] = SlugOf[b.name] /\ view[KeyOf(a)].title \in Names
    BY <1>3, <2>1 DEF IsWiki, Page
  <2>3. SurfaceOf[view[KeyOf(a)].title] = SurfaceOf[b.name]
    BY <1>3, <2>2 DEF NamesAreWellFormed
  <2>4. PageSurfaces(view[KeyOf(a)]) \cap NodeSurfaces(b) # {}
    BY <2>3, OwnSurface, TitleSurface
  <2> QED
    BY <1>3, <2>4, NodesApart
<1>4. CASE m.match # Nothing /\ n.match # Nothing
  <2>1. KeyOf(m) = KeyOf(n)
    BY <1>1, <1>4 DEF PlanKey
  <2> QED
    BY <1>1, <1>4, <2>1, NodesApart
<1>5. CASE m.match # Nothing /\ n.match = Nothing
  BY <1>1, <1>2, <1>3, <1>5
<1>6. CASE m.match = Nothing /\ n.match # Nothing
  BY <1>1, <1>2, <1>3, <1>6
<1>7. CASE m.match = Nothing /\ n.match = Nothing
  <2>1. SlugOf[m.name] = SlugOf[n.name]
    BY <1>7 DEF PlanKey
  <2>2. SurfaceOf[m.name] = SurfaceOf[n.name]
    BY <1>2, <2>1 DEF NamesAreWellFormed
  <2>3. NodeSurfaces(m) \cap NodeSurfaces(n) # {}
    BY <2>2, OwnSurface
  <2> QED
    BY <2>3, NodesApart
<1> QED
  BY <1>4, <1>5, <1>6, <1>7

LEMMA ImageIsFinite ==
  ASSUME NEW S, IsFiniteSet(S), NEW f, DOMAIN f = S PROVE IsFiniteSet({f[x] : x \in S})
<1> DEFINE T == {f[x] : x \in S}
           e == [x \in S |-> f[x]]
<1>1. e \in Surjection(S, T)
  BY DEF Surjection
<1> HIDE DEF T, e
<1>3. IsFiniteSet(T)
  BY <1>1, FS_Surjection
<1> QED
  BY <1>3 DEF T

\* As many keys as nodes.
LEMMA AsManyKeys ==
  ASSUME NEW nodes, NEW view, IsFiniteSet(nodes), Apart(nodes, view)
  PROVE  Cardinality(PlanKeys(nodes, view)) = Cardinality(nodes)
<1> DEFINE e == [n \in nodes |-> PlanKey(n, view)]
<1>1. e \in Bijection(nodes, PlanKeys(nodes, view))
  <2>1. e \in [nodes -> PlanKeys(nodes, view)]
    BY DEF PlanKeys
  <2>2. \A m, n \in nodes : e[m] = e[n] => m = n
    BY DEF Apart
  <2>3. \A k \in PlanKeys(nodes, view) : \E n \in nodes : e[n] = k
    BY DEF PlanKeys
  <2> QED
    BY <2>1, <2>2, <2>3 DEF Bijection, Injection, Surjection, IsInjective
<1>2. ExistsBijection(nodes, PlanKeys(nodes, view))
  BY <1>1 DEF ExistsBijection
<1> QED
  BY <1>2, FS_Bijection

\* What was submitted is at fault.
Unfit(nodes, view, relations) ==
  (\E n \in nodes : NamesMissingPage(n, view)) \/ \E e \in relations : SameThing(e.from, e.to)

\* The validation of identities stops only what names a page that does not exist or
\* relates a thing to itself, and what passes it is settled.
LEMMA ResolutionIs ==
  ASSUME NEW list, NEW view, NEW decision, IsList(list), IsWiki(view), Decided(list, view, decision),
         NamesAreWellFormed, NEW nodes, nodes = Resolved(list, view, Groups(list, view), decision),
         NEW found, found = UNION {NodeSurfaces(list[i]) : i \in DOMAIN list}, NEW brought
  PROVE  /\ nodes \subseteq Node
         /\ PassesIdentity(nodes, view, brought) => SettledAs(nodes, view, found)
         /\ ~PassesIdentity(nodes, view, brought) => Unfit(nodes, view, brought)
<1> DEFINE groups == Groups(list, view)
           Of(g) == NodeOf(list, view, decision, g)
<1>1. nodes = {Of(g) : g \in groups}
  BY ResolvedAre
<1>2. \A g \in groups : StandsFor(list, view, g, Of(g))
  BY NodeStandsFor
<1> HIDE DEF groups, Of
<1>3. \A n \in nodes : \E g \in groups : n = Of(g) /\ StandsFor(list, view, g, n)
  BY <1>1, <1>2
<1>4. nodes \subseteq Node
  BY <1>3 DEF StandsFor
<1>5. \A g \in groups : Of(g) \in nodes
  BY <1>1
<1>6. IsFiniteSet(nodes)
  <2> DEFINE f == [i \in DOMAIN list |-> Of(GroupOf(list, view, i))]
  <2>1. nodes = {f[i] : i \in DOMAIN list}
    BY <1>1, GroupsAre DEF groups
  <2>2. DOMAIN f = DOMAIN list /\ IsFiniteSet(DOMAIN list)
    BY DEF IsList
  <2> HIDE DEF f
  <2> QED
    BY <2>1, <2>2, ImageIsFinite
<1>7. Carries(nodes, found)
  <2> SUFFICES ASSUME NEW s \in found PROVE \E n \in nodes : s \in NodeSurfaces(n)
    BY DEF Carries
  <2>1. PICK i \in DOMAIN list : s \in NodeSurfaces(list[i])
    OBVIOUS
  <2>2. GroupOf(list, view, i) \in groups /\ i \in GroupOf(list, view, i).members
    <3>1. <<"in", i>> \in Component(list, view, <<"in", i>>)
      BY GroupsAre, ComponentIs
    <3>2. GroupOf(list, view, i) \in groups
      BY GroupsAre DEF groups
    <3>3. i \in GroupOf(list, view, i).members
      BY <3>1 DEF GroupOf
    <3> QED
      BY <3>2, <3>3
  <2> QED
    BY <1>2, <1>5, <2>1, <2>2 DEF StandsFor, Gathers
<1>8. ASSUME \A n \in nodes : ~NamesMissingPage(n, view)
      PROVE  Apart(nodes, view) /\ CallsItsPage(nodes, view) /\ IsCanonical(nodes)
  <2>1. ASSUME NEW m \in nodes, NEW n \in nodes, PlanKey(m, view) = PlanKey(n, view) PROVE m = n
    <3>1. PICK g \in groups : m = Of(g) /\ StandsFor(list, view, g, m)
      BY <1>3
    <3>2. PICK h \in groups : n = Of(h) /\ StandsFor(list, view, h, n)
      BY <1>3
    <3>3. g = h
      BY <1>8, <2>1, <3>1, <3>2, KeysApart DEF groups
    <3> QED
      BY <3>1, <3>2, <3>3
  <2>2. CallsItsPage(nodes, view)
    BY <1>3, <1>8 DEF CallsItsPage, StandsFor, NamesMissingPage
  <2>3. ASSUME NEW m \in nodes, NEW n \in nodes, m # n
        PROVE  NodeSurfaces(m) \cap NodeSurfaces(n) = {} /\ (m.match = Nothing \/ KeyOf(m) # KeyOf(n))
    <3>1. PICK g \in groups : m = Of(g) /\ StandsFor(list, view, g, m)
      BY <1>3
    <3>2. PICK h \in groups : n = Of(h) /\ StandsFor(list, view, h, n)
      BY <1>3
    <3>3. g # h
      BY <2>3, <3>1, <3>2
    <3>4. NodeSurfaces(m) \cap NodeSurfaces(n) = {}
      BY <3>1, <3>2, <3>3, NodesApart DEF groups
    <3>5. ASSUME m.match # Nothing, KeyOf(m) = KeyOf(n) PROVE FALSE
      <4>1. n.match # Nothing
        BY <3>5 DEF KeyOf
      <4>2. KeyOf(m) \in g.options /\ KeyOf(n) \in h.options
        BY <1>8, <3>1, <3>2, <3>5, <4>1 DEF StandsFor
      <4> QED
        BY <3>1, <3>2, <3>3, <3>5, <4>2, NodesApart DEF groups
    <3> QED
      BY <3>4, <3>5
  <2> QED
    BY <2>1, <2>2, <2>3 DEF Apart, IsCanonical
<1> QED
  BY <1>4, <1>6, <1>7, <1>8 DEF PassesIdentity, SettledAs, Unfit

-----------------------------------------------------------------------------
(* Plans.                                                                  *)

\* Q has every page of P, under its title and with at least its aliases and sources.
Adds(P, Q) ==
  \A k \in DOMAIN P : /\ k \in DOMAIN Q
                      /\ Q[k].title = P[k].title
                      /\ P[k].aliases \subseteq Q[k].aliases
                      /\ P[k].sources \subseteq Q[k].sources
Covered(found, source, Q) ==
  \A s \in found : \E k \in DOMAIN Q : s \in PageSurfaces(Q[k]) /\ source \in Q[k].sources

LEMMA OverlayIsWiki == ASSUME NEW P, NEW Q, IsWiki(P), IsWiki(Q) PROVE IsWiki(Over(P, Q))
BY DEF IsWiki, Over

LEMMA AddsTwice == ASSUME NEW P, NEW Q, NEW R, Adds(P, Q), Adds(Q, R) PROVE Adds(P, R)
BY DEF Adds

LEMMA AddsSurfaces ==
  ASSUME NEW P, NEW Q, Adds(P, Q), NEW k \in DOMAIN P PROVE PageSurfaces(P[k]) \subseteq PageSurfaces(Q[k])
<1>1. Q[k].title = P[k].title /\ P[k].aliases \subseteq Q[k].aliases
  BY DEF Adds
<1> QED
  BY <1>1, SurfacesOfPage

LEMMA CoveredStays ==
  ASSUME NEW P, NEW Q, Adds(P, Q), NEW found, NEW source, Covered(found, source, P)
  PROVE  Covered(found, source, Q)
<1> SUFFICES ASSUME NEW s \in found PROVE \E k \in DOMAIN Q : s \in PageSurfaces(Q[k]) /\ source \in Q[k].sources
  BY DEF Covered
<1>1. PICK k \in DOMAIN P : s \in PageSurfaces(P[k]) /\ source \in P[k].sources
  BY DEF Covered
<1>2. k \in DOMAIN Q /\ P[k].sources \subseteq Q[k].sources
  BY DEF Adds
<1> QED
  BY <1>1, <1>2, AddsSurfaces

LEMMA PlanKeyIs ==
  ASSUME NEW view, IsWiki(view), NEW n \in Node, NamesAreWellFormed
  PROVE  /\ PlanKey(n, view) \in Keys
         /\ PlanKey(n, view) \notin DOMAIN view => PlanKey(n, view).slug = SlugOf[n.name]
         /\ PlanKey(n, view) \in DOMAIN view =>
              \/ n.match # Nothing /\ PlanKey(n, view) = KeyOf(n)
              \/ SurfaceOf[view[PlanKey(n, view)].title] = SurfaceOf[n.name]
<1>1. n.name \in Names /\ n.kind \in Kinds /\ SlugOf[n.name] \in Slugs
  BY DEF Node, Slugs
<1>2. CASE n.match # Nothing /\ KeyOf(n) \in DOMAIN view
  BY <1>2 DEF PlanKey, IsWiki
<1>3. CASE ~(n.match # Nothing /\ KeyOf(n) \in DOMAIN view)
  <2>1. PlanKey(n, view) = [kind |-> n.kind, slug |-> SlugOf[n.name]]
    BY <1>3 DEF PlanKey
  <2>2. PlanKey(n, view) \in Keys /\ PlanKey(n, view).slug = SlugOf[n.name]
    BY <1>1, <2>1 DEF Keys
  <2>3. ASSUME PlanKey(n, view) \in DOMAIN view
        PROVE  SurfaceOf[view[PlanKey(n, view)].title] = SurfaceOf[n.name]
    <3>1. view[PlanKey(n, view)].title \in Names /\ SlugOf[view[PlanKey(n, view)].title] = SlugOf[n.name]
      BY <2>2, <2>3 DEF IsWiki, Page
    <3> QED
      BY <1>1, <3>1 DEF NamesAreWellFormed
  <2> QED
    BY <2>2, <2>3
<1> QED
  BY <1>2, <1>3

\* The pages of a plan: what is there grows, what is new has its own title.
LEMMA PlannedIs ==
  ASSUME NEW view, IsWiki(view), NEW nodes, nodes \subseteq Node, NamesAreWellFormed, NEW s \in Inputs,
         NEW P, P = PlannedPages(nodes, view, s)
  PROVE  IsWiki(P) /\ Adds(view, Over(P, view)) /\ IsWiki(Over(P, view))
<1>1. /\ DOMAIN P = PlanKeys(nodes, view)
      /\ \A k \in DOMAIN P : \E n \in nodes : PlanKey(n, view) = k /\ P[k] = PlannedPage(n, view, s)
  BY DEF PlannedPages, PlanKeys
<1>2. \A k \in DOMAIN view : view[k] \in Page /\ SlugOf[view[k].title] = k.slug
  BY DEF IsWiki
<1>3. ASSUME NEW k \in DOMAIN P
      PROVE  /\ k \in Keys /\ P[k] \in Page /\ SlugOf[P[k].title] = k.slug
             /\ k \in DOMAIN view => /\ P[k].title = view[k].title
                                     /\ view[k].aliases \subseteq P[k].aliases
                                     /\ view[k].sources \subseteq P[k].sources
  <2>1. PICK n \in nodes : PlanKey(n, view) = k /\ P[k] = PlannedPage(n, view, s)
    BY <1>1
  <2>2. n \in Node /\ n.aliases \in SUBSET Names /\ n.name \in Names
    BY DEF Node
  <2>3. CASE k \in DOMAIN view
    <3>1. P[k] = [view[k] EXCEPT !.aliases = @ \cup n.aliases, !.sources = @ \cup {s}]
      BY <2>1, <2>3 DEF PlannedPage
    <3>2. view[k] \in Page /\ SlugOf[view[k].title] = k.slug /\ k \in Keys
      BY <1>2, <2>3 DEF IsWiki
    <3>3. /\ P[k] \in Page /\ P[k].title = view[k].title
          /\ view[k].aliases \subseteq P[k].aliases /\ view[k].sources \subseteq P[k].sources
      BY <2>2, <3>1, <3>2 DEF Page
    <3> QED
      BY <3>2, <3>3
  <2>4. CASE k \notin DOMAIN view
    <3>1. P[k] = [title |-> n.name, aliases |-> n.aliases, sources |-> {s}]
      BY <2>1, <2>4 DEF PlannedPage
    <3>2. P[k] \in Page /\ P[k].title = n.name
      BY <2>2, <3>1 DEF Page
    <3> QED
      BY <2>1, <2>2, <2>4, <3>2, PlanKeyIs
  <2> QED
    BY <2>3, <2>4
<1>4. IsWiki(P)
  BY <1>3 DEF IsWiki
<1>5. Adds(view, Over(P, view))
  <2> SUFFICES ASSUME NEW k \in DOMAIN view
               PROVE  /\ k \in DOMAIN Over(P, view) /\ Over(P, view)[k].title = view[k].title
                      /\ view[k].aliases \subseteq Over(P, view)[k].aliases
                      /\ view[k].sources \subseteq Over(P, view)[k].sources
    BY DEF Adds
  <2>1. k \in DOMAIN Over(P, view)
    BY DEF Over
  <2>2. Over(P, view)[k] = IF k \in DOMAIN P THEN P[k] ELSE view[k]
    BY DEF Over
  <2> QED
    BY <1>3, <2>1, <2>2
<1> QED
  BY <1>4, <1>5, OverlayIsWiki

\* Every name found has a page of the source.
LEMMA PlannedCovers ==
  ASSUME NEW view, IsWiki(view), NEW nodes, nodes \subseteq Node, NamesAreWellFormed, NEW s \in Inputs,
         NEW P, P = PlannedPages(nodes, view, s), NEW found, SettledAs(nodes, view, found)
  PROVE  Covered(found, s, Over(P, view))
<1> SUFFICES ASSUME NEW x \in found
             PROVE  \E k \in DOMAIN Over(P, view) : x \in PageSurfaces(Over(P, view)[k]) /\ s \in Over(P, view)[k].sources
  BY DEF Covered
<1>1. PICK n \in nodes : x \in NodeSurfaces(n)
  BY DEF SettledAs, Carries
<1>2. PICK k : k = PlanKey(n, view)
  OBVIOUS
<1>3. k \in DOMAIN P /\ P[k] = PlannedPage(n, view, s)
  <2>1. k \in PlanKeys(nodes, view)
    BY <1>2 DEF PlanKeys
  <2>2. (CHOOSE m \in nodes : PlanKey(m, view) = k) = n
    BY <1>2 DEF SettledAs, Apart
  <2>3. DOMAIN P = PlanKeys(nodes, view)
    BY DEF PlannedPages
  <2> QED
    BY <2>1, <2>2, <2>3 DEF PlannedPages
<1>4. k \in DOMAIN Over(P, view) /\ Over(P, view)[k] = P[k]
  BY <1>3 DEF Over
<1>5. PICK y \in {n.name} \cup n.aliases : x = SurfaceOf[y]
  BY <1>1, SurfacesOf
<1>6. CASE k \in DOMAIN view
  <2>1. P[k] = [view[k] EXCEPT !.aliases = @ \cup n.aliases, !.sources = @ \cup {s}]
    BY <1>2, <1>3, <1>6 DEF PlannedPage
  <2>2. view[k] \in Page /\ n \in Node
    BY <1>6 DEF IsWiki
  <2>3. P[k].title = view[k].title /\ P[k].aliases = view[k].aliases \cup n.aliases /\ s \in P[k].sources
    BY <2>1, <2>2 DEF Page
  <2>4. CASE y \in n.aliases
    BY <1>4, <1>5, <2>3, <2>4, SurfacesOfPage
  <2>5. CASE y = n.name
    <3>1. \/ n.match # Nothing /\ k = KeyOf(n)
          \/ SurfaceOf[view[k].title] = SurfaceOf[n.name]
      BY <1>2, <1>6, <2>2, PlanKeyIs
    <3>2. n.name \in n.aliases \cup {view[k].title} \/ SurfaceOf[view[k].title] = SurfaceOf[n.name]
      BY <3>1 DEF SettledAs, CallsItsPage
    <3> QED
      BY <1>4, <1>5, <2>3, <2>5, <3>2, SurfacesOfPage
  <2> QED
    BY <1>5, <2>4, <2>5
<1>7. CASE k \notin DOMAIN view
  <2>1. P[k] = [title |-> n.name, aliases |-> n.aliases, sources |-> {s}]
    BY <1>2, <1>3, <1>7 DEF PlannedPage
  <2>2. P[k].title = n.name /\ P[k].aliases = n.aliases /\ s \in P[k].sources
    BY <2>1
  <2> QED
    BY <1>4, <1>5, <2>2, SurfacesOfPage
<1> QED
  BY <1>6, <1>7

-----------------------------------------------------------------------------
(* What a plan, and what all plans of a job, leave in the database.        *)

Relation == Keys \X Keys \X DOMAIN RelationKindPairs
IsLink(ab) == ab \in Relation /\ ab[1] # ab[2] /\ KindPairAllowed(ab[1], ab[2], ab[3])
IsPlan(plan) ==
  plan.source \in Inputs /\ IsWiki(plan.pages) /\ \A ab \in plan.heads : IsLink(ab)
IsListing(l) == l \in [all : SUBSET Keys, current : SUBSET Keys] /\ l.current \subseteq l.all

IsDb(db) == db = [pages |-> db.pages, heads |-> db.heads, supports |-> db.supports, listed |-> db.listed]
Relations(P, H, S) ==
  /\ \A ab \in H : IsLink(ab) /\ {ab[1], ab[2]} \subseteq DOMAIN P
  /\ \A u \in S : u \in H \X Inputs
SoundDb(db) ==
  IsDb(db) /\ IsWiki(db.pages) /\ Relations(db.pages, db.heads, db.supports) /\ IsListing(db.listed)

Live(db, plan) == {ab \in plan.heads : {ab[1], ab[2]} \subseteq DOMAIN Over(plan.pages, db.pages)}
Kept(db, plan) == {u \in db.supports : u[2] # plan.source}
Gained(db, plan) == (plan.observed \cap Live(db, plan)) \X {plan.source}
Bare(db, plan) ==
  {ab \in {u[1] : u \in db.supports \ Kept(db, plan)} :
     ~\E u \in Kept(db, plan) \cup Gained(db, plan) : u[1] = ab}

LEMMA PersistIs ==
  ASSUME NEW db, NEW plan, IsDb(db), NEW q, q = PersistPlan(db, plan)
  PROVE  /\ IsDb(q)
         /\ q.pages = Over(plan.pages, db.pages)
         /\ q.listed = List(db.listed, Over(plan.pages, db.pages), db.pages)
         /\ q.supports = Kept(db, plan) \cup Gained(db, plan)
         /\ q.heads = (db.heads \cup Live(db, plan)) \ Bare(db, plan)
<1>1. PICK p : p = Over(plan.pages, db.pages)
  OBVIOUS
<1>2. PICK l : l = List(db.listed, Over(plan.pages, db.pages), db.pages)
  OBVIOUS
<1>3. PICK mid : mid = [pages |-> p, heads |-> db.heads, supports |-> db.supports, listed |-> l]
  OBVIOUS
<1>4. [db EXCEPT !.pages = Over(plan.pages, @),
                 !.listed = List(@, Over(plan.pages, db.pages), db.pages)] = mid
  <2>1. [db EXCEPT !.pages = p, !.listed = l] = mid
    <3>1. PICK H, S, P, L : db = [pages |-> P, heads |-> H, supports |-> S, listed |-> L]
      BY DEF IsDb
    <3>2. mid = [pages |-> p, heads |-> H, supports |-> S, listed |-> l]
      BY <1>3, <3>1
    <3>3. PICK e : e = [pages |-> p, heads |-> H, supports |-> S, listed |-> L]
      OBVIOUS
    <3>4. [db EXCEPT !.pages = p] = e
      BY <3>1, <3>3
    <3>5. [e EXCEPT !.listed = l] = mid
      BY <3>2, <3>3
    <3>6. [db EXCEPT !.pages = p, !.listed = l] = [[db EXCEPT !.pages = p] EXCEPT !.listed = l]
      OBVIOUS
    <3> QED
      BY <3>4, <3>5, <3>6
  <2> QED
    BY <1>1, <1>2, <2>1
<1>5. q = SyncSupports(mid, plan)
  BY <1>4 DEF PersistPlan
<1>6. mid.pages = p /\ mid.heads = db.heads /\ mid.supports = db.supports /\ mid.listed = l
  BY <1>3
<1>7. PICK now : now = Kept(db, plan) \cup Gained(db, plan)
  OBVIOUS
<1>8. PICK hs : hs = (db.heads \cup Live(db, plan)) \ Bare(db, plan)
  OBVIOUS
<1>9. q = [mid EXCEPT !.supports = now, !.heads = hs]
  BY <1>1, <1>5, <1>6, <1>7, <1>8 DEF SyncSupports, Kept, Gained, Live, Bare
<1>10. q = [pages |-> p, heads |-> hs, supports |-> now, listed |-> l]
  BY <1>3, <1>9
<1>11. IsDb(q) /\ q.pages = p /\ q.heads = hs /\ q.supports = now /\ q.listed = l
  BY <1>10 DEF IsDb
<1> QED
  BY <1>1, <1>2, <1>7, <1>8, <1>11

LEMMA OutdatedIs ==
  ASSUME NEW l, IsListing(l), NEW old, NEW new
  PROVE  /\ IsListing(Outdated(l, old, new))
         /\ Outdated(l, old, new).all = l.all /\ Outdated(l, old, new).current \subseteq l.current
<1>1. PICK c : c = l.current \ Changed(old, new)
  OBVIOUS
<1>2. Outdated(l, old, new) = [l EXCEPT !.current = c]
  BY <1>1 DEF Outdated
<1> QED
  BY <1>1, <1>2 DEF IsListing

LEMMA ListIs ==
  ASSUME NEW l, IsListing(l), NEW old, NEW new, DOMAIN new \subseteq Keys
  PROVE  IsListing(List(l, new, old)) /\ DOMAIN new \subseteq List(l, new, old).all
<1>1. PICK c : c = Outdated(l, old, new).current \cup (DOMAIN new \ l.all)
  OBVIOUS
<1>2. List(l, new, old) = [all |-> l.all \cup DOMAIN new, current |-> c]
  BY <1>1 DEF List
<1>3. c \subseteq l.all \cup DOMAIN new
  BY <1>1, OutdatedIs DEF IsListing
<1> QED
  BY <1>2, <1>3 DEF IsListing

LEMMA PersistKeeps ==
  ASSUME NEW db, NEW plan, SoundDb(db), IsPlan(plan), NEW q, q = PersistPlan(db, plan)
  PROVE  SoundDb(q) /\ q.pages = Over(plan.pages, db.pages) /\ DOMAIN q.pages \subseteq q.listed.all
<1>1. /\ IsDb(q)
      /\ q.pages = Over(plan.pages, db.pages)
      /\ q.listed = List(db.listed, q.pages, db.pages)
      /\ q.supports = Kept(db, plan) \cup Gained(db, plan)
      /\ q.heads = (db.heads \cup Live(db, plan)) \ Bare(db, plan)
  BY PersistIs DEF SoundDb
<1>2. IsWiki(q.pages)
  BY <1>1, OverlayIsWiki DEF SoundDb, IsPlan
<1>3. IsListing(q.listed) /\ DOMAIN q.pages \subseteq q.listed.all
  <2>1. DOMAIN q.pages \subseteq Keys /\ IsListing(db.listed)
    BY <1>2 DEF IsWiki, SoundDb
  <2> QED
    BY <1>1, <2>1, ListIs
<1>4. \A ab \in q.heads : IsLink(ab) /\ {ab[1], ab[2]} \subseteq DOMAIN q.pages
  <2>1. DOMAIN db.pages \subseteq DOMAIN q.pages
    BY <1>1 DEF Over
  <2>2. \A ab \in db.heads : IsLink(ab) /\ {ab[1], ab[2]} \subseteq DOMAIN db.pages
    BY DEF SoundDb, Relations
  <2>3. \A ab \in Live(db, plan) : IsLink(ab) /\ {ab[1], ab[2]} \subseteq DOMAIN q.pages
    BY <1>1 DEF Live, IsPlan
  <2> QED
    BY <1>1, <2>1, <2>2, <2>3
<1>5. ASSUME NEW u \in q.supports PROVE u \in q.heads \X Inputs
  <2>1. u[1] \notin Bare(db, plan)
    BY <1>1 DEF Bare
  <2>2. CASE u \in Kept(db, plan)
    <3>1. u \in db.heads \X Inputs
      BY <2>2 DEF SoundDb, Relations, Kept
    <3> QED
      BY <1>1, <2>1, <3>1
  <2>3. CASE u \in Gained(db, plan)
    <3>1. u \in Live(db, plan) \X Inputs
      BY <2>3 DEF Gained, IsPlan
    <3> QED
      BY <1>1, <2>1, <3>1
  <2> QED
    BY <1>1, <2>2, <2>3
<1> QED
  BY <1>1, <1>2, <1>3, <1>4, <1>5 DEF SoundDb, Relations

IsStoring(f, base, plans, last) ==
  f = [n \in 0 .. last |-> IF n = 0 THEN base ELSE PersistPlan(f[n - 1], plans[n])]

LEMMA StoringExists ==
  ASSUME NEW base, NEW plans, NEW last \in Nat PROVE \E f : IsStoring(f, base, plans, last)
<1> DEFINE Is(f, m) == IsStoring(f, base, plans, m)
           T == {m \in Nat : \A f : ~Is(f, m)}
<1>1. SUFFICES ASSUME T # {} PROVE FALSE
  OBVIOUS
<1>2. PICK m \in T : \A y \in T : m <= y
  BY <1>1, Least
<1>3. m # 0
  <2>1. Is([n \in 0 .. 0 |-> base], 0)
    BY DEF IsStoring
  <2> QED
    BY <1>2, <2>1
<1>4. m \in Nat /\ m - 1 \in Nat /\ ~(m <= m - 1)
  BY <1>2, <1>3
<1>5. m - 1 \notin T
  BY <1>2, <1>4
<1>6. PICK f : Is(f, m - 1)
  BY <1>4, <1>5
<1> DEFINE g == [n \in 0 .. m |-> IF n = m THEN PersistPlan(f[m - 1], plans[m]) ELSE f[n]]
<1>7. Is(g, m)
  <2>1. \A n \in 0 .. m - 1 : g[n] = f[n]
    BY <1>4
  <2>2. \A n \in 0 .. m - 1 : f[n] = IF n = 0 THEN base ELSE PersistPlan(f[n - 1], plans[n])
    BY <1>6 DEF IsStoring
  <2>3. ASSUME NEW n \in 0 .. m
        PROVE  g[n] = IF n = 0 THEN base ELSE PersistPlan(g[n - 1], plans[n])
    <3>1. CASE n = m
      BY <1>3, <1>4, <2>1, <3>1
    <3>2. CASE n # m
      <4>1. n \in 0 .. m - 1 /\ (n # 0 => n - 1 \in 0 .. m - 1)
        BY <1>4, <3>2
      <4>2. g[n] = f[n] /\ (n # 0 => g[n - 1] = f[n - 1])
        BY <2>1, <4>1
      <4> QED
        BY <2>2, <4>1, <4>2
    <3> QED
      BY <3>1, <3>2
  <2> HIDE DEF g
  <2>4. g = [n \in 0 .. m |-> g[n]]
    BY DEF g
  <2> QED
    BY <2>3, <2>4 DEF IsStoring
<1> QED
  BY <1>2, <1>7

BaseOf(j) ==
  LET db == [pages |-> docs, heads |-> heads, supports |-> supports, listed |-> listing[j]]
  IN IF TaskOf[j].kind = "rebuild" THEN Superseded(db) ELSE db

LEMMA StoredIs ==
  ASSUME NEW j, Len(task[j].staged) \in Nat
  PROVE  \E f : /\ f[0] = BaseOf(j)
                /\ \A n \in 1 .. Len(task[j].staged) : f[n] = PersistPlan(f[n - 1], task[j].staged[n])
                /\ f[Len(task[j].staged)] = StoredBy(j)
<1> DEFINE plans == task[j].staged
<1>1. StoredBy(j) = (CHOOSE f : IsStoring(f, BaseOf(j), plans, Len(plans)))[Len(plans)]
  BY DEF StoredBy, IsStoring, BaseOf
<1>2. \E f : IsStoring(f, BaseOf(j), plans, Len(plans))
  BY StoringExists
<1>3. PICK f : IsStoring(f, BaseOf(j), plans, Len(plans)) /\ StoredBy(j) = f[Len(plans)]
  BY <1>1, <1>2
<1>4. f[0] = BaseOf(j) /\ \A n \in 1 .. Len(plans) : f[n] = PersistPlan(f[n - 1], plans[n])
  BY <1>3 DEF IsStoring
<1> QED
  BY <1>3, <1>4

-----------------------------------------------------------------------------
(* The invariant of builds, rebuilds and MCP writes.                       *)

Pcs == {"idle", "read", "resolved", "planned", "failed", "stored", "done"}
TaskRows(X) ==
  [pc : Pcs, pages : X, heads : X, rest : X, found : X, nodes : X, relations : X, staged : X,
   fresh : BOOLEAN, rerun : BOOLEAN]
\* The relations of a job that has not failed are well formed: what an MCP write brought
\* along is only seen to by the gate.
HasSound(r) ==
  /\ \A ab \in r.heads : IsLink(ab)
  /\ \A i \in DOMAIN r.staged : IsPlan(r.staged[i])
IsTask(r) ==
  /\ \E X : r \in TaskRows(X)
  /\ r.rest \in Seq(Inputs)
  /\ r.nodes \subseteq Node
  /\ IsWiki(r.pages)
  /\ \E S : r.staged \in Seq(S)
  /\ r.pc # "failed" => HasSound(r)

\* What the step a job waits for relies on.
MayGoOn(r) ==
  /\ r.pc \in {"read", "resolved"} => r.rest # <<>>
  /\ r.pc = "resolved" => SettledAs(r.nodes, r.pages, r.found)
  /\ r.pc = "failed" /\ r.nodes # {} => Unfit(r.nodes, r.pages, r.relations)
  /\ r.pc = "planned" => r.rest = <<>> /\ PassesGate(r.pages, r.heads)

\* The plans staged so far, laid on a base one after the other, make P.
Makes(base, plans, P) ==
  \E V : /\ V[0] = base
         /\ \A i \in 1 .. Len(plans) : V[i] = Over(plans[i].pages, V[i - 1])
         /\ V[Len(plans)] = P

\* A rebuild, and a job beside which nobody wrote, knows the pages its plans will make;
\* the latter only adds to the pages D and the relations H there are.
InHand(r) == r.pc \in {"read", "resolved", "planned", "failed"}
Rebuilds(j) == TaskOf[j].kind = "rebuild"
Foresees(j, r, D, H) ==
  /\ ~Rebuilds(j) => Len(r.staged) + Len(r.rest) = 1
  /\ Rebuilds(j) => Makes(NoDocs, r.staged, r.pages)
  /\ ~Rebuilds(j) /\ r.fresh = TRUE =>
       /\ Makes(D, r.staged, r.pages)
       /\ Adds(D, r.pages)
       /\ r.staged = <<>> => r.heads = H
       /\ r.staged # <<>> => r.staged[1].heads = H \cup r.staged[1].observed
CoversAll(r, P) == \A i \in DOMAIN r.staged : Covered(r.staged[i].found, r.staged[i].source, P)

TaskInv(j, r, D, H) ==
  /\ IsTask(r)
  /\ MayGoOn(r)
  /\ InHand(r) => Foresees(j, r, D, H) /\ CoversAll(r, r.pages)
  /\ r.pc = "stored" /\ r.fresh = TRUE => CoversAll(r, D)

StoredInv ==
  /\ IsWiki(docs) /\ Relations(docs, heads, supports)
  /\ listing = [j \in Tasks |-> listing[j]] /\ \A j \in Tasks : IsListing(listing[j])
  /\ active \in Tasks \cup {Nothing}
BuildInv ==
  /\ StoredInv
  /\ clean \in BOOLEAN
  /\ SurfacesStayUnique
  /\ SnapshotListsEveryPage
  /\ task = [j \in Tasks |-> task[j]]
  /\ \A j \in Tasks : TaskInv(j, task[j], docs, heads)

LEMMA NothingIsWiki == IsWiki(NoDocs) /\ DOMAIN NoDocs = {}
BY DEF IsWiki, NoDocs
LEMMA NoListingIsListing == IsListing(NoListing)
BY DEF IsListing, NoListing

LEMMA TaskRowsGrow == ASSUME NEW X, NEW Y, X \subseteq Y, NEW r \in TaskRows(X) PROVE r \in TaskRows(Y)
BY DEF TaskRows

LEMMA IdleIs ==
  /\ IdleTask \in TaskRows({{}, <<>>, NoDocs})
  /\ IdleTask.pc = "idle" /\ IdleTask.pages = NoDocs /\ IdleTask.heads = {} /\ IdleTask.rest = <<>>
  /\ IdleTask.nodes = {} /\ IdleTask.relations = {} /\ IdleTask.staged = <<>>
<1>1. IdleTask \in TaskRows({{}, <<>>, NoDocs})
  BY DEF IdleTask, TaskRows, Pcs
<1>2. /\ IdleTask.pc = "idle" /\ IdleTask.pages = NoDocs /\ IdleTask.heads = {} /\ IdleTask.rest = <<>>
      /\ IdleTask.nodes = {} /\ IdleTask.relations = {} /\ IdleTask.staged = <<>>
  BY DEF IdleTask
<1> QED
  BY <1>1, <1>2

LEMMA IdleInv ==
  ASSUME NEW j, NEW D, NEW H, NEW r, \E X : r \in TaskRows(X), r.pc \in {"idle", "done"}, r.pages = NoDocs,
         r.heads = {}, r.rest = <<>>, r.nodes = {}, r.relations = {}, r.staged = <<>>
  PROVE  TaskInv(j, r, D, H)
<1>2. <<>> \in Seq({}) /\ <<>> \in Seq(Inputs) /\ DOMAIN <<>> = {}
  OBVIOUS
<1>3. IsTask(r)
  BY <1>2, NothingIsWiki DEF IsTask, HasSound
<1> QED
  BY <1>3 DEF TaskInv, MayGoOn, InHand

LEMMA BuildStarts == ASSUME BuildIsSound, BuildInit PROVE BuildInv
<1>1. \A j \in Tasks : TaskInv(j, task[j], docs, heads)
  <2>2. \A j \in Tasks : task[j] = IdleTask
    BY DEF BuildInit
  <2> QED
    BY <2>2, IdleIs, IdleInv
<1>2. StoredInv
  BY NothingIsWiki, NoListingIsListing DEF BuildInit, StoredInv, Relations
<1>3. SurfacesStayUnique /\ SnapshotListsEveryPage
  BY NothingIsWiki DEF BuildInit, SurfacesStayUnique, SnapshotListsEveryPage
<1> QED
  BY <1>1, <1>2, <1>3 DEF BuildInv, BuildInit

LEMMA OneTaskKeeps ==
  ASSUME BuildInv, NEW j \in Tasks, NEW q, task' = [task EXCEPT ![j] = q],
         UNCHANGED <<docs, heads, supports, listing, active, clean>>, TaskInv(j, q, docs, heads)
  PROVE  BuildInv'
<1>1. \A i \in Tasks : task'[i] = IF i = j THEN q ELSE task[i]
  BY DEF BuildInv
<1>2. \A i \in Tasks : TaskInv(i, task'[i], docs', heads')
  <2>1. \A i \in Tasks : TaskInv(i, task'[i], docs, heads)
    BY <1>1 DEF BuildInv
  <2> QED
    BY <2>1
<1>3. StoredInv' /\ clean' \in BOOLEAN /\ SurfacesStayUnique' /\ SnapshotListsEveryPage'
  BY DEF BuildInv, StoredInv, SurfacesStayUnique, SnapshotListsEveryPage
<1>4. task' = [i \in Tasks |-> task'[i]]
  BY DEF BuildInv
<1> QED
  BY <1>2, <1>3, <1>4 DEF BuildInv

LEMMA FinishKeeps == ASSUME BuildInv, NEW j \in Tasks, Finish(j) PROVE BuildInv'
<1>1. PICK q : q = [IdleTask EXCEPT !.pc = "done"]
  OBVIOUS
<1>2. /\ q \in TaskRows({{}, <<>>, NoDocs}) /\ q.pc = "done" /\ q.pages = NoDocs /\ q.heads = {} /\ q.rest = <<>>
      /\ q.nodes = {} /\ q.relations = {} /\ q.staged = <<>>
  BY <1>1, IdleIs DEF TaskRows, Pcs
<1>3. TaskInv(j, q, docs, heads)
  BY <1>2, IdleInv
<1> QED
  BY <1>1, <1>3, OneTaskKeeps DEF Finish

LEMMA AgainKeeps == ASSUME BuildInv, NEW j \in Tasks, Again(j) PROVE BuildInv'
<1>1. PICK q : q = [IdleTask EXCEPT !.rerun = task[j].rerun \/ task[j].pc = "stored"]
  OBVIOUS
<1>2. /\ q \in TaskRows({{}, <<>>, NoDocs}) /\ q.pc = "idle" /\ q.pages = NoDocs /\ q.heads = {} /\ q.rest = <<>>
      /\ q.nodes = {} /\ q.relations = {} /\ q.staged = <<>>
  <2>1. PICK b \in BOOLEAN : b = (task[j].rerun \/ task[j].pc = "stored")
    OBVIOUS
  <2>2. q = [IdleTask EXCEPT !.rerun = b]
    BY <1>1, <2>1
  <2> QED
    BY <2>2, IdleIs DEF TaskRows, Pcs
<1>3. TaskInv(j, q, docs, heads)
  BY <1>2, IdleInv
<1> QED
  BY <1>1, <1>3, OneTaskKeeps DEF Again

LEMMA MakesNothing == ASSUME NEW base PROVE Makes(base, <<>>, base)
<1> DEFINE V == [i \in {0} |-> base]
<1>1. V[0] = base /\ Len(<<>>) = 0 /\ 1 .. 0 = {}
  OBVIOUS
<1> HIDE DEF V
<1> QED
  BY <1>1 DEF Makes

LEMMA ReadKeeps == ASSUME BuildIsSound, BuildInv, NEW j \in Tasks, Read(j) PROVE BuildInv'
<1> DEFINE P == IF Rebuilds(j) THEN NoDocs ELSE docs
           H == IF Rebuilds(j) THEN {} ELSE heads
<1>1. PICK q : q = [IdleTask EXCEPT !.pc = "read", !.rest = TaskOf[j].sources, !.fresh = TRUE,
                                    !.rerun = task[j].rerun, !.pages = P, !.heads = H]
  OBVIOUS
<1>2. task' = [task EXCEPT ![j] = q]
  BY <1>1 DEF Read, Rebuilds
<1> HIDE DEF P, H
<1>3. /\ \E X : q \in TaskRows(X)
      /\ q.pc = "read" /\ q.pages = P /\ q.heads = H /\ q.rest = TaskOf[j].sources /\ q.nodes = {}
      /\ q.relations = {} /\ q.staged = <<>> /\ q.fresh = TRUE
  <2>1. PICK X : X = {{}, <<>>, NoDocs, P, H, TaskOf[j].sources}
    OBVIOUS
  <2>2. IdleTask \in TaskRows(X)
    BY <2>1, IdleIs, TaskRowsGrow
  <2>3. task[j].rerun \in BOOLEAN
    BY DEF BuildInv, TaskInv, IsTask, TaskRows
  <2>4. P \in X /\ H \in X /\ TaskOf[j].sources \in X
    BY <2>1
  <2>5. q \in TaskRows(X)
    BY <1>1, <2>2, <2>3, <2>4 DEF TaskRows, Pcs
  <2>6. /\ q.pc = "read" /\ q.pages = P /\ q.heads = H /\ q.rest = TaskOf[j].sources
        /\ q.nodes = IdleTask.nodes /\ q.relations = IdleTask.relations /\ q.staged = IdleTask.staged
    BY <1>1, <2>2 DEF TaskRows
  <2>7. q.fresh = TRUE
    BY <1>1, <2>2 DEF TaskRows
  <2> QED
    BY <2>5, <2>6, <2>7, IdleIs
<1>4. IsWiki(P) /\ \A ab \in H : IsLink(ab)
  BY NothingIsWiki DEF BuildInv, StoredInv, Relations, P, H
<1>5. TaskOf[j].sources \in Seq(Inputs) /\ TaskOf[j].sources # <<>> /\ (~Rebuilds(j) => Len(TaskOf[j].sources) = 1)
  BY DEF BuildIsSound, TasksAreWellFormed, Rebuilds
<1>6. <<>> \in Seq({}) /\ DOMAIN <<>> = {} /\ Len(<<>>) = 0
  OBVIOUS
<1>7. IsTask(q)
  BY <1>3, <1>4, <1>5, <1>6 DEF IsTask, HasSound
<1>8. Foresees(j, q, docs, heads)
  <2>1. Makes(P, q.staged, q.pages)
    BY <1>3, MakesNothing
  <2>2. Adds(docs, docs)
    BY DEF Adds
  <2>3. ~Rebuilds(j) => Len(q.staged) + Len(q.rest) = 1
    BY <1>3, <1>5, <1>6
  <2> QED
    BY <1>3, <2>1, <2>2, <2>3 DEF Foresees, P, H
<1>9. TaskInv(j, q, docs, heads)
  BY <1>3, <1>5, <1>6, <1>7, <1>8 DEF TaskInv, MayGoOn, CoversAll
<1>10. UNCHANGED <<docs, heads, supports, listing, active, clean>>
  BY DEF Read
<1> QED
  BY <1>2, <1>9, <1>10, OneTaskKeeps

LEMMA AnswerIsList == ASSUME NEW list \in Seq(Node) PROVE IsList(list)
<1>1. DOMAIN list = 1 .. Len(list) /\ Len(list) \in Nat
  OBVIOUS
<1>2. IsFiniteSet(1 .. Len(list))
  BY <1>1, FS_Interval
<1>3. \A i \in DOMAIN list : i \in Nat /\ list[i] \in Node
  BY <1>1
<1> QED
  BY <1>1, <1>2, <1>3 DEF IsList

LEMMA MergedIsList == ASSUME NEW answer \in Seq(Node) PROVE IsList(MergeChunks(answer))
<1> DEFINE L == MergeChunks(answer)
<1>1. IsList(answer)
  BY AnswerIsList
<1>2. DOMAIN L \in SUBSET (DOMAIN answer)
  BY DEF MergeChunks
<1>3. \A i \in DOMAIN L : L[i] = [answer[i] EXCEPT !.aliases = UNION {answer[k].aliases : k \in SameKey(answer, i)},
                                                 !.match = PageNamed(answer, SameKey(answer, i))]
  BY DEF MergeChunks
<1>4. ASSUME NEW i \in DOMAIN L PROVE L[i] \in Node
  <2>1. PICK A : A = UNION {answer[k].aliases : k \in SameKey(answer, i)}
    OBVIOUS
  <2>2. A \subseteq Names
    BY <1>1, <2>1 DEF IsList, SameKey, Node
  <2>3. answer[i] \in Node
    BY <1>1, <1>2 DEF IsList
  <2>4. PICK m : m = PageNamed(answer, SameKey(answer, i))
    OBVIOUS
  <2>5. m \in Slugs \cup {Nothing}
    <3>1. \A x \in SameKey(answer, i) : answer[x].match \in Slugs \cup {Nothing}
      BY <1>1 DEF IsList, SameKey, Node
    <3> QED
      BY <2>4, <3>1 DEF PageNamed
  <2> QED
    BY <1>3, <2>1, <2>2, <2>3, <2>4, <2>5 DEF Node
<1> HIDE DEF L
<1>5. IsFiniteSet(DOMAIN L) /\ DOMAIN L \subseteq Nat
  BY <1>1, <1>2, FS_Subset DEF IsList
<1>6. IsList(L)
  BY <1>4, <1>5 DEF IsList
<1> QED
  BY <1>6 DEF L

LEMMA PlanKeysAreKeys ==
  ASSUME NEW view, IsWiki(view), NEW nodes, nodes \subseteq Node, NamesAreWellFormed
  PROVE  PlanKeys(nodes, view) \cup DOMAIN view \subseteq Keys
<1>1. PlanKeys(nodes, view) \subseteq Keys
  BY PlanKeyIs DEF PlanKeys
<1> QED
  BY <1>1 DEF IsWiki

\* Ends are pages, of whatever kinds and related in whatever way.
Joins(ab) == \E k, l \in Keys : \E t : ab = <<k, l, t>>

LEMMA AuthoredAre ==
  ASSUME NEW relations, NEW nodes, NEW view, IsWiki(view), nodes \subseteq Node, NamesAreWellFormed,
         NEW ab \in AuthoredLinks(relations, nodes, view)
  PROVE  Joins(ab)
<1>1. PICK rel \in relations : ab \in EndKeys(nodes, view, rel.from) \X EndKeys(nodes, view, rel.to) \X {rel.type}
  BY DEF AuthoredLinks
<1>2. \A e : EndKeys(nodes, view, e) \subseteq Keys
  <2>1. TAKE e
  <2>2. EndKeys(nodes, view, e) \subseteq PlanKeys(nodes, view) \cup DOMAIN view
    BY DEF EndKeys, PlanKeys
  <2> QED
    BY <2>2, PlanKeysAreKeys
<1>3. \E k \in EndKeys(nodes, view, rel.from), l \in EndKeys(nodes, view, rel.to) : ab = <<k, l, rel.type>>
  BY <1>1
<1> QED
  BY <1>2, <1>3 DEF Joins

LEMMA IdentifyKeeps ==
  ASSUME BuildIsSound, BuildInv, NEW j \in Tasks, task[j].pc = "read", NEW list, IsList(list), NEW relations,
         Identify(j, list, relations)
  PROVE  BuildInv'
<1> DEFINE r == task[j]
           view == r.pages
<1>1. PICK decision : /\ Decided(list, view, decision)
                      /\ task' = [task EXCEPT ![j] =
                           [@ EXCEPT !.nodes = Resolved(list, view, Groups(list, view), decision),
                                     !.found = UNION {NodeSurfaces(list[i]) : i \in DOMAIN list},
                                     !.relations = RewrittenRelations(relations, list, decision),
                                     !.pc = IF PassesIdentity(Resolved(list, view, Groups(list, view), decision), view,
                                                              RewrittenRelations(relations, list, decision))
                                            THEN "resolved" ELSE "failed"]]
  BY DEF Identify, Decided
<1>2. PICK nodes : nodes = Resolved(list, view, Groups(list, view), decision)
  OBVIOUS
<1>3. PICK found : found = UNION {NodeSurfaces(list[i]) : i \in DOMAIN list}
  OBVIOUS
<1>4. PICK brought : brought = RewrittenRelations(relations, list, decision)
  OBVIOUS
<1>5. PICK pc : pc = IF PassesIdentity(nodes, view, brought) THEN "resolved" ELSE "failed"
  OBVIOUS
<1>6. PICK q : q = [r EXCEPT !.nodes = nodes, !.found = found, !.relations = brought, !.pc = pc]
  OBVIOUS
<1>7. task' = [task EXCEPT ![j] = q]
  BY <1>1, <1>2, <1>3, <1>4, <1>5, <1>6
<1>8. TaskInv(j, r, docs, heads) /\ IsTask(r) /\ r.pc = "read"
  BY DEF BuildInv, TaskInv
<1> HIDE DEF r
<1>9. IsWiki(view) /\ NamesAreWellFormed
  BY <1>8 DEF IsTask, BuildIsSound
<1>10. /\ nodes \subseteq Node
       /\ PassesIdentity(nodes, view, brought) => SettledAs(nodes, view, found)
       /\ ~PassesIdentity(nodes, view, brought) => Unfit(nodes, view, brought)
  BY <1>1, <1>2, <1>3, <1>9, ResolutionIs
<1>11. /\ \E X : q \in TaskRows(X)
       /\ q.pc = pc /\ q.pages = r.pages /\ q.heads = r.heads /\ q.rest = r.rest /\ q.found = found
       /\ q.nodes = nodes /\ q.relations = brought /\ q.staged = r.staged
       /\ q.fresh = r.fresh
  <2>1. PICK Y : r \in TaskRows(Y)
    BY <1>8 DEF IsTask
  <2>2. PICK X : X = Y \cup {nodes, found, brought}
    OBVIOUS
  <2>3. r \in TaskRows(X)
    BY <2>1, <2>2, TaskRowsGrow
  <2>4. nodes \in X /\ found \in X /\ brought \in X /\ pc \in Pcs
    BY <1>5, <2>2 DEF Pcs
  <2>5. q \in TaskRows(X)
    BY <1>6, <2>3, <2>4 DEF TaskRows
  <2>6. /\ q.pc = pc /\ q.pages = r.pages /\ q.heads = r.heads /\ q.rest = r.rest /\ q.found = found
        /\ q.nodes = nodes /\ q.relations = brought /\ q.staged = r.staged
    BY <1>6, <2>3 DEF TaskRows
  <2>7. q.fresh = r.fresh
    BY <1>6, <2>3 DEF TaskRows
  <2> QED
    BY <2>5, <2>6, <2>7
<1>12. IsTask(q)
  BY <1>8, <1>10, <1>11 DEF IsTask, HasSound
<1>13. MayGoOn(q)
  BY <1>5, <1>8, <1>10, <1>11 DEF TaskInv, MayGoOn
<1>14. Foresees(j, q, docs, heads) /\ CoversAll(q, q.pages)
  <2>1. Foresees(j, r, docs, heads) /\ CoversAll(r, r.pages)
    BY <1>8 DEF TaskInv, InHand
  <2> QED
    BY <1>11, <2>1 DEF Foresees, CoversAll
<1>15. q.pc # "stored"
  BY <1>5, <1>11
<1>16. TaskInv(j, q, docs, heads)
  BY <1>12, <1>13, <1>14, <1>15 DEF TaskInv
<1>17. UNCHANGED <<docs, heads, supports, listing, active, clean>>
  BY DEF Identify
<1> QED
  BY <1>7, <1>16, <1>17, OneTaskKeeps

LEMMA ClassifyKeeps == ASSUME BuildIsSound, BuildInv, NEW j \in Tasks, Classify(j) PROVE BuildInv'
<1>1. task[j].pc = "read" /\ task[j].rest \in Seq(Inputs) /\ task[j].rest # <<>>
  BY DEF Classify, BuildInv, TaskInv, IsTask, MayGoOn
<1>2. Head(task[j].rest) \in Inputs
  BY <1>1
<1>3. PICK answer \in AnswersOf[Head(task[j].rest)] : Identify(j, MergeChunks(answer), <<>>)
  BY DEF Classify
<1>4. answer \in Seq(Node)
  BY <1>2, <1>3 DEF BuildIsSound, AnswersAreWellFormed
<1> QED
  BY <1>1, <1>3, <1>4, MergedIsList, IdentifyKeeps

LEMMA SubmitKeeps == ASSUME BuildIsSound, BuildInv, NEW j \in Tasks, SubmitAuthored(j) PROVE BuildInv'
<1>1. task[j].pc = "read" /\ task[j].rest \in Seq(Inputs) /\ task[j].rest # <<>>
  BY DEF SubmitAuthored, BuildInv, TaskInv, IsTask, MayGoOn
<1>2. Head(task[j].rest) \in Inputs
  BY <1>1
<1>3. PICK a \in AuthoredOf[Head(task[j].rest)] : Identify(j, a.nodes, a.relations)
  BY DEF SubmitAuthored
<1>4. a.nodes \in Seq(Node)
  BY <1>2, <1>3 DEF BuildIsSound, AnswersAreWellFormed
<1> QED
  BY <1>1, <1>3, <1>4, AnswerIsList, IdentifyKeeps

-----------------------------------------------------------------------------
(* The plan of a source is staged.                                         *)

LEMMA AppendIs ==
  ASSUME NEW S, NEW s \in Seq(S), NEW e, NEW a, a = Append(s, e)
  PROVE  /\ a \in Seq(S \cup {e}) /\ Len(s) \in Nat /\ Len(a) = Len(s) + 1
         /\ DOMAIN a = 1 .. Len(s) + 1 /\ DOMAIN s = 1 .. Len(s)
         /\ \A i \in DOMAIN s : a[i] = s[i]
         /\ a[Len(s) + 1] = e
<1>1. s \in Seq(S \cup {e}) /\ e \in S \cup {e}
  OBVIOUS
<1> QED
  BY <1>1

LEMMA MakesOneMore ==
  ASSUME NEW base, NEW S, NEW plans \in Seq(S), NEW P, Makes(base, plans, P), NEW plan
  PROVE  Makes(base, Append(plans, plan), Over(plan.pages, P))
<1>1. PICK V : /\ V[0] = base
               /\ \A i \in 1 .. Len(plans) : V[i] = Over(plans[i].pages, V[i - 1])
               /\ V[Len(plans)] = P
  BY DEF Makes
<1>2. PICK n \in Nat : n = Len(plans)
  OBVIOUS
<1>3. PICK a : a = Append(plans, plan)
  OBVIOUS
<1>4. Len(a) = n + 1 /\ a[n + 1] = plan /\ \A i \in 1 .. n : a[i] = plans[i]
  BY <1>2, <1>3, AppendIs
<1> DEFINE W == [i \in 0 .. n + 1 |-> IF i = n + 1 THEN Over(plan.pages, P) ELSE V[i]]
<1>5. /\ W[0] = V[0] /\ W[n + 1] = Over(plan.pages, P)
      /\ \A i \in 0 .. n : W[i] = V[i]
  BY <1>2
<1> HIDE DEF W
<1>6. ASSUME NEW i \in 1 .. n + 1 PROVE W[i] = Over(a[i].pages, W[i - 1])
  <2>1. CASE i = n + 1
    <3>1. i - 1 \in 0 .. n /\ i - 1 = n
      BY <1>2, <2>1
    <3>2. W[i - 1] = P
      BY <1>1, <1>2, <1>5, <3>1
    <3> QED
      BY <1>4, <1>5, <2>1, <3>2
  <2>2. CASE i # n + 1
    <3>1. i \in 1 .. n /\ i \in 0 .. n /\ i - 1 \in 0 .. n
      BY <1>2, <2>2
    <3>2. V[i] = Over(plans[i].pages, V[i - 1])
      BY <1>1, <1>2, <3>1
    <3> QED
      BY <1>4, <1>5, <3>1, <3>2
  <2> QED
    BY <2>1, <2>2
<1>7. W[0] = base /\ (\A i \in 1 .. Len(a) : W[i] = Over(a[i].pages, W[i - 1])) /\ W[Len(a)] = Over(plan.pages, P)
  BY <1>1, <1>4, <1>5, <1>6
<1> QED
  BY <1>3, <1>7 DEF Makes

\* q is r with one more plan staged.
HasStaged(r, plan, q) ==
  /\ \E X : q \in TaskRows(X)
  /\ q.pages = Over(plan.pages, r.pages) /\ q.heads = plan.heads /\ q.rest = Tail(r.rest) /\ q.nodes = {}
  /\ q.staged = Append(r.staged, plan)
  /\ q.fresh = r.fresh
  /\ q.pc = AfterPlan(q) /\ q.pc \in {"read", "planned", "failed"}

LEMMA StagedIs ==
  ASSUME NEW j, NEW r, IsTask(r), NEW joined, NEW q, q = Staged(j, r, joined)
  PROVE  HasStaged(r, PlanOf(r, Head(r.rest), joined), q)
<1>0. PICK plan : plan = PlanOf(r, Head(r.rest), joined)
  OBVIOUS
<1>1. PICK Y : r \in TaskRows(Y)
  BY DEF IsTask
<1>2. PICK ss : ss = Append(r.staged, plan)
  OBVIOUS
<1>3. PICK ts : ts = Tail(r.rest)
  OBVIOUS
<1>4. PICK P : P = Over(plan.pages, r.pages)
  OBVIOUS
<1>5. PICK H : H = plan.heads
  OBVIOUS
<1>6. PICK X : X = Y \cup {ss, ts, {}, P, H}
  OBVIOUS
<1>7. r \in TaskRows(X)
  BY <1>1, <1>6, TaskRowsGrow
<1>8. PICK next : next = [r EXCEPT !.staged = ss, !.rest = ts, !.nodes = {}, !.found = {}, !.relations = {}, !.pages = P, !.heads = H]
  OBVIOUS
<1>9. q = [next EXCEPT !.pc = AfterPlan(next)]
  BY <1>0, <1>2, <1>3, <1>4, <1>5, <1>8 DEF Staged
<1>10. ss \in X /\ ts \in X /\ {} \in X /\ P \in X /\ H \in X
  BY <1>6
<1>11. next \in TaskRows(X)
  BY <1>7, <1>8, <1>10 DEF TaskRows
<1>12. next.pages = P /\ next.heads = H /\ next.rest = ts /\ next.nodes = {} /\ next.staged = ss
  BY <1>7, <1>8 DEF TaskRows
<1>13. next.fresh = r.fresh
  BY <1>7, <1>8 DEF TaskRows
<1>14. AfterPlan(next) \in {"read", "planned", "failed"}
  BY DEF AfterPlan
<1>15. PICK pc : pc = AfterPlan(next)
  OBVIOUS
<1>16. q \in TaskRows(X)
  BY <1>9, <1>11, <1>14, <1>15 DEF TaskRows, Pcs
<1>17. /\ q.pages = next.pages /\ q.heads = next.heads /\ q.rest = next.rest /\ q.nodes = next.nodes
       /\ q.staged = next.staged /\ q.pc = pc
  BY <1>9, <1>11, <1>15 DEF TaskRows
<1>18. q.fresh = next.fresh
  BY <1>9, <1>11 DEF TaskRows
<1>19. AfterPlan(q) = AfterPlan(next)
  BY <1>17 DEF AfterPlan
<1> QED
  BY <1>0, <1>2, <1>3, <1>4, <1>5, <1>12, <1>13, <1>14, <1>15, <1>16, <1>17, <1>18, <1>19 DEF HasStaged

LEMMA StagedKeeps ==
  ASSUME BuildIsSound, NEW j \in Tasks, NEW D, NEW H, NEW r, TaskInv(j, r, D, H), r.pc = "resolved",
         NEW joined, \A ab \in joined : Joins(ab) /\ (Rebuilds(j) => KindPairAllowed(ab[1], ab[2], ab[3])),
         NEW q, q = Staged(j, r, joined)
  PROVE  TaskInv(j, q, D, H)
<1>1. PICK s : s = Head(r.rest)
  OBVIOUS
<1>2. PICK own : own = {ab \in joined : ab[1].slug # ab[2].slug}
  OBVIOUS
<1>3. PICK plan : plan = PlanOf(r, s, joined)
  OBVIOUS
<1>4. /\ plan.source = s /\ plan.pages = PlannedPages(r.nodes, r.pages, s) /\ plan.observed = own
      /\ plan.heads = r.heads \cup own /\ plan.found = r.found
  BY <1>2, <1>3 DEF PlanOf
<1>5. /\ IsTask(r) /\ MayGoOn(r) /\ Foresees(j, r, D, H) /\ CoversAll(r, r.pages)
  BY DEF TaskInv, InHand
<1>6. r.rest \in Seq(Inputs) /\ r.rest # <<>> /\ s \in Inputs /\ SettledAs(r.nodes, r.pages, r.found)
      /\ IsWiki(r.pages) /\ r.nodes \subseteq Node
  BY <1>1, <1>5 DEF IsTask, MayGoOn
<1>7. PICK S : r.staged \in Seq(S)
  BY <1>5 DEF IsTask
<1>8. /\ \E X : q \in TaskRows(X)
      /\ q.pages = Over(plan.pages, r.pages) /\ q.heads = plan.heads /\ q.rest = Tail(r.rest) /\ q.nodes = {}
      /\ q.staged = Append(r.staged, plan)
      /\ q.fresh = r.fresh
      /\ q.pc = AfterPlan(q) /\ q.pc \in {"read", "planned", "failed"}
  <2>1. HasStaged(r, PlanOf(r, Head(r.rest), joined), q)
    BY <1>5, StagedIs
  <2> QED
    BY <1>1, <1>3, <2>1 DEF HasStaged
<1>9. IsWiki(plan.pages) /\ Adds(r.pages, q.pages) /\ IsWiki(q.pages)
  BY <1>4, <1>6, <1>8, PlannedIs DEF BuildIsSound
<1>10. Covered(r.found, s, q.pages)
  BY <1>4, <1>6, <1>8, PlannedCovers DEF BuildIsSound
<1>12. PICK n \in Nat : n = Len(r.staged)
  BY <1>7
<1>20. ~Rebuilds(j) => q.rest = <<>> /\ Len(q.rest) = 0 /\ n = 0
  <2>1. PICK m \in Nat : m = Len(r.rest)
    BY <1>6
  <2>2. m > 0 /\ Len(q.rest) = m - 1 /\ q.rest \in Seq(Inputs)
    BY <1>6, <1>8, <2>1
  <2>3. ~Rebuilds(j) => n + m = 1
    BY <1>5, <1>12, <2>1 DEF Foresees
  <2> QED
    BY <2>2, <2>3
<1>11. q.pc # "failed" => \A ab \in plan.heads : IsLink(ab)
  <2>1. SUFFICES ASSUME q.pc # "failed", NEW ab \in own, ab \notin r.heads PROVE IsLink(ab)
    BY <1>4, <1>5 DEF IsTask, HasSound
  <2>2. PICK k \in Keys, l \in Keys : \E t : ab = <<k, l, t>>
    BY <1>2, <2>1 DEF Joins
  <2>3. ab = <<k, l, ab[3]>> /\ k # l
    BY <1>2, <2>1, <2>2
  <2>4. KindPairAllowed(ab[1], ab[2], ab[3])
    <3>1. CASE Rebuilds(j)
      BY <1>2, <2>3, <3>1
    <3>2. CASE ~Rebuilds(j)
      <4>1. q.pc = "planned"
        BY <1>8, <1>20, <2>1, <3>2 DEF AfterPlan
      <4>2. RelationsHold(q.pages, q.heads)
        BY <1>8, <4>1 DEF AfterPlan, PassesGate
      <4> QED
        BY <1>4, <1>8, <2>3, <4>2 DEF RelationsHold
    <3> QED
      BY <3>1, <3>2
  <2> QED
    BY <2>2, <2>3, <2>4 DEF IsLink, Relation, KindPairAllowed
<1>13. /\ q.staged \in Seq(S \cup {plan}) /\ Len(q.staged) = n + 1 /\ DOMAIN q.staged = 1 .. n + 1
       /\ DOMAIN r.staged = 1 .. n
       /\ \A i \in 1 .. n : q.staged[i] = r.staged[i]
       /\ q.staged[n + 1] = plan
  BY <1>7, <1>8, <1>12, AppendIs
<1>14. IsTask(q)
  <2>1. q.pc # "failed" => IsPlan(plan)
    BY <1>4, <1>6, <1>9, <1>11 DEF IsPlan
  <2>2. q.pc # "failed" => \A i \in DOMAIN q.staged : IsPlan(q.staged[i])
    <3> SUFFICES ASSUME q.pc # "failed", NEW i \in DOMAIN q.staged PROVE IsPlan(q.staged[i])
      OBVIOUS
    <3>1. CASE i \in 1 .. n
      BY <1>5, <1>13, <3>1 DEF IsTask, HasSound
    <3>2. CASE i = n + 1
      BY <1>13, <2>1, <3>2
    <3> QED
      BY <1>12, <1>13, <3>1, <3>2
  <2>3. q.rest \in Seq(Inputs)
    BY <1>6, <1>8
  <2> QED
    BY <1>5, <1>8, <1>9, <1>11, <1>13, <2>2, <2>3 DEF IsTask, HasSound
<1>15. MayGoOn(q)
  BY <1>8 DEF MayGoOn, AfterPlan
<1>16. CoversAll(q, q.pages)
  <2> SUFFICES ASSUME NEW i \in DOMAIN q.staged
               PROVE  Covered(q.staged[i].found, q.staged[i].source, q.pages)
    BY DEF CoversAll
  <2>1. CASE i \in 1 .. n
    <3>1. Covered(r.staged[i].found, r.staged[i].source, r.pages)
      BY <1>5, <1>13, <2>1 DEF CoversAll
    <3> QED
      BY <1>9, <1>13, <2>1, <3>1, CoveredStays
  <2>2. CASE i = n + 1
    BY <1>4, <1>10, <1>13, <2>2
  <2> QED
    BY <1>12, <1>13, <2>1, <2>2
<1>17. Foresees(j, q, D, H)
  <2>1. ~Rebuilds(j) => Len(q.staged) + Len(q.rest) = 1 /\ n = 0
    BY <1>13, <1>20
  <2>2. ASSUME NEW base, Makes(base, r.staged, r.pages) PROVE Makes(base, q.staged, q.pages)
    BY <1>7, <1>8, <2>2, MakesOneMore
  <2>3. ASSUME ~Rebuilds(j), r.fresh = TRUE
        PROVE  /\ Makes(D, q.staged, q.pages) /\ Adds(D, q.pages)
               /\ q.staged # <<>> /\ q.staged[1].heads = H \cup q.staged[1].observed
    <3>1. r.staged = <<>>
      BY <1>7, <1>12, <2>1, <2>3
    <3>2. r.heads = H /\ Makes(D, r.staged, r.pages) /\ Adds(D, r.pages)
      BY <1>5, <2>3, <3>1 DEF Foresees
    <3>3. q.staged[1] = plan /\ q.staged # <<>>
      BY <1>13, <2>1, <2>3
    <3> QED
      BY <1>4, <1>9, <2>2, <3>2, <3>3, AddsTwice
  <2>4. Rebuilds(j) => Makes(NoDocs, q.staged, q.pages)
    BY <1>5, <2>2 DEF Foresees
  <2> QED
    BY <1>8, <2>1, <2>3, <2>4 DEF Foresees
<1> QED
  BY <1>8, <1>14, <1>15, <1>16, <1>17 DEF TaskInv

LEMMA LinkKeeps == ASSUME BuildIsSound, BuildInv, NEW j \in Tasks, Link(j) PROVE BuildInv'
<1>1. PICK P : task' = [task EXCEPT ![j] = Staged(j, @, Accepted(P, task[j].nodes, task[j].pages))]
               /\ P \subseteq Proposals(task[j].nodes, task[j].pages)
  BY DEF Link
<1>2. PICK joined : joined = Accepted(P, task[j].nodes, task[j].pages)
  OBVIOUS
<1>3. PICK q : q = Staged(j, task[j], joined)
  OBVIOUS
<1>4. TaskInv(j, task[j], docs, heads) /\ task[j].pc = "resolved"
  BY DEF Link, BuildInv
<1>5. IsWiki(task[j].pages) /\ task[j].nodes \subseteq Node /\ NamesAreWellFormed
  BY <1>4 DEF TaskInv, IsTask, BuildIsSound
<1>6. \A ab \in joined : Joins(ab) /\ (Rebuilds(j) => KindPairAllowed(ab[1], ab[2], ab[3]))
  <2> TAKE ab \in joined
  <2>1. PICK p \in P : ab = <<p.from, p.to, p.type>> /\ Accepts(p, task[j].nodes, task[j].pages)
    BY <1>2 DEF Accepted
  <2>2. p.from \in PlanKeys(task[j].nodes, task[j].pages) \cup DOMAIN task[j].pages
        /\ p.to \in PlanKeys(task[j].nodes, task[j].pages) \cup DOMAIN task[j].pages
    BY <1>1 DEF Proposals
  <2>3. p.from \in Keys /\ p.to \in Keys
    BY <1>5, <2>2, PlanKeysAreKeys
  <2> QED
    BY <2>1, <2>3 DEF Accepts, Joins
<1>7. TaskInv(j, q, docs, heads)
  BY <1>3, <1>4, <1>6, StagedKeeps
<1>8. UNCHANGED <<docs, heads, supports, listing, active, clean>>
  BY DEF Link
<1> QED
  BY <1>1, <1>2, <1>3, <1>7, <1>8, OneTaskKeeps

LEMMA PlanAuthoredKeeps == ASSUME BuildIsSound, BuildInv, NEW j \in Tasks, PlanAuthored(j) PROVE BuildInv'
<1>1. task' = [task EXCEPT ![j] = Staged(j, @, AuthoredLinks(task[j].relations, task[j].nodes, task[j].pages))]
      /\ ~Rebuilds(j)
  BY DEF PlanAuthored, Rebuilds
<1>2. PICK joined : joined = AuthoredLinks(task[j].relations, task[j].nodes, task[j].pages)
  OBVIOUS
<1>3. TaskInv(j, task[j], docs, heads) /\ task[j].pc = "resolved"
  BY DEF PlanAuthored, BuildInv
<1>4. \A ab \in joined : Joins(ab) /\ (Rebuilds(j) => KindPairAllowed(ab[1], ab[2], ab[3]))
  <2>1. IsWiki(task[j].pages) /\ task[j].nodes \subseteq Node /\ NamesAreWellFormed
    BY <1>3 DEF TaskInv, IsTask, BuildIsSound
  <2> QED
    BY <1>1, <1>2, <2>1, AuthoredAre
<1>5. PICK q : q = Staged(j, task[j], joined)
  OBVIOUS
<1>7. TaskInv(j, q, docs, heads)
  BY <1>3, <1>4, <1>5, StagedKeeps
<1>6. UNCHANGED <<docs, heads, supports, listing, active, clean>>
  BY DEF PlanAuthored
<1> QED
  BY <1>1, <1>2, <1>5, <1>6, <1>7, OneTaskKeeps

-----------------------------------------------------------------------------
(* A plan is stored, a page is deleted.                                    *)

LEMMA UnfreshKeeps ==
  ASSUME NEW j, NEW r, NEW D, NEW H, TaskInv(j, r, D, H), NEW D2, NEW H2, NEW q, q = [r EXCEPT !.fresh = FALSE]
  PROVE  TaskInv(j, q, D2, H2) /\ q.pc = r.pc
<1>1. IsTask(r)
  BY DEF TaskInv
<1>2. PICK X : r \in TaskRows(X)
  BY <1>1 DEF IsTask
<1>3. q \in TaskRows(X)
  BY <1>2 DEF TaskRows
<1>4. /\ q.pc = r.pc /\ q.pages = r.pages /\ q.heads = r.heads /\ q.rest = r.rest /\ q.found = r.found
      /\ q.nodes = r.nodes /\ q.relations = r.relations /\ q.staged = r.staged
  BY <1>2 DEF TaskRows
<1>5. q.fresh = FALSE
  BY <1>2 DEF TaskRows
<1>6. IsTask(q)
  BY <1>1, <1>3, <1>4 DEF IsTask, HasSound
<1>7. MayGoOn(q)
  BY <1>4 DEF MayGoOn, TaskInv
<1>8. InHand(q) => Foresees(j, q, D2, H2) /\ CoversAll(q, q.pages)
  BY <1>4, <1>5 DEF TaskInv, InHand, Foresees, CoversAll
<1> QED
  BY <1>4, <1>5, <1>6, <1>7, <1>8 DEF TaskInv

LEMMA StepByStep ==
  ASSUME NEW last \in Nat, NEW T, 0 \in T, \A m \in 0 .. last - 1 : m \in T => m + 1 \in T
  PROVE  \A m \in 0 .. last : m \in T
<1> DEFINE U == {m \in Nat : m <= last /\ m \notin T}
<1>1. SUFFICES ASSUME U # {} PROVE FALSE
  OBVIOUS
<1>2. PICK m \in U : \A y \in U : m <= y
  BY <1>1, Least
<1>3. m \in Nat /\ m # 0 /\ m - 1 \in 0 .. last - 1
  BY <1>2
<1>4. m - 1 \notin U
  BY <1>2, <1>3
<1>5. m - 1 \in T
  BY <1>3, <1>4
<1> QED
  BY <1>2, <1>3, <1>5

LEMMA StoringKeeps ==
  ASSUME NEW f, NEW plans, NEW last \in Nat, SoundDb(f[0]),
         \A n \in 1 .. last : IsPlan(plans[n]) /\ f[n] = PersistPlan(f[n - 1], plans[n])
  PROVE  SoundDb(f[last])
         /\ (last > 0 \/ DOMAIN f[0].pages \subseteq f[0].listed.all => DOMAIN f[last].pages \subseteq f[last].listed.all)
<1> DEFINE Good(m) == SoundDb(f[m]) /\ (m > 0 => DOMAIN f[m].pages \subseteq f[m].listed.all)
           T == {m \in 0 .. last : Good(m)}
<1>1. 0 \in T
  OBVIOUS
<1>2. ASSUME NEW m \in 0 .. last - 1, m \in T PROVE m + 1 \in T
  <2>1. m + 1 \in 1 .. last /\ m + 1 \in 0 .. last /\ (m + 1) - 1 = m
    OBVIOUS
  <2>2. IsPlan(plans[m + 1]) /\ f[m + 1] = PersistPlan(f[m], plans[m + 1])
    BY <2>1
  <2>3. SoundDb(f[m])
    BY <1>2
  <2>4. SoundDb(f[m + 1]) /\ DOMAIN f[m + 1].pages \subseteq f[m + 1].listed.all
    BY <2>2, <2>3, PersistKeeps
  <2> QED
    BY <2>1, <2>4
<1> HIDE DEF T
<1>3. \A m \in 0 .. last : m \in T
  BY <1>1, <1>2, StepByStep
<1>4. last \in T
  BY <1>3
<1> QED
  BY <1>4 DEF T

LEMMA StoringMakes ==
  ASSUME NEW f, NEW plans, Len(plans) \in Nat, SoundDb(f[0]),
         \A n \in 1 .. Len(plans) : IsPlan(plans[n]) /\ f[n] = PersistPlan(f[n - 1], plans[n]),
         NEW P, Makes(f[0].pages, plans, P)
  PROVE  f[Len(plans)].pages = P
<1>1. PICK last \in Nat : last = Len(plans)
  OBVIOUS
<1>2. PICK V : /\ V[0] = f[0].pages
               /\ \A i \in 1 .. last : V[i] = Over(plans[i].pages, V[i - 1])
               /\ V[last] = P
  BY <1>1 DEF Makes
<1> DEFINE T == {m \in 0 .. last : SoundDb(f[m]) /\ f[m].pages = V[m]}
<1>3. 0 \in T
  BY <1>2
<1>4. ASSUME NEW m \in 0 .. last - 1, m \in T PROVE m + 1 \in T
  <2>1. m + 1 \in 1 .. last /\ m + 1 \in 0 .. last /\ (m + 1) - 1 = m
    OBVIOUS
  <2>2. IsPlan(plans[m + 1]) /\ f[m + 1] = PersistPlan(f[m], plans[m + 1])
    BY <1>1, <2>1
  <2>3. SoundDb(f[m]) /\ f[m].pages = V[m]
    BY <1>4
  <2>4. SoundDb(f[m + 1]) /\ f[m + 1].pages = Over(plans[m + 1].pages, f[m].pages)
    BY <2>2, <2>3, PersistKeeps
  <2>5. V[m + 1] = Over(plans[m + 1].pages, V[m])
    BY <1>2, <2>1
  <2> QED
    BY <2>1, <2>3, <2>4, <2>5
<1> HIDE DEF T
<1>5. \A m \in 0 .. last : m \in T
  BY <1>3, <1>4, StepByStep
<1>6. last \in T
  BY <1>5
<1> QED
  BY <1>1, <1>2, <1>6 DEF T

LEMMA BaseIs ==
  ASSUME BuildInv, NEW j \in Tasks
  PROVE  /\ SoundDb(BaseOf(j))
         /\ Rebuilds(j) => BaseOf(j).pages = NoDocs /\ DOMAIN BaseOf(j).pages \subseteq BaseOf(j).listed.all
         /\ ~Rebuilds(j) => /\ BaseOf(j).pages = docs /\ BaseOf(j).heads = heads /\ BaseOf(j).supports = supports
<1>1. CASE Rebuilds(j)
  <2>1. BaseOf(j) = [pages |-> NoDocs, heads |-> {}, supports |-> {}, listed |-> NoListing]
    BY <1>1 DEF Rebuilds, BaseOf, Superseded
  <2> QED
    BY <1>1, <2>1, NothingIsWiki, NoListingIsListing DEF SoundDb, IsDb, Relations
<1>2. CASE ~Rebuilds(j)
  <2>1. BaseOf(j) = [pages |-> docs, heads |-> heads, supports |-> supports, listed |-> listing[j]]
    BY <1>2 DEF Rebuilds, BaseOf
  <2>2. IsWiki(docs) /\ Relations(docs, heads, supports) /\ IsListing(listing[j])
    BY DEF BuildInv, StoredInv
  <2> QED
    BY <1>2, <2>1, <2>2 DEF SoundDb, IsDb
<1> QED
  BY <1>1, <1>2

LEMMA StoredByIs ==
  ASSUME BuildInv, NEW j \in Tasks, task[j].pc = "planned"
  PROVE  /\ SoundDb(StoredBy(j)) /\ DOMAIN StoredBy(j).pages \subseteq StoredBy(j).listed.all
         /\ Rebuilds(j) \/ task[j].fresh = TRUE => StoredBy(j).pages = task[j].pages
         /\ ~Rebuilds(j) => Len(task[j].staged) = 1 /\ StoredBy(j) = PersistPlan(BaseOf(j), task[j].staged[1])
<1>1. TaskInv(j, task[j], docs, heads)
  BY DEF BuildInv
<1>2. IsTask(task[j]) /\ Foresees(j, task[j], docs, heads) /\ task[j].rest = <<>>
  BY <1>1 DEF TaskInv, InHand, MayGoOn
<1>3. PICK plans : plans = task[j].staged
  OBVIOUS
<1>4. PICK S : plans \in Seq(S)
  BY <1>2, <1>3 DEF IsTask
<1>5. PICK last \in Nat : last = Len(plans)
  BY <1>4
<1>6. DOMAIN plans = 1 .. last
  BY <1>4, <1>5
<1>7. PICK f : /\ f[0] = BaseOf(j)
               /\ \A n \in 1 .. last : f[n] = PersistPlan(f[n - 1], plans[n])
               /\ f[last] = StoredBy(j)
  BY <1>3, <1>5, StoredIs
<1>8. \A n \in 1 .. last : IsPlan(plans[n]) /\ f[n] = PersistPlan(f[n - 1], plans[n])
  BY <1>2, <1>3, <1>6, <1>7 DEF IsTask, HasSound
<1>9. SoundDb(f[0])
  BY <1>7, BaseIs
<1>10. ~Rebuilds(j) => last = 1
  <2>1. Len(task[j].rest) = 0
    BY <1>2
  <2> QED
    BY <1>2, <1>3, <1>5, <2>1 DEF Foresees
<1>11. last > 0 \/ DOMAIN f[0].pages \subseteq f[0].listed.all
  BY <1>7, <1>10, BaseIs
<1>12. SoundDb(f[last]) /\ DOMAIN f[last].pages \subseteq f[last].listed.all
  BY <1>8, <1>9, <1>11, StoringKeeps
<1>13. ASSUME Rebuilds(j) \/ task[j].fresh = TRUE PROVE f[last].pages = task[j].pages
  <2>1. Makes(f[0].pages, plans, task[j].pages)
    BY <1>2, <1>3, <1>7, <1>13, BaseIs DEF Foresees
  <2>2. \A n \in 1 .. Len(plans) : IsPlan(plans[n]) /\ f[n] = PersistPlan(f[n - 1], plans[n])
    BY <1>5, <1>8
  <2>3. Len(plans) \in Nat
    BY <1>5
  <2> QED
    BY <1>5, <1>9, <2>1, <2>2, <2>3, StoringMakes
<1>14. ~Rebuilds(j) => StoredBy(j) = PersistPlan(BaseOf(j), plans[1])
  <2>1. SUFFICES ASSUME ~Rebuilds(j) PROVE StoredBy(j) = PersistPlan(BaseOf(j), plans[1])
    OBVIOUS
  <2>2. last = 1 /\ 1 \in 1 .. last
    BY <1>10, <2>1
  <2>3. f[1] = PersistPlan(f[1 - 1], plans[1])
    BY <1>7, <2>2
  <2>4. f[1 - 1] = f[0]
    OBVIOUS
  <2> QED
    BY <1>7, <2>2, <2>3, <2>4
<1> QED
  BY <1>3, <1>5, <1>7, <1>10, <1>12, <1>13, <1>14

LEMMA StoredTaskIs ==
  ASSUME NEW j, NEW r, IsTask(r), r.pc # "failed", NEW q, q = [IdleTask EXCEPT !.pc = "stored", !.staged = r.staged,
                                                              !.fresh = r.fresh, !.rerun = r.rerun]
  PROVE  /\ IsTask(q) /\ q.pc = "stored" /\ q.staged = r.staged /\ (q.fresh = TRUE => r.fresh = TRUE)
<1>1. PICK Y : r \in TaskRows(Y)
  BY DEF IsTask
<1>2. PICK ss : ss = r.staged
  OBVIOUS
<1>3. PICK b \in BOOLEAN : b = r.fresh
  BY <1>1 DEF TaskRows
<1>4. PICK c \in BOOLEAN : c = r.rerun
  BY <1>1 DEF TaskRows
<1>5. PICK X : X = {{}, <<>>, NoDocs} \cup {ss}
  OBVIOUS
<1>6. IdleTask \in TaskRows(X)
  BY <1>5, IdleIs, TaskRowsGrow
<1>7. q = [IdleTask EXCEPT !.pc = "stored", !.staged = ss, !.fresh = b, !.rerun = c]
  BY <1>2, <1>3, <1>4
<1>8. ss \in X
  BY <1>5
<1>9. q \in TaskRows(X)
  BY <1>6, <1>7, <1>8 DEF TaskRows, Pcs
<1>10. /\ q.pc = "stored" /\ q.staged = ss /\ q.pages = IdleTask.pages /\ q.heads = IdleTask.heads
       /\ q.rest = IdleTask.rest /\ q.nodes = IdleTask.nodes /\ q.relations = IdleTask.relations
  BY <1>6, <1>7 DEF TaskRows
<1>11. q.fresh = b
  BY <1>6, <1>7 DEF TaskRows
<1>12. q.pages = NoDocs /\ q.heads = {} /\ q.rest = <<>> /\ q.nodes = {} /\ q.relations = {}
  BY <1>10, IdleIs
<1>13. <<>> \in Seq(Inputs)
  OBVIOUS
<1>14. IsTask(q)
  BY <1>2, <1>9, <1>10, <1>12, <1>13, NothingIsWiki DEF IsTask, HasSound
<1> QED
  BY <1>2, <1>3, <1>10, <1>11, <1>14

LEMMA PersistTaskKeeps == ASSUME BuildIsSound, BuildInv, NEW j \in Tasks, Persist(j) PROVE BuildInv'
<1>1. PICK db : db = StoredBy(j)
  OBVIOUS
<1>2. /\ docs' = db.pages /\ heads' = db.heads /\ supports' = db.supports
      /\ listing' = [i \in Tasks |-> IF i = j THEN db.listed
                                     ELSE IF i \in Reruns THEN Outdated(listing[i], docs, db.pages)
                                     ELSE NoListing]
      /\ active' = j
      /\ clean' = (task[j].fresh \/ TaskOf[j].kind = "rebuild")
      /\ task[j].pc = "planned"
  BY <1>1 DEF Persist
<1>3. /\ SoundDb(db) /\ DOMAIN db.pages \subseteq db.listed.all
      /\ Rebuilds(j) \/ task[j].fresh = TRUE => db.pages = task[j].pages
  BY <1>1, <1>2, StoredByIs
<1>4. TaskInv(j, task[j], docs, heads)
  BY DEF BuildInv
<1>5. StoredInv'
  <2>1. IsWiki(docs') /\ Relations(docs', heads', supports')
    BY <1>2, <1>3 DEF SoundDb
  <2>2. ASSUME NEW i \in Tasks PROVE IsListing(listing'[i])
    <3>1. IsListing(listing[i])
      BY DEF BuildInv, StoredInv
    <3>2. IsListing(db.listed)
      BY <1>3 DEF SoundDb
    <3>3. IsListing(Outdated(listing[i], docs, db.pages))
      BY <3>1, OutdatedIs
    <3>4. listing'[i] \in {db.listed, Outdated(listing[i], docs, db.pages), NoListing}
      BY <1>2
    <3> QED
      BY <3>2, <3>3, <3>4, NoListingIsListing
  <2>3. listing' = [i \in Tasks |-> listing'[i]] /\ active' \in Tasks \cup {Nothing}
    BY <1>2
  <2> QED
    BY <2>1, <2>2, <2>3 DEF StoredInv
<1>6. clean' \in BOOLEAN /\ (clean' = TRUE => Rebuilds(j) \/ task[j].fresh = TRUE)
  <2>1. PICK X : task[j] \in TaskRows(X)
    BY <1>4 DEF TaskInv, IsTask
  <2>2. task[j].fresh \in BOOLEAN
    BY <2>1 DEF TaskRows
  <2> QED
    BY <1>2, <2>2 DEF Rebuilds
<1>7. SurfacesStayUnique'
  <2>1. PassesGate(task[j].pages, task[j].heads)
    BY <1>2, <1>4 DEF TaskInv, MayGoOn
  <2>2. clean' => SurfacesAreUnique(docs')
    BY <1>2, <1>3, <1>6, <2>1 DEF PassesGate
  <2> QED
    BY <2>2 DEF SurfacesStayUnique, SurfacesAreUnique
<1>8. SnapshotListsEveryPage'
  <2>1. listing'[j] = db.listed
    BY <1>2
  <2> QED
    BY <1>2, <1>3, <2>1 DEF SnapshotListsEveryPage
<1>9. task' = [i \in Tasks |-> task'[i]]
  BY DEF Persist
<1>10. ASSUME NEW i \in Tasks PROVE TaskInv(i, task'[i], docs', heads')
  <2>1. CASE i # j
    <3>1. task'[i] = [task[i] EXCEPT !.fresh = FALSE]
      BY <2>1 DEF Persist
    <3>2. TaskInv(i, task[i], docs, heads)
      BY DEF BuildInv
    <3>3. PICK D : D = docs'
      OBVIOUS
    <3>4. PICK H : H = heads'
      OBVIOUS
    <3>5. PICK q : q = task'[i]
      OBVIOUS
    <3> QED
      BY <3>1, <3>2, <3>3, <3>4, <3>5, UnfreshKeeps
  <2>2. CASE i = j
    <3>1. PICK q : q = task'[j]
      OBVIOUS
    <3>2. q = [IdleTask EXCEPT !.pc = "stored", !.staged = task[j].staged,
                               !.fresh = task[j].fresh, !.rerun = task[j].rerun]
      BY <3>1 DEF Persist
    <3>3. IsTask(task[j]) /\ CoversAll(task[j], task[j].pages)
      BY <1>2, <1>4 DEF TaskInv, InHand
    <3>4. IsTask(q) /\ q.pc = "stored" /\ q.staged = task[j].staged /\ (q.fresh = TRUE => task[j].fresh = TRUE)
      BY <1>2, <3>2, <3>3, StoredTaskIs
    <3>5. q.fresh = TRUE => CoversAll(q, docs')
      BY <1>2, <1>3, <3>3, <3>4 DEF CoversAll
    <3> QED
      BY <2>2, <3>1, <3>4, <3>5 DEF TaskInv, MayGoOn, InHand
  <2> QED
    BY <2>1, <2>2
<1> QED
  BY <1>5, <1>6, <1>7, <1>8, <1>9, <1>10 DEF BuildInv

LEMMA DeletePageKeeps == ASSUME BuildIsSound, BuildInv, NEW k, DeletePage(k) PROVE BuildInv'
<1>1. /\ docs' = [l \in DOMAIN docs \ {k} |-> docs[l]]
      /\ heads' = {ab \in heads : k \notin {ab[1], ab[2]}}
      /\ supports' = {u \in supports : k \notin {u[1][1], u[1][2]}}
      /\ task' = [i \in Tasks |-> [task[i] EXCEPT !.fresh = FALSE]]
      /\ listing' = [i \in Tasks |-> [listing[i] EXCEPT !.current = @ \ {k}]]
      /\ UNCHANGED <<active, clean>>
  BY DEF DeletePage
<1>2. IsWiki(docs) /\ Relations(docs, heads, supports)
  BY DEF BuildInv, StoredInv
<1>3. IsWiki(docs')
  BY <1>1, <1>2 DEF IsWiki
<1>4. Relations(docs', heads', supports')
  <2>1. ASSUME NEW ab \in heads' PROVE IsLink(ab) /\ {ab[1], ab[2]} \subseteq DOMAIN docs'
    BY <1>1, <1>2 DEF Relations
  <2>2. ASSUME NEW u \in supports' PROVE u \in heads' \X Inputs
    <3>1. u \in heads \X Inputs
      BY <1>1, <1>2 DEF Relations
    <3> QED
      BY <1>1, <3>1
  <2> QED
    BY <2>1, <2>2 DEF Relations
<1>5. ASSUME NEW j \in Tasks PROVE IsListing(listing'[j]) /\ listing'[j].all = listing[j].all
  <2>1. IsListing(listing[j])
    BY DEF BuildInv, StoredInv
  <2>2. PICK l : l = listing[j]
    OBVIOUS
  <2>3. PICK c : c = l.current \ {k}
    OBVIOUS
  <2>4. listing'[j] = [l EXCEPT !.current = c]
    BY <1>1, <2>2, <2>3
  <2> QED
    BY <2>1, <2>2, <2>3, <2>4 DEF IsListing
<1>6. StoredInv'
  <2>1. listing' = [j \in Tasks |-> listing'[j]]
    BY <1>1
  <2>2. active' \in Tasks \cup {Nothing}
    BY <1>1 DEF BuildInv, StoredInv
  <2> QED
    BY <1>3, <1>4, <1>5, <2>1, <2>2 DEF StoredInv
<1>7. SurfacesStayUnique'
  <2>1. SurfacesStayUnique
    BY DEF BuildInv
  <2> QED
    BY <1>1, <2>1 DEF SurfacesStayUnique
<1>8. SnapshotListsEveryPage'
  <2>1. SnapshotListsEveryPage /\ active \in Tasks \cup {Nothing}
    BY DEF BuildInv, StoredInv
  <2> QED
    BY <1>1, <1>5, <2>1 DEF SnapshotListsEveryPage
<1>9. task' = [i \in Tasks |-> task'[i]]
  BY <1>1
<1>10. ASSUME NEW i \in Tasks PROVE TaskInv(i, task'[i], docs', heads')
  <2>1. task'[i] = [task[i] EXCEPT !.fresh = FALSE]
    BY <1>1
  <2>2. TaskInv(i, task[i], docs, heads)
    BY DEF BuildInv
  <2>3. PICK D : D = docs'
    OBVIOUS
  <2>4. PICK H : H = heads'
    OBVIOUS
  <2>5. PICK q : q = task'[i]
    OBVIOUS
  <2> QED
    BY <2>1, <2>2, <2>3, <2>4, <2>5, UnfreshKeeps
<1>11. clean' \in BOOLEAN
  BY <1>1 DEF BuildInv
<1> QED
  BY <1>6, <1>7, <1>8, <1>9, <1>10, <1>11 DEF BuildInv

LEMMA BuildKeeps == ASSUME BuildIsSound, BuildInv, [BuildNext]_buildVars PROVE BuildInv'
<1>1. CASE UNCHANGED buildVars
  BY <1>1 DEF buildVars, BuildInv, StoredInv, SurfacesStayUnique, SnapshotListsEveryPage
<1>2. CASE \E k \in Deletable : DeletePage(k)
  BY <1>2, DeletePageKeeps
<1>3. ASSUME NEW j \in Tasks, Read(j) \/ Classify(j) \/ SubmitAuthored(j) PROVE BuildInv'
  BY <1>3, ReadKeeps, ClassifyKeeps, SubmitKeeps
<1>4. ASSUME NEW j \in Tasks, Link(j) \/ PlanAuthored(j) \/ Persist(j) PROVE BuildInv'
  BY <1>4, LinkKeeps, PlanAuthoredKeeps, PersistTaskKeeps
<1>5. ASSUME NEW j \in Tasks, Finish(j) \/ Again(j) PROVE BuildInv'
  BY <1>5, FinishKeeps, AgainKeeps
<1> QED
  BY <1>1, <1>2, <1>3, <1>4, <1>5 DEF BuildNext

\* What is stored has its types, and a job that resolved a source its nodes.
LEMMA InvTypes == ASSUME BuildInv PROVE BuildTypeOK
<1>1. DOMAIN docs \subseteq Keys /\ \A k \in DOMAIN docs : docs[k] \in Page
  BY DEF BuildInv, StoredInv, IsWiki
<1>2. heads \subseteq Keys \X Keys \X DOMAIN RelationKindPairs /\ supports \subseteq heads \X Inputs
  BY DEF BuildInv, StoredInv, Relations, IsLink, Relation
<1>3. ASSUME NEW j \in Tasks
      PROVE  /\ task[j].pc \in {"idle", "read", "resolved", "planned", "failed", "stored", "done"}
             /\ task[j].nodes \subseteq Node
  <2>1. IsTask(task[j])
    BY DEF BuildInv, TaskInv
  <2> QED
    BY <2>1 DEF IsTask, TaskRows, Pcs
<1>4. ASSUME NEW j \in Tasks PROVE listing[j].current \subseteq listing[j].all /\ listing[j].all \subseteq Keys
  BY DEF BuildInv, StoredInv, IsListing
<1>5. active \in Tasks \cup {Nothing}
  BY DEF BuildInv, StoredInv
<1> QED
  BY <1>1, <1>2, <1>3, <1>4, <1>5 DEF BuildTypeOK

LEMMA InvResolution == ASSUME BuildInv PROVE ResolutionIsCanonical
<1>1. ASSUME NEW j \in Tasks, task[j].pc = "resolved"
      PROVE  Cardinality(PlanKeys(task[j].nodes, task[j].pages)) = Cardinality(task[j].nodes)
  <2>1. SettledAs(task[j].nodes, task[j].pages, task[j].found)
    BY <1>1 DEF BuildInv, TaskInv, MayGoOn
  <2> QED
    BY <2>1, AsManyKeys DEF SettledAs
<1>2. ASSUME NEW j \in Tasks, task[j].pc = "failed", task[j].nodes # {}
      PROVE  \/ \E n \in task[j].nodes : NamesMissingPage(n, task[j].pages)
             \/ \E e \in task[j].relations : SameThing(e.from, e.to)
  BY <1>2 DEF BuildInv, TaskInv, MayGoOn, Unfit
<1> QED
  BY <1>1, <1>2, InvTypes DEF ResolutionIsCanonical

LEMMA InvSound == ASSUME BuildInv PROVE WikiIsSound
<1>1. EverySurfaceHasPage
  <2> SUFFICES ASSUME NEW j \in Tasks, task[j].pc = "stored", task[j].fresh,
                      NEW i \in DOMAIN task[j].staged, NEW s \in task[j].staged[i].found
               PROVE  \E k \in DOMAIN docs : /\ s \in PageSurfaces(docs[k])
                                             /\ task[j].staged[i].source \in docs[k].sources
    BY DEF EverySurfaceHasPage
  <2>1. TaskInv(j, task[j], docs, heads)
    BY DEF BuildInv
  <2>2. task[j].fresh = TRUE
    <3>1. IsTask(task[j])
      BY <2>1 DEF TaskInv
    <3>2. PICK X : task[j] \in TaskRows(X)
      BY <3>1 DEF IsTask
    <3>3. task[j].fresh \in BOOLEAN
      BY <3>2 DEF TaskRows
    <3> QED
      BY <3>3
  <2>3. Covered(task[j].staged[i].found, task[j].staged[i].source, docs)
    BY <2>1, <2>2 DEF TaskInv, CoversAll
  <2> QED
    BY <2>3 DEF Covered
<1>2. RelationsAreWellFormed
  BY DEF BuildInv, StoredInv, Relations, IsLink, RelationsAreWellFormed
<1> QED
  BY <1>1, <1>2 DEF WikiIsSound, BuildInv

\* The jobs a step is not about keep their place.
LEMMA OthersWait ==
  ASSUME BuildInv, [BuildNext]_buildVars, NEW j \in Tasks, task[j].pc = "planned", task'[j].pc = "stored"
  PROVE  Persist(j)
<1>1. CASE UNCHANGED buildVars
  BY <1>1 DEF buildVars
<1>2. ASSUME NEW k, DeletePage(k) PROVE FALSE
  <2>1. TaskInv(j, task[j], docs, heads)
    BY DEF BuildInv
  <2>2. PICK q : q = task'[j]
    OBVIOUS
  <2>3. q = [task[j] EXCEPT !.fresh = FALSE]
    BY <1>2, <2>2 DEF DeletePage
  <2>4. q.pc = task[j].pc
    BY <2>1, <2>3, UnfreshKeeps
  <2> QED
    BY <2>2, <2>4
<1>3. ASSUME NEW i \in Tasks, Persist(i), i # j PROVE FALSE
  <2>1. TaskInv(j, task[j], docs, heads)
    BY DEF BuildInv
  <2>2. PICK q : q = task'[j]
    OBVIOUS
  <2>3. q = [task[j] EXCEPT !.fresh = FALSE]
    BY <1>3, <2>2 DEF Persist
  <2>4. q.pc = task[j].pc
    BY <2>1, <2>3, UnfreshKeeps
  <2> QED
    BY <2>2, <2>4
<1>4. ASSUME NEW i \in Tasks, NEW q, task' = [task EXCEPT ![i] = q], i # j PROVE FALSE
  BY <1>4 DEF BuildInv
<1>5. ASSUME NEW i \in Tasks, Read(i) PROVE FALSE
  BY <1>4, <1>5 DEF Read
<1>6. ASSUME NEW i \in Tasks, Classify(i) \/ SubmitAuthored(i) PROVE FALSE
  BY <1>4, <1>6 DEF Classify, SubmitAuthored, Identify
<1>7. ASSUME NEW i \in Tasks, Link(i) \/ PlanAuthored(i) PROVE FALSE
  BY <1>4, <1>7 DEF Link, PlanAuthored
<1>8. ASSUME NEW i \in Tasks, Finish(i) PROVE FALSE
  BY <1>4, <1>8 DEF Finish
<1>9. ASSUME NEW i \in Tasks, Again(i) PROVE FALSE
  <2>1. i = j
    BY <1>4, <1>9 DEF Again
  <2>2. PICK b \in BOOLEAN : b = (task[j].rerun \/ task[j].pc = "stored")
    OBVIOUS
  <2>3. PICK q : q = [IdleTask EXCEPT !.rerun = b]
    OBVIOUS
  <2>4. task'[j] = q
    BY <1>9, <2>1, <2>2, <2>3 DEF Again, BuildInv
  <2>5. q.pc = "idle"
    BY <2>3, IdleIs DEF TaskRows
  <2> QED
    BY <2>4, <2>5
<1> QED
  BY <1>1, <1>2, <1>3, <1>5, <1>6, <1>7, <1>8, <1>9 DEF BuildNext

LEMMA WritesAdd == ASSUME BuildInv, [BuildNext]_buildVars PROVE WritesOnlyAdd
<1> SUFFICES ASSUME NEW j \in Tasks, Persists(j), task[j].fresh, TaskOf[j].kind # "rebuild"
             PROVE  /\ Adds(docs, docs')
                    /\ \A ab \in heads' : (ab \in heads => HasSupport(ab, supports)) => HasSupport(ab, supports')
  BY DEF WritesOnlyAdd, Adds
<1>1. Persist(j) /\ task[j].pc = "planned" /\ ~Rebuilds(j)
  BY OthersWait DEF Persists, Rebuilds
<1>2. TaskInv(j, task[j], docs, heads)
  BY DEF BuildInv
<1>3. task[j].fresh = TRUE
  <2>1. IsTask(task[j])
    BY <1>2 DEF TaskInv
  <2>2. PICK X : task[j] \in TaskRows(X)
    BY <2>1 DEF IsTask
  <2>3. task[j].fresh \in BOOLEAN
    BY <2>2 DEF TaskRows
  <2> QED
    BY <2>3
<1>4. PICK db : db = BaseOf(j)
  OBVIOUS
<1>5. PICK plan : plan = task[j].staged[1]
  OBVIOUS
<1>6. PICK q : q = StoredBy(j)
  OBVIOUS
<1>7. SoundDb(db) /\ db.pages = docs /\ db.heads = heads /\ db.supports = supports
  BY <1>1, <1>4, BaseIs
<1>8. q = PersistPlan(db, plan) /\ Len(task[j].staged) = 1 /\ q.pages = task[j].pages
  BY <1>1, <1>3, <1>4, <1>5, <1>6, StoredByIs
<1>9. docs' = q.pages /\ heads' = q.heads /\ supports' = q.supports
  BY <1>1, <1>6 DEF Persist
<1>10. /\ q.supports = Kept(db, plan) \cup Gained(db, plan)
       /\ q.heads = (db.heads \cup Live(db, plan)) \ Bare(db, plan)
  BY <1>7, <1>8, PersistIs DEF SoundDb
<1>11. Adds(docs, task[j].pages) /\ plan.heads = heads \cup plan.observed
  BY <1>1, <1>2, <1>3, <1>5, <1>8 DEF TaskInv, InHand, Foresees
<1>12. ASSUME NEW ab \in heads', ab \in heads => HasSupport(ab, supports) PROVE HasSupport(ab, supports')
  <2>1. CASE ab \in heads
    <3>1. PICK u \in supports : u[1] = ab
      BY <1>12, <2>1 DEF HasSupport
    <3>2. CASE u \in Kept(db, plan)
      BY <1>9, <1>10, <3>1, <3>2 DEF HasSupport
    <3>3. CASE u \notin Kept(db, plan)
      <4>1. ab \in {v[1] : v \in db.supports \ Kept(db, plan)}
        BY <1>7, <3>1, <3>3
      <4>2. ab \notin Bare(db, plan)
        BY <1>9, <1>10
      <4>3. \E v \in Kept(db, plan) \cup Gained(db, plan) : v[1] = ab
        BY <4>1, <4>2 DEF Bare
      <4> QED
        BY <1>9, <1>10, <4>3 DEF HasSupport
    <3> QED
      BY <3>2, <3>3
  <2>2. CASE ab \notin heads
    <3>1. ab \in Live(db, plan)
      BY <1>7, <1>9, <1>10, <2>2
    <3>2. ab \in plan.observed
      BY <1>11, <2>2, <3>1 DEF Live
    <3>3. PICK u : u = <<ab, plan.source>>
      OBVIOUS
    <3>4. u \in Gained(db, plan) /\ u[1] = ab
      BY <3>1, <3>2, <3>3 DEF Gained
    <3> QED
      BY <1>9, <1>10, <3>4 DEF HasSupport
  <2> QED
    BY <2>1, <2>2
<1> QED
  BY <1>8, <1>9, <1>11, <1>12

\* Whatever is read, answered, decided, linked, stored, repeated or deleted, the wiki and
\* what every job remembers of it satisfy the invariant.
THEOREM BuildInvariant == ASSUME BuildIsSound PROVE BuildSpec => []BuildInv
<1>1. BuildInit => BuildInv
  BY BuildStarts
<1>2. BuildInv /\ [BuildNext]_buildVars => BuildInv'
  BY BuildKeeps
<1> QED
  BY <1>1, <1>2, PTL DEF BuildSpec

\* Two nodes that pass identity resolution never plan one page, whatever classifiers find
\* and models decide, and its validation fails a job only over a page that does not exist
\* or a submitted relation between two spellings of one thing (identity_resolution.py).
THEOREM ResolutionAlwaysCanonical == ASSUME BuildIsSound PROVE BuildSpec => []ResolutionIsCanonical
<1>1. BuildInv => ResolutionIsCanonical
  BY InvResolution
<1> QED
  BY <1>1, BuildInvariant, PTL

\* No plan that was made for the wiki it was stored in duplicates a page or loses a name it
\* found; relations always join pages there are, of kinds that their type may join, though an
\* MCP write may name any type between any kinds, and the active snapshot names every page,
\* for any interleaving of builds, rebuilds, MCP writes, crashes and deletions.
THEOREM WikiAlwaysSound == ASSUME BuildIsSound PROVE BuildSpec => []WikiIsSound
<1>1. BuildInv => WikiIsSound
  BY InvSound
<1> QED
  BY <1>1, BuildInvariant, PTL

\* A write to the wiki it had read takes no page, alias or source away and leaves every
\* relation that has or could have a support with one (planning.py:1-5).
THEOREM FreshWritesAlwaysOnlyAdd == ASSUME BuildIsSound PROVE BuildSpec => FreshWritesOnlyAdd
<1>1. BuildInv /\ [BuildNext]_buildVars => [WritesOnlyAdd]_buildVars
  BY WritesAdd
<1> QED
  BY <1>1, BuildInvariant, PTL DEF BuildSpec, FreshWritesOnlyAdd
=============================================================================
