---------------------------- MODULE PersonalWiki ----------------------------
(***************************************************************************)
(* The personal wiki of one user of bambi-agent-api.  Sources (clippings,  *)
(* bookmarks, onboarding seeds, MCP submissions) are stored in document    *)
(* heads; a job per stored version builds its pages into the wiki; the     *)
(* removal of a bookmark and a weekly schedule rebuild the whole wiki from *)
(* the sources that are left; an MCP client writes pages by itself; and a  *)
(* reset deletes everything.                                               *)
(*                                                                         *)
(* A build reads its sources in one transaction, calls models for minutes, *)
(* and writes in another.  Builds of a user exclude each other by a        *)
(* session lock taken after the claim; MCP writes, sources, removals and   *)
(* resets do not take it.  A page stands for all entity and concept pages  *)
(* made of one source; every step below is one transaction.  Claims and    *)
(* leases are those of JobQueue, here without clock and attempt numbers: a *)
(* lease may lapse, and an attempt may be the last, at any time.           *)
(***************************************************************************)
EXTENDS Naturals, FiniteSets

CONSTANTS
  Docs,         \* what heads are found by: a URL or the hash of a body
  Events,       \* source_event_ids of the services that store sources
  DocOf,        \* the document an event stores
  McpEvents,    \* the events of MCP submissions, which register no build
  Removals,     \* source_event_ids of bookmark removals
  MarkOf,       \* marked_source_event_id of a removal
  Maintenance,  \* maintenance_keys (days) of the weekly rebuild
  Workers,
  Mcp,          \* an MCP write, which is a job of its own
  None,
  MaxGen,       \* bound: heads made for a document
  MaxVersion    \* bound: versions of a head

ASSUME EventsAssumption ==
  /\ DocOf \in [Events -> Docs]
  /\ McpEvents \subseteq Events
  /\ MarkOf \in [Removals -> Events \ McpEvents]
  /\ \A m \in McpEvents : \A e \in Events \ {m} : DocOf[e] # DocOf[m]
ASSUME BoundsAssumption ==
  /\ MaxGen \in [Docs -> Nat \ {0}] /\ MaxVersion \in Nat \ {0}
  /\ None \notin Workers /\ None \notin Nat \X Nat
ASSUME JobsAssumption ==
  /\ Removals \cap Maintenance = {}
  /\ \A k \in Removals \cup Maintenance : k \notin Events \X (1 .. MaxVersion)
  /\ {Mcp, None} \cap (Removals \cup Maintenance) = {}

Builds == Events \X (1 .. MaxVersion)      \* idempotency key of a source's build
Rebuilds == Removals \cup Maintenance
Jobs == Builds \cup Rebuilds

VARIABLES
  head,     \* user_source_documents: heads made so far, version and status of the last
  purged,   \* heads 1 .. purged[d] of d were deleted with their versions
  binding,  \* user_source_bindings: the head an event is bound to, 0 if none; an
            \* onboarding seed has no row, but nothing ever takes its head from it
  job,      \* agent_jobs of type personal_wiki_build
  worker,   \* what a worker runs: step, job, sources read, pages read
  author,   \* the same for the MCP write in progress
  wiki      \* pages of the active wiki_documents, and whether a wiki_versions row is

vars == <<head, purged, binding, job, worker, author, wiki>>
sources == <<head, purged, binding>>

\* A version of a source, as gen and ver; None where there is no page.
Version == (Nat \ {0}) \X (1 .. MaxVersion)
NoPages == [d \in Docs |-> None]
NoWiki == [pages |-> NoPages, active |-> FALSE]
Idle == [step |-> "idle", job |-> None, read |-> NoPages]
Written(k) == [Idle EXCEPT !.step = "written", !.job = k]

Init ==
  /\ head = [d \in Docs |-> [gen |-> 0, ver |-> 0, live |-> FALSE]]
  /\ purged = [d \in Docs |-> 0]
  /\ binding = [e \in Events |-> 0]
  /\ job = [k \in Jobs |-> [status |-> "absent", gen |-> 0, owner |-> None]]
  /\ worker = [w \in Workers |-> Idle]
  /\ author = Idle
  /\ wiki = NoWiki

PagesOf(v) == {d \in Docs : v[d] # None}

----------------------------------------------------------------------------
(* Sources. *)

\* Jobs are inserted once per key, whatever became of the first.
Insert(k, gen) ==
  IF job[k].status = "absent"
  THEN [job EXCEPT ![k].status = "queued", ![k].gen = gen]
  ELSE job

\* A service stores a body: a new head unless a live one is found, a new
\* version if the body changed, and the build of that version.  The body of an
\* MCP event never changes, for the event and its head are found by it.
Save(e, changed) ==
  LET d == DocOf[e]
      old == head[d]
      gen == IF old.live THEN old.gen ELSE old.gen + 1
      ver == IF ~old.live THEN 1 ELSE IF changed THEN old.ver + 1 ELSE old.ver
  IN /\ gen <= MaxGen[d] /\ ver <= MaxVersion
     /\ changed => e \notin McpEvents
     /\ head' = [head EXCEPT ![d] = [gen |-> gen, ver |-> ver, live |-> TRUE]]
     /\ binding' = [binding EXCEPT ![e] = gen]
     /\ job' = IF e \in McpEvents THEN job ELSE Insert(<<e, ver>>, gen)
     /\ UNCHANGED <<purged, worker, author, wiki>>

\* The MCP client asks the server to build what it submitted.
RequestBuild(e) ==
  LET src == head[DocOf[e]]
  IN /\ e \in McpEvents /\ src.live /\ binding[e] = src.gen
     /\ job' = Insert(<<e, src.ver>>, src.gen)
     /\ UNCHANGED <<sources, worker, author, wiki>>

\* Mutant: the head goes with the first binding.
LastBinding_Mutant(e) == TRUE

\* Nothing else is bound to the head that e is bound to.
LastBinding(e) ==
  \A f \in Events \ {e} : ~(DocOf[f] = DocOf[e] /\ binding[f] = binding[e])

\* The removal of a bookmark; a second delivery finds its job and does nothing.
Unmark(r) ==
  LET e == MarkOf[r]
  IN /\ job[r].status = "absent" /\ binding[e] # 0
     /\ binding' = [binding EXCEPT ![e] = 0]
     /\ head' = [head EXCEPT ![DocOf[e]].live = @ /\ ~LastBinding(e)]
     /\ job' = Insert(r, 0)
     /\ UNCHANGED <<purged, worker, author, wiki>>

\* The scheduler, for users with an active wiki and no open rebuild of its own.
ScheduleMaintenance(k) ==
  /\ wiki.active
  /\ \A m \in Maintenance : job[m].status \notin {"queued", "running"}
  /\ job' = Insert(k, 0)
  /\ UNCHANGED <<sources, worker, author, wiki>>

----------------------------------------------------------------------------
(* Workers. *)

\* A running job is claimed again when its lease is over.
Claim(w, k) ==
  /\ worker[w].step = "idle"
  /\ job[k].status \in {"queued", "running"} /\ job[k].owner # w
  /\ job' = [job EXCEPT ![k].status = "running", ![k].owner = w]
  /\ worker' = [worker EXCEPT ![w] = [Idle EXCEPT !.step = "claimed", !.job = k]]
  /\ UNCHANGED <<sources, author, wiki>>

\* Mutant: builds of a user run side by side.
LockFree_Mutant(w) == TRUE

\* The session lock personal_wiki_build:<user>, held from the first read to the
\* end of the job, and let go by a connection that breaks.
LockFree(w) == \A u \in Workers \ {w} : worker[u].step \notin {"building", "written"}

\* Mutant: removed heads are read too.
Manifest_Removed_Mutant ==
  [d \in Docs |-> IF head[d].gen > purged[d] THEN <<head[d].gen, head[d].ver>> ELSE None]

\* Mutant: heads without a version are read too.
Manifest_Empty_Mutant ==
  [d \in Docs |-> IF head[d].gen > 0 THEN <<head[d].gen, head[d].ver>> ELSE None]

\* The current versions of the heads that are not deleted.
Manifest == [d \in Docs |-> IF head[d].live THEN <<head[d].gen, head[d].ver>> ELSE None]

\* The first transaction of a build.  A source's build reads the version the
\* job was registered for, if its head is still there, and the pages that exist;
\* a rebuild reads every source and starts from no page.
StartBuild(w, e, v) ==
  LET d == DocOf[e]
      gen == job[<<e, v>>].gen
  IN /\ worker[w].step = "claimed" /\ worker[w].job = <<e, v>> /\ LockFree(w)
     /\ head[d].live /\ head[d].gen = gen
     /\ worker' = [worker EXCEPT ![w].step = "building",
                                 ![w].read = [NoPages EXCEPT ![d] = <<gen, v>>]]
     /\ UNCHANGED <<sources, job, author, wiki>>

StartRebuild(w) ==
  /\ worker[w].step = "claimed" /\ worker[w].job \in Rebuilds /\ LockFree(w)
  /\ worker' = [worker EXCEPT ![w].step = "building", ![w].read = Manifest]
  /\ UNCHANGED <<sources, job, author, wiki>>

\* The audit of a scheduled rebuild may find that there is nothing to do.
SkipMaintenance(w) ==
  /\ worker[w].step = "claimed" /\ worker[w].job \in Maintenance /\ LockFree(w)
  /\ wiki.active /\ PagesOf(Manifest) # {}
  /\ worker' = [worker EXCEPT ![w] = Written(worker[w].job)]
  /\ UNCHANGED <<sources, job, author, wiki>>

----------------------------------------------------------------------------
(* The write transaction of a build, under the user's transaction lock. *)

\* Mutant: only the trigger guards the write.
WriteAllowed_Mutant(k, read) == k # Mcp => job[k].status # "cancelled"

\* The trigger refuses pages of a cancelled build, and the foreign key of the
\* pages' sources refuses versions that were deleted.
WriteAllowed(k, read) ==
  /\ k # Mcp => job[k].status # "cancelled"
  /\ \A d \in PagesOf(read) : read[d][1] > purged[d]

\* Other sources' pages stay.
WithPages(read) == [d \in Docs |-> IF read[d] # None THEN read[d] ELSE wiki.pages[d]]

PersistBuild(w) ==
  LET k == worker[w].job
      read == worker[w].read
  IN /\ worker[w].step = "building" /\ k \in Builds /\ WriteAllowed(k, read)
     /\ wiki' = [pages |-> WithPages(read), active |-> TRUE]
     /\ worker' = [worker EXCEPT ![w] = Written(k)]
     /\ UNCHANGED <<sources, job, author>>

\* All pages are superseded and the pages of the sources written.
PersistRebuild(w) ==
  LET k == worker[w].job
      read == worker[w].read
  IN /\ worker[w].step = "building" /\ k \in Rebuilds
     /\ PagesOf(read) # {} /\ WriteAllowed(k, read)
     /\ wiki' = [pages |-> read, active |-> TRUE]
     /\ worker' = [worker EXCEPT ![w] = Written(k)]
     /\ UNCHANGED <<sources, job, author>>

\* A rebuild without sources supersedes all pages and retires the build.
Retire(w) ==
  /\ worker[w].step = "building" /\ PagesOf(worker[w].read) = {}
  /\ wiki' = NoWiki
  /\ worker' = [worker EXCEPT ![w] = Written(worker[w].job)]
  /\ UNCHANGED <<sources, job, author>>

----------------------------------------------------------------------------
(* The end of a job. *)

Holds(w, k) == job[k].status = "running" /\ job[k].owner = w

Complete(w) ==
  LET k == worker[w].job
  IN /\ worker[w].step = "written" /\ Holds(w, k)
     /\ job' = [job EXCEPT ![k].status = "completed", ![k].owner = None]
     /\ worker' = [worker EXCEPT ![w] = Idle]
     /\ UNCHANGED <<sources, author, wiki>>

\* A missing source, a failing model, a quality gate or a refused write; the job
\* is tried again or not.
Fail(w) ==
  LET k == worker[w].job
  IN /\ worker[w].step \in {"claimed", "building"}
     /\ \E status \in {"queued", "failed"} :
          job' = IF Holds(w, k)
                 THEN [job EXCEPT ![k].status = status, ![k].owner = None] ELSE job
     /\ worker' = [worker EXCEPT ![w] = Idle]
     /\ UNCHANGED <<sources, author, wiki>>

\* A crash, or a lost lease: nothing is written of the transaction that is open.
Vanish(w) ==
  /\ worker[w].step # "idle"
  /\ worker' = [worker EXCEPT ![w] = Idle]
  /\ UNCHANGED <<sources, job, author, wiki>>

Reap(k) ==
  /\ job[k].status = "running"
  /\ job' = [job EXCEPT ![k].status = "failed", ![k].owner = None]
  /\ UNCHANGED <<sources, worker, author, wiki>>

----------------------------------------------------------------------------
(* MCP writes and the reset. *)

StartMcpWrite(e) ==
  LET d == DocOf[e]
  IN /\ author.step = "idle" /\ e \in McpEvents
     /\ head[d].live /\ head[d].gen = binding[e]
     /\ author' = [step |-> "building", job |-> Mcp,
                   read |-> [NoPages EXCEPT ![d] = <<head[d].gen, head[d].ver>>]]
     /\ UNCHANGED <<sources, job, worker, wiki>>

PersistMcpWrite ==
  /\ author.step = "building" /\ WriteAllowed(Mcp, author.read)
  /\ wiki' = [pages |-> WithPages(author.read), active |-> TRUE]
  /\ author' = Idle
  /\ UNCHANGED <<sources, job, worker>>

AbandonMcpWrite ==
  /\ author.step = "building"
  /\ author' = Idle
  /\ UNCHANGED <<sources, job, worker, wiki>>

\* Open builds are cancelled, sources deleted, pages and builds retired.
ResetWiki ==
  /\ job' = [k \in Jobs |-> IF job[k].status \in {"queued", "running"}
                            THEN [job[k] EXCEPT !.status = "cancelled", !.owner = None]
                            ELSE job[k]]
  /\ head' = [d \in Docs |-> [gen |-> head[d].gen, ver |-> 0, live |-> FALSE]]
  /\ purged' = [d \in Docs |-> head[d].gen]
  /\ binding' = [e \in Events |-> 0]
  /\ wiki' = NoWiki
  /\ UNCHANGED <<worker, author>>

----------------------------------------------------------------------------

SourceStep ==
  \/ \E e \in Events, changed \in BOOLEAN : Save(e, changed)
  \/ \E e \in Events : RequestBuild(e)
  \/ \E r \in Removals : Unmark(r)
  \/ \E k \in Maintenance : ScheduleMaintenance(k)

WorkerStep(w) ==
  \/ \E k \in Jobs : Claim(w, k)
  \/ \E e \in Events, v \in 1 .. MaxVersion : StartBuild(w, e, v)
  \/ StartRebuild(w) \/ SkipMaintenance(w)
  \/ PersistBuild(w) \/ PersistRebuild(w) \/ Retire(w)
  \/ Complete(w) \/ Fail(w) \/ Vanish(w)

Next ==
  \/ SourceStep
  \/ \E w \in Workers : WorkerStep(w)
  \/ \E k \in Jobs : Reap(k)
  \/ \E e \in Events : StartMcpWrite(e)
  \/ PersistMcpWrite \/ AbandonMcpWrite
  \/ ResetWiki

Spec == Init /\ [][Next]_vars

----------------------------------------------------------------------------
(* Properties *)

RunType(steps, jobs) == [step : steps, job : jobs \cup {None},
                         read : [Docs -> Version \cup {None}]]

\* Every variable has its type.
TypeOK ==
  /\ head \in [Docs -> [gen : Nat, ver : 0 .. MaxVersion, live : BOOLEAN]]
  /\ purged \in [Docs -> Nat] /\ binding \in [Events -> Nat]
  /\ job \in [Jobs -> [status : {"absent", "queued", "running", "completed", "failed",
                                 "cancelled"},
                       gen : Nat, owner : Workers \cup {None}]]
  /\ worker \in [Workers -> RunType({"idle", "claimed", "building", "written"}, Jobs)]
  /\ author \in RunType({"idle", "building"}, {Mcp})
  /\ wiki \in [pages : [Docs -> Version \cup {None}], active : BOOLEAN]

\* A reset leaves nothing behind that an older build, an MCP write or a build
\* that was already running could bring back: every page is of a source stored
\* after the last reset (fastapi-mvp-api.md 70-73), and a build is active
\* exactly when there are pages.
NothingSurvivesReset ==
  /\ \A d \in Docs : wiki.pages[d] # None => wiki.pages[d][1] > purged[d]
  /\ wiki.active <=> PagesOf(wiki.pages) # {}

\* A removed source leaves the wiki: a page of a head that is no longer live is
\* there only while the rebuild of a removal is still to come, or has failed,
\* however removals, builds and late duplicates of events interleave.
RemovedSourceLeaves ==
  \A d \in Docs :
    LET page == wiki.pages[d]
    IN page # None /\ ~(head[d].live /\ head[d].gen = page[1])
       => \E r \in Removals : /\ DocOf[MarkOf[r]] = d
                              /\ job[r].status \in {"queued", "running", "failed"}

\* What was built stays: while the event of a completed build is bound to the
\* head that was built, no rebuild, removal of another event or MCP write takes
\* the pages of that head away.
BuiltSourceStays ==
  \A e \in Events, v \in 1 .. MaxVersion :
    LET k == <<e, v>>
        page == wiki.pages[DocOf[e]]
    IN job[k].status = "completed" /\ binding[e] = job[k].gen
       => page # None /\ page[1] = job[k].gen

\* The pages follow the sources, in whatever order builds, rebuilds, MCP writes, resets and
\* removals read and write.
PagesFollowSources ==
  /\ NothingSurvivesReset
  /\ RemovedSourceLeaves
  /\ BuiltSourceStays
=============================================================================
