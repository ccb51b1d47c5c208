------------------------------ MODULE WikiBuild ------------------------------
(***************************************************************************)
(* What a build writes into the wiki of one user: the names a model finds  *)
(* in a source become nodes, nodes that may be the same thing as a page    *)
(* are merged with it, relations are linked, and the plan is stored in a   *)
(* transaction of its own (src/agent/wiki_builder/features/*.py and        *)
(* persist_wiki_build of personal_wiki.py).                                *)
(*                                                                         *)
(* A name is written in some way (Names); two names may have one surface,  *)
(* what is left of a name without case, blanks and punctuation, and still  *)
(* differ in the slug that is the key of a page.  What a model answers is  *)
(* any of AnswersOf, and any decision on a conflict.  Text, summaries,     *)
(* mentions and embeddings are left out.                                   *)
(***************************************************************************)
EXTENDS Naturals, Sequences, FiniteSets

CONSTANTS
  Names,        \* what a model may call a thing
  SlugOf,       \* the slug of a name
  FoldOf,       \* the name without case, which may equal a slug
  SurfaceOf,    \* its comparison form: coarser than both
  Inputs,       \* the sources of the user
  AnswersOf,    \* per source: what the classifier may answer, the nodes of chunk after chunk
  AuthoredOf,   \* per source: classifications submitted over MCP, with a list of relations
  Types,        \* what the relation linker may call a relation
  Tasks,        \* the jobs: builds, rebuilds and MCP writes
  TaskOf,       \* what a job does: its kind and its sources in order
  Reruns,       \* bound: jobs that may run once more after they stored their plan
  Deletable,    \* bound: the pages the user may delete
  Retrieved,    \* bound: the pairs of slugs the relation linker gets as candidates
  Nothing

Kinds == {"entity", "concept"}
Slugs == {SlugOf[n] : n \in Names}
Keys == [kind : Kinds, slug : Slugs]

\* match is the page the model named, which may not exist.
Node == [kind : Kinds, name : Names, aliases : SUBSET Names, match : Slugs \cup {Nothing}]
Page == [title : Names, aliases : SUBSET Names, sources : SUBSET Inputs]
TaskKinds == {"build", "rebuild", "author"}

\* What is assumed of the constants.
NamesAreWellFormed ==
  /\ SlugOf \in [Names -> Slugs]
  /\ \A m, n \in Names : SlugOf[m] = SlugOf[n] \/ FoldOf[m] = FoldOf[n] => SurfaceOf[m] = SurfaceOf[n]
  /\ Nothing \notin Slugs
AnswersAreWellFormed ==
  \A s \in Inputs : /\ \A a \in AnswersOf[s] : a \in Seq(Node)
                    /\ \A a \in AuthoredOf[s] : a.nodes \in Seq(Node)
TasksAreWellFormed ==
  /\ \A j \in Tasks : /\ TaskOf[j].kind \in TaskKinds
                      /\ TaskOf[j].sources \in Seq(Inputs) \ {<<>>}
                      /\ TaskOf[j].kind # "rebuild" => Len(TaskOf[j].sources) = 1
  /\ Reruns \subseteq Tasks
  /\ Nothing \notin Tasks
BuildIsSound == NamesAreWellFormed /\ AnswersAreWellFormed /\ TasksAreWellFormed

VARIABLES
  docs,      \* wiki_documents that are not deleted, each with its current version
  heads,     \* wiki_document_relations that are active: two keys and a type
  supports,  \* wiki_relation_supports that are active: a relation and a source
  listing,   \* wiki_version_documents: the pages a job's build lists, and those it lists
             \* in their current version (forgotten of a retired build that cannot run again)
  active,    \* the job whose wiki_versions row is active
  task,      \* what a job remembers between its transactions
  clean      \* history: the plan stored last was made for the wiki it was stored in

buildVars == <<docs, heads, supports, listing, active, task, clean>>

NoDocs == [k \in {} |-> Nothing]
NoListing == [all |-> {}, current |-> {}]
IdleTask == [pc |-> "idle", pages |-> NoDocs, heads |-> {}, rest |-> <<>>,
         found |-> {}, nodes |-> {}, relations |-> {}, staged |-> <<>>,
         fresh |-> FALSE, rerun |-> FALSE]

---------------------------------------------------------------------------
(* Surfaces.  normalize_wiki_surface and the surfaces of a node or a page  *)

Surfaces(names) == {SurfaceOf[n] : n \in names}
NodeSurfaces(n) == Surfaces({n.name} \cup n.aliases)
PageSurfaces(p) == Surfaces({p.title} \cup p.aliases)
KeyOf(n) == [kind |-> n.kind, slug |-> n.match]

---------------------------------------------------------------------------
(* The answers to the chunks of a source become one list of nodes: of the  *)
(* nodes of a kind that name one page, or else have one name without case, *)
(* the first stays, with the aliases and the page of all                   *)
(* (merge_wiki_classifications).  The names of the others are forgotten.   *)

ChunkKey(n) == <<n.kind, IF n.match = Nothing THEN FoldOf[n.name] ELSE n.match>>
SameKey(answer, i) == {j \in DOMAIN answer : ChunkKey(answer[j]) = ChunkKey(answer[i])}
PageNamed(answer, I) ==
  LET named == {answer[i].match : i \in I} \ {Nothing}
  IN IF named = {} THEN Nothing ELSE CHOOSE m \in named : TRUE
MergeChunks(answer) ==
  [i \in {i \in DOMAIN answer : \A j \in SameKey(answer, i) : i <= j} |->
     [answer[i] EXCEPT !.aliases = UNION {answer[j].aliases : j \in SameKey(answer, i)},
                       !.match = PageNamed(answer, SameKey(answer, i))]]

---------------------------------------------------------------------------
(* Identity.  A group is a connected component of the graph over incoming  *)
(* nodes and pages whose edges are shared surfaces and named pages         *)
(* (_connected_components).                                                *)

Refs(nodes, view) == {<<"in", i>> : i \in DOMAIN nodes} \cup {<<"page", k>> : k \in DOMAIN view}
RefSurfaces(nodes, view, r) ==
  IF r[1] = "in" THEN NodeSurfaces(nodes[r[2]]) ELSE PageSurfaces(view[r[2]])
Names1(nodes, r, q) == r[1] = "in" /\ q[1] = "page" /\ KeyOf(nodes[r[2]]) = q[2]
Adjacent_Mutant(nodes, view, r, q) ==
  LET named(p) == IF p[1] = "in" THEN SurfaceOf[nodes[p[2]].name] ELSE SurfaceOf[view[p[2]].title]
  IN named(r) = named(q) \/ Names1(nodes, r, q) \/ Names1(nodes, q, r)
Adjacent(nodes, view, r, q) ==
  \/ RefSurfaces(nodes, view, r) \cap RefSurfaces(nodes, view, q) # {}
  \/ Names1(nodes, r, q)
  \/ Names1(nodes, q, r)
Component(nodes, view, r) ==
  LET all == Refs(nodes, view)
      closed == {C \in SUBSET all : r \in C /\ \A p \in C, q \in all \ C : ~Adjacent(nodes, view, p, q)}
  IN {q \in all : \A C \in closed : q \in C}
Groups(nodes, view) ==
  LET group(C) == [members |-> {r[2] : r \in {q \in C : q[1] = "in"}},
                   options |-> {r[2] : r \in {q \in C : q[1] = "page"}}]
  IN {group(Component(nodes, view, <<"in", i>>)) : i \in DOMAIN nodes}

KindsOf(nodes, g) == {nodes[i].kind : i \in g.members}
IsSettled(nodes, g) ==
  /\ Cardinality(KindsOf(nodes, g)) = 1
  /\ Cardinality(g.options) <= 1
  /\ \A k \in g.options : k.kind \in KindsOf(nodes, g)

First(S) == CHOOSE i \in S : \A j \in S : i <= j
NamesIn(nodes, g) == {nodes[i].name : i \in g.members}
AliasesIn(nodes, g) == UNION {nodes[i].aliases : i \in g.members}

\* A settled group becomes its first node, under the only page of the group.
MergeNodes(nodes, view, g) ==
  LET first == nodes[First(g.members)]
      aliases == AliasesIn(nodes, g) \cup (NamesIn(nodes, g) \ {first.name})
  IN IF g.options = {} THEN [first EXCEPT !.aliases = aliases]
     ELSE LET k == CHOOSE k \in g.options : TRUE
          IN [first EXCEPT !.match = k.slug,
                           !.aliases = aliases \cup ({first.name} \ {view[k].title})]

\* What a model may decide of a conflict: one of its pages, or a new one with an
\* incoming label.  Any other answer raises and the job fails.
Decisions(nodes, view, g) ==
  {[kind |-> k.kind, name |-> view[k].title, match |-> k.slug] : k \in g.options}
  \cup [kind : Kinds, name : NamesIn(nodes, g), match : {Nothing}]
ApplyDecision(nodes, g, d) ==
  [kind |-> d.kind, name |-> d.name, match |-> d.match,
   aliases |-> AliasesIn(nodes, g) \cup (NamesIn(nodes, g) \ {d.name})]

Conflicts(nodes, groups) == {g \in groups : ~IsSettled(nodes, g)}
Resolved(nodes, view, groups, decision) ==
  {MergeNodes(nodes, view, g) : g \in groups \ DOMAIN decision}
  \cup {ApplyDecision(nodes, g, decision[g]) : g \in DOMAIN decision}

\* validate_wiki_identity_quality
NamesMissingPage(n, view) == n.match # Nothing /\ KeyOf(n) \notin DOMAIN view
IsCanonical(nodes) ==
  \A m, n \in nodes : m # n =>
    /\ NodeSurfaces(m) \cap NodeSurfaces(n) = {}
    /\ m.match = Nothing \/ KeyOf(m) # KeyOf(n)
SameThing(a, b) == a.kind = b.kind /\ SurfaceOf[a.name] = SurfaceOf[b.name]
PassesIdentity(nodes, view, relations) ==
  /\ IsCanonical(nodes)
  /\ \A n \in nodes : ~NamesMissingPage(n, view)
  /\ \A r \in relations : ~SameThing(r.from, r.to)

---------------------------------------------------------------------------
(* Relations and the plan of one source                                    *)

\* The kinds a relation of each type may join; any other type joins none.
RelationKindPairs ==
  LET E == "entity"
      C == "concept"
  IN [entity_relation |-> {<<E, E>>}, located_in |-> {<<E, E>>}, occurs_in |-> {<<E, E>>},
      applies_concept |-> {<<E, C>>}, instance_of |-> {<<E, C>>},
      related_concept |-> {<<C, C>>}, subtopic_of |-> {<<C, C>>},
      alias_of |-> {<<E, E>>, <<C, C>>}, part_of |-> {<<E, E>>, <<E, C>>, <<C, C>>},
      affects |-> Kinds \X Kinds, causes |-> Kinds \X Kinds, associated_with |-> Kinds \X Kinds]
KindPairAllowed(a, b, type) ==
  type \in DOMAIN RelationKindPairs /\ <<a.kind, b.kind>> \in RelationKindPairs[type]

PlanKey(n, view) ==
  IF n.match # Nothing /\ KeyOf(n) \in DOMAIN view THEN KeyOf(n)
  ELSE [kind |-> n.kind, slug |-> SlugOf[n.name]]
PlanKeys(nodes, view) == {PlanKey(n, view) : n \in nodes}

\* The pages the linker is shown beside a node, and the pairs it may therefore relate.
InScope(a, b, nodes, view) ==
  /\ {a, b} \subseteq PlanKeys(nodes, view) \cup DOMAIN view
  /\ {a, b} \cap PlanKeys(nodes, view) # {}
  /\ <<a.slug, b.slug>> \in Retrieved

\* The linker may answer any pair, sure of it or not; the code keeps what is in scope,
\* between kinds that the type of relation joins, reviewed and above the floor of
\* confidence of its provenance.
Proposals(nodes, view) ==
  LET K == PlanKeys(nodes, view) \cup DOMAIN view
  IN [from : K, to : K, type : Types, sure : BOOLEAN]
Accepts(p, nodes, view) ==
  /\ p.sure
  /\ p.from # p.to
  /\ KindPairAllowed(p.from, p.to, p.type)
  /\ InScope(p.from, p.to, nodes, view)
Accepted(P, nodes, view) == {<<p.from, p.to, p.type>> : p \in {q \in P : Accepts(q, nodes, view)}}

\* Relations submitted over MCP, of any type, above the floor of confidence.  Only where
\* identities were in conflict does _rewrite_relations rewrite them: their ends follow the
\* decisions, an entity comes first, the kinds give the type, one from a thing to itself
\* is dropped, and of those that have come to say the same the first stays.
RewrittenEnd(list, decision, e) ==
  LET gs == {g \in DOMAIN decision : \E i \in g.members : SameThing(list[i], e)}
  IN IF gs = {} THEN e ELSE decision[CHOOSE g \in gs : TRUE]
TypeByKinds(a, b) ==
  IF b.kind = "entity" THEN "entity_relation"
  ELSE IF a.kind = "entity" THEN "applies_concept" ELSE "related_concept"
RewrittenRelation(list, decision, r) ==
  LET a == RewrittenEnd(list, decision, r.from)
      b == RewrittenEnd(list, decision, r.to)
  IN IF a.kind = "concept" /\ b.kind = "entity" THEN [from |-> b, to |-> a, type |-> TypeByKinds(b, a)]
     ELSE [from |-> a, to |-> b, type |-> TypeByKinds(a, b)]
RewrittenRelations(relations, list, decision) ==
  LET new == [i \in DOMAIN relations |-> RewrittenRelation(list, decision, relations[i])]
      says(i, j) == SameThing(new[i].from, new[j].from) /\ SameThing(new[i].to, new[j].to)
  IN IF DOMAIN decision = {} THEN {relations[i] : i \in DOMAIN relations}
     ELSE {new[i] : i \in {i \in DOMAIN relations :
             ~SameThing(new[i].from, new[i].to) /\ \A j \in 1 .. i - 1 : ~says(i, j)}}

\* The plan finds an end by page or by name without case, or drops the relation.
EndKeys(nodes, view, e) ==
  LET mine == {PlanKey(n, view) : n \in {m \in nodes : m.kind = e.kind /\ FoldOf[m.name] = FoldOf[e.name]}}
      titled == {k \in DOMAIN view : k.kind = e.kind /\ FoldOf[view[k].title] = FoldOf[e.name]}
  IN IF e.match # Nothing /\ KeyOf(e) \in DOMAIN view \cup PlanKeys(nodes, view) THEN {KeyOf(e)}
     ELSE IF mine # {} THEN mine ELSE titled
AuthoredLinks(relations, nodes, view) ==
  UNION {EndKeys(nodes, view, r.from) \X EndKeys(nodes, view, r.to) \X {r.type} : r \in relations}

PlannedPage_Mutant(n, view, s) ==
  LET k == PlanKey(n, view)
  IN IF k \in DOMAIN view
       THEN [view[k] EXCEPT !.aliases = @ \cup n.aliases, !.sources = {s}]
       ELSE [title |-> n.name, aliases |-> n.aliases, sources |-> {s}]
\* A page keeps its title and gains the aliases of the node and the source.
PlannedPage(n, view, s) ==
  LET k == PlanKey(n, view)
  IN IF k \in DOMAIN view
       THEN [view[k] EXCEPT !.aliases = @ \cup n.aliases, !.sources = @ \cup {s}]
       ELSE [title |-> n.name, aliases |-> n.aliases, sources |-> {s}]
PlannedPages(nodes, view, s) ==
  [k \in PlanKeys(nodes, view) |->
     PlannedPage(CHOOSE n \in nodes : PlanKey(n, view) = k, view, s)]

\* The pages of a plan over those they are laid on.
Over(new, old) ==
  [k \in DOMAIN new \cup DOMAIN old |-> IF k \in DOMAIN new THEN new[k] ELSE old[k]]

\* build_wiki_plan: a relation whose ends have one slug is dropped whatever their
\* kinds; the relations of before are carried along.
PlanOf(r, s, links) ==
  LET own == {ab \in links : ab[1].slug # ab[2].slug}
  IN [source |-> s, pages |-> PlannedPages(r.nodes, r.pages, s), observed |-> own,
      heads |-> r.heads \cup own, found |-> r.found]

\* validate_wiki_quality: the errors about names and about relations.
SurfacesAreUnique_Mutant(view) == \A k, l \in DOMAIN view : k # l => view[k].title # view[l].title
SurfacesAreUnique(view) ==
  \A k, l \in DOMAIN view : k # l => PageSurfaces(view[k]) \cap PageSurfaces(view[l]) = {}
RelationsHold(view, rels) ==
  \A ab \in rels : /\ {ab[1], ab[2]} \subseteq DOMAIN view
                   /\ ab[1] # ab[2]
                   /\ KindPairAllowed(ab[1], ab[2], ab[3])
PassesGate(view, rels) == SurfacesAreUnique(view) /\ RelationsHold(view, rels)

---------------------------------------------------------------------------
(* Storing a plan: persist_wiki_build with sync_wiki_relation_supports.    *)
(* The snapshot of the job keeps a path it already lists.                  *)

Changed(old, new) ==
  {k \in DOMAIN new : k \in DOMAIN old => new[k] # old[k]} \cup (DOMAIN old \ DOMAIN new)
Outdated(l, old, new) == [l EXCEPT !.current = @ \ Changed(old, new)]
List(l, new, old) ==
  [all |-> l.all \cup DOMAIN new,
   current |-> Outdated(l, old, new).current \cup (DOMAIN new \ l.all)]

SyncSupports(db, plan) ==
  LET kept == {u \in db.supports : u[2] # plan.source}
      stale == {u[1] : u \in db.supports \ kept}
      live == {ab \in plan.heads : {ab[1], ab[2]} \subseteq DOMAIN db.pages}
      now == kept \cup ((plan.observed \cap live) \X {plan.source})
      bare == {ab \in stale : ~\E u \in now : u[1] = ab}
  IN [db EXCEPT !.supports = now, !.heads = (@ \cup live) \ bare]
PersistPlan(db, plan) ==
  SyncSupports([db EXCEPT !.pages = Over(plan.pages, @), !.listed = List(@, Over(plan.pages, db.pages), db.pages)],
               plan)

\* supersede_personal_wiki_for_rebuild
Superseded(db) == [pages |-> NoDocs, heads |-> {}, supports |-> {}, listed |-> NoListing]

StoredBy(j) ==
  LET plans == task[j].staged
      db == [pages |-> docs, heads |-> heads, supports |-> supports, listed |-> listing[j]]
      stored[n \in 0 .. Len(plans)] ==
        IF n = 0 THEN IF TaskOf[j].kind = "rebuild" THEN Superseded(db) ELSE db
        ELSE PersistPlan(stored[n - 1], plans[n])
  IN stored[Len(plans)]

---------------------------------------------------------------------------
(* The steps of a job                                                      *)

\* Builds and rebuilds hold the session lock of the user; an MCP write does not.
Locked(j) == TaskOf[j].kind # "author" /\ task[j].pc \in {"read", "resolved", "planned", "stored"}
LockFree == ~\E j \in Tasks : Locked(j)

BuildInit ==
  /\ docs = NoDocs /\ heads = {} /\ supports = {}
  /\ listing = [j \in Tasks |-> NoListing]
  /\ active = Nothing
  /\ task = [j \in Tasks |-> IdleTask]
  /\ clean = TRUE

\* The first transaction reads the sources and the wiki; a rebuild starts from none.
Read(j) ==
  /\ task[j].pc = "idle"
  /\ TaskOf[j].kind = "author" \/ LockFree
  /\ task' = [task EXCEPT ![j] =
       [IdleTask EXCEPT !.pc = "read", !.rest = TaskOf[j].sources, !.fresh = TRUE, !.rerun = task[j].rerun,
                    !.pages = IF TaskOf[j].kind = "rebuild" THEN NoDocs ELSE docs,
                    !.heads = IF TaskOf[j].kind = "rebuild" THEN {} ELSE heads]]
  /\ UNCHANGED <<docs, heads, supports, listing, active, clean>>

\* The gate of a plan: over all they staged for a rebuild, over the wiki they read for
\* a build and for an MCP write.
AfterPlan(r) ==
  IF r.rest # <<>> THEN "read" ELSE IF PassesGate(r.pages, r.heads) THEN "planned" ELSE "failed"
Staged(j, r, links) ==
  LET plan == PlanOf(r, Head(r.rest), links)
      next == [r EXCEPT !.staged = Append(@, plan), !.rest = Tail(@), !.nodes = {}, !.found = {}, !.relations = {},
                        !.pages = Over(plan.pages, @), !.heads = plan.heads]
  IN [next EXCEPT !.pc = AfterPlan(next)]

\* Classify a source, resolve its identities and validate them.  A build goes on to
\* the linker; an MCP write brought its relations along.
Identify(j, list, relations) ==
  LET view == task[j].pages
      groups == Groups(list, view)
      conflicts == Conflicts(list, groups)
      options == UNION {Decisions(list, view, g) : g \in conflicts}
      found == UNION {NodeSurfaces(list[i]) : i \in DOMAIN list}
  IN \E decision \in [conflicts -> options] :
       /\ \A g \in conflicts : decision[g] \in Decisions(list, view, g)
       /\ LET nodes == Resolved(list, view, groups, decision)
              brought == RewrittenRelations(relations, list, decision)
          IN task' = [task EXCEPT ![j] =
                       [@ EXCEPT !.nodes = nodes, !.found = found, !.relations = brought,
                                 !.pc = IF PassesIdentity(nodes, view, brought) THEN "resolved" ELSE "failed"]]
  /\ UNCHANGED <<docs, heads, supports, listing, active, clean>>
Classify(j) ==
  /\ task[j].pc = "read" /\ TaskOf[j].kind # "author"
  /\ \E answer \in AnswersOf[Head(task[j].rest)] : Identify(j, MergeChunks(answer), <<>>)
SubmitAuthored(j) ==
  /\ task[j].pc = "read" /\ TaskOf[j].kind = "author"
  /\ \E a \in AuthoredOf[Head(task[j].rest)] : Identify(j, a.nodes, a.relations)

\* Bound: the linker proposes at most one relation per source.
Link(j) ==
  /\ task[j].pc = "resolved" /\ TaskOf[j].kind # "author"
  /\ LET nodes == task[j].nodes
         view == task[j].pages
     IN \E P \in {{}} \cup {{p} : p \in Proposals(nodes, view)} :
          task' = [task EXCEPT ![j] = Staged(j, @, Accepted(P, nodes, view))]
  /\ UNCHANGED <<docs, heads, supports, listing, active, clean>>
PlanAuthored(j) ==
  /\ task[j].pc = "resolved" /\ TaskOf[j].kind = "author"
  /\ task' = [task EXCEPT ![j] = Staged(j, @, AuthoredLinks(@.relations, @.nodes, @.pages))]
  /\ UNCHANGED <<docs, heads, supports, listing, active, clean>>

Persist(j) ==
  /\ task[j].pc = "planned"
  /\ LET db == StoredBy(j)
     IN /\ docs' = db.pages /\ heads' = db.heads /\ supports' = db.supports
        /\ listing' = [i \in Tasks |-> IF i = j THEN db.listed
                                      ELSE IF i \in Reruns THEN Outdated(listing[i], docs, db.pages)
                                      ELSE NoListing]
  /\ active' = j
  /\ task' = [i \in Tasks |-> IF i = j THEN [IdleTask EXCEPT !.pc = "stored",
                                             !.staged = task[j].staged,
                                             !.fresh = task[j].fresh, !.rerun = task[j].rerun]
                            ELSE [task[i] EXCEPT !.fresh = FALSE]]
  /\ clean' = (task[j].fresh \/ TaskOf[j].kind = "rebuild")

Finish(j) ==
  /\ task[j].pc = "stored"
  /\ task' = [task EXCEPT ![j] = [IdleTask EXCEPT !.pc = "done"]]
  /\ UNCHANGED <<docs, heads, supports, listing, active, clean>>

\* The worker dies, or a call raises: the job may be claimed again, also when its
\* plan was stored and only its completion is missing.
Again(j) ==
  /\ \/ task[j].pc \in {"read", "resolved", "planned", "failed"}
     \/ task[j].pc = "stored" /\ j \in Reruns /\ ~task[j].rerun
  /\ task' = [task EXCEPT ![j] = [IdleTask EXCEPT !.rerun = task[j].rerun \/ task[j].pc = "stored"]]
  /\ UNCHANGED <<docs, heads, supports, listing, active, clean>>

\* The user deletes a page: its relations stay but nobody sees them again, for a page
\* of the same key will be another document (delete_wiki_document_and_record_event).
DeletePage(k) ==
  /\ k \in DOMAIN docs
  /\ docs' = [l \in DOMAIN docs \ {k} |-> docs[l]]
  /\ heads' = {ab \in heads : k \notin {ab[1], ab[2]}}
  /\ supports' = {u \in supports : k \notin {u[1][1], u[1][2]}}
  /\ task' = [i \in Tasks |-> [task[i] EXCEPT !.fresh = FALSE]]
  /\ listing' = [i \in Tasks |-> [listing[i] EXCEPT !.current = @ \ {k}]]
  /\ UNCHANGED <<active, clean>>

BuildNext == (\E k \in Deletable : DeletePage(k)) \/ \E j \in Tasks : Read(j) \/ Classify(j) \/ SubmitAuthored(j) \/ Link(j) \/ PlanAuthored(j)
                         \/ Persist(j) \/ Finish(j) \/ Again(j)
BuildSpec == BuildInit /\ [][BuildNext]_buildVars

---------------------------------------------------------------------------
(* Properties                                                              *)

\* Every part of the state has its type: what is resolved are nodes with names a source
\* uses, and a snapshot lists in its current version only what it lists.
BuildTypeOK ==
  /\ DOMAIN docs \subseteq Keys /\ \A k \in DOMAIN docs : docs[k] \in Page
  /\ heads \subseteq Keys \X Keys \X DOMAIN RelationKindPairs
  /\ supports \subseteq heads \X Inputs
  /\ active \in Tasks \cup {Nothing}
  /\ \A j \in Tasks :
       /\ task[j].pc \in {"idle", "read", "resolved", "planned", "failed", "stored", "done"}
       /\ task[j].nodes \subseteq Node
       /\ listing[j].current \subseteq listing[j].all /\ listing[j].all \subseteq Keys

\* After the identities of a source are resolved, whatever the classifier found and the
\* model decided, no two nodes would write one page; and the validation behind it fails a
\* job only over what it was given: a node that names a page that does not exist, or a
\* submitted relation between two spellings of one thing (identity_resolution.py).
ResolutionIsCanonical ==
  /\ BuildTypeOK
  /\ \A j \in Tasks :
    /\ task[j].pc = "resolved" =>
         Cardinality(PlanKeys(task[j].nodes, task[j].pages)) = Cardinality(task[j].nodes)
    /\ task[j].pc = "failed" /\ task[j].nodes # {} =>
         \/ \E n \in task[j].nodes : NamesMissingPage(n, task[j].pages)
         \/ \E r \in task[j].relations : SameThing(r.from, r.to)

\* Two pages share a surface, which stops every later build of the user at its gate, only
\* after a plan was stored in a wiki that was not the one it was made for: whatever models
\* decide, builds, rebuilds and MCP writes in turn never duplicate a page.
SurfacesStayUnique ==
  clean => \A k, l \in DOMAIN docs : k # l => PageSurfaces(docs[k]) \cap PageSurfaces(docs[l]) = {}

\* A name found in a source survives every merge, match and decision: once the plan of a
\* job that met no other writer is stored, some page of that source carries its surface.
EverySurfaceHasPage ==
  \A j \in Tasks : task[j].pc = "stored" /\ task[j].fresh =>
    \A i \in DOMAIN task[j].staged : \A s \in task[j].staged[i].found :
      \E k \in DOMAIN docs : /\ s \in PageSurfaces(docs[k])
                              /\ task[j].staged[i].source \in docs[k].sources

\* Whatever builds, rebuilds, MCP writes and deletions do, an active relation joins two
\* different existing pages of kinds its type may join, also where models and MCP writers
\* name types and kinds at will, and every active support has its relation.
RelationsAreWellFormed ==
  /\ \A ab \in heads : /\ {ab[1], ab[2]} \subseteq DOMAIN docs
                        /\ ab[1] # ab[2]
                        /\ KindPairAllowed(ab[1], ab[2], ab[3])
  /\ \A u \in supports : u[1] \in heads

Persists(j) == task[j].pc = "planned" /\ task'[j].pc = "stored"
HasSupport(ab, S) == \E u \in S : u[1] = ab
\* The append-only principle of the planner (planning.py:1-5): a build or MCP write that
\* saw the wiki it writes to takes no page, alias or source away, and leaves no relation
\* without a support that had or could have had one (_sync_wiki_relation_supports).
WritesOnlyAdd ==
  \A j \in Tasks : Persists(j) /\ task[j].fresh /\ TaskOf[j].kind # "rebuild" =>
    /\ \A k \in DOMAIN docs :
         /\ k \in DOMAIN docs'
         /\ docs'[k].title = docs[k].title
         /\ docs[k].aliases \subseteq docs'[k].aliases
         /\ docs[k].sources \subseteq docs'[k].sources
    /\ \A ab \in heads' : (ab \in heads => HasSupport(ab, supports)) => HasSupport(ab, supports')
FreshWritesOnlyAdd == [][WritesOnlyAdd]_buildVars

\* The snapshot of the active build names every page there is, in whatever version.
SnapshotListsEveryPage == active # Nothing => DOMAIN docs \subseteq listing[active].all

\* The wiki that builds, rebuilds, MCP writes and deletions leave is one later builds can
\* work on and readers can follow: no duplicate pages, lost names or dangling relations.
WikiIsSound ==
  /\ SurfacesStayUnique
  /\ EverySurfaceHasPage
  /\ RelationsAreWellFormed
  /\ SnapshotListsEveryPage
=============================================================================
