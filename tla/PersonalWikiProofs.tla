------------------------- MODULE PersonalWikiProofs -------------------------
(***************************************************************************)
(* Theorems of PersonalWiki, for every number of documents, events, jobs,  *)
(* workers, heads and versions.                                            *)
(*                                                                         *)
(* What the pages are after a write depends on what was read before it, so *)
(* the invariant speaks of reads: what a worker or an MCP client holds is  *)
(* still good, or is of before a reset, or a removal is open that will     *)
(* clean up after it.                                                      *)
(***************************************************************************)
EXTENDS PersonalWiki, TLAPS

IsLive(h, d, gen) == h[d].live /\ h[d].gen = gen
Open(j, r) == j[r].status \in {"queued", "running", "failed"}
Busy(w) == worker[w].step \in {"building", "written"}

\* A removal other than k is still to clean up after d.
CleanUp(j, d, k) == \E r \in Removals : DocOf[MarkOf[r]] = d /\ Open(j, r) /\ r # k

\* A head that lives has a version and was not deleted.
Heads ==
  \A d \in Docs : /\ purged[d] <= head[d].gen
                  /\ head[d].live => head[d].ver > 0 /\ purged[d] < head[d].gen

\* Events are bound to heads that live.
Bindings == \A e \in Events : binding[e] # 0 => IsLive(head, DocOf[e], binding[e])

\* A build names a head; what a worker works on exists; one worker at a time is
\* between its first read and the end of its job.
Claims ==
  /\ \A k \in Builds : /\ job[k].status # "absent" => job[k].gen > 0
                       /\ job[k].gen <= head[DocOf[k[1]]].gen
  /\ \A w \in Workers : worker[w].step # "idle" =>
       /\ worker[w].job \in Jobs
       /\ job[worker[w].job].status # "absent"
  /\ \A u, w \in Workers : Busy(u) /\ Busy(w) => u = w

\* A build holds the source of its job and nothing else.
Builders ==
  \A w \in Workers :
    worker[w].step = "building" /\ worker[w].job \in Builds =>
      \A d \in Docs : IF d = DocOf[worker[w].job[1]]
                      THEN worker[w].read[d] # None /\ worker[w].read[d][1] = job[worker[w].job].gen
                      ELSE worker[w].read[d] = None

\* What an MCP client holds was submitted by one, and lives or was deleted.
Author ==
  author.step = "building" =>
    /\ PagesOf(author.read) # {}
    /\ \A d \in PagesOf(author.read) :
         /\ d \in {DocOf[m] : m \in McpEvents}
         /\ author.read[d][1] > purged[d] => IsLive(head, d, author.read[d][1])

\* What a worker holds lives, or was deleted, or will be cleaned up.
Reads ==
  \A w \in Workers : worker[w].step = "building" =>
    \A d \in PagesOf(worker[w].read) :
      /\ worker[w].read[d][1] <= head[d].gen
      /\ \/ worker[w].read[d][1] <= purged[d]
         \/ IsLive(head, d, worker[w].read[d][1])
         \/ CleanUp(job, d, worker[w].job)

\* So does what is in the wiki, once a worker that wrote has ended its job too.
Pages ==
  \A d \in PagesOf(wiki.pages) :
    \/ IsLive(head, d, wiki.pages[d][1])
    \/ /\ CleanUp(job, d, None)
       /\ \A w \in Workers : worker[w].step = "written" => CleanUp(job, d, worker[w].job)

\* A source that was built and lives is in the wiki, and a worker that is to write
\* its document holds it.
Built(h, j, k) == j[k].status = "completed" /\ IsLive(h, DocOf[k[1]], j[k].gen)
Kept ==
  \A k \in Builds :
    LET d == DocOf[k[1]]
    IN /\ Built(head, job, k) => wiki.pages[d] # None /\ wiki.pages[d][1] = job[k].gen
       /\ \A w \in Workers : worker[w].step = "building" /\ Built(head, job, k) =>
            IF worker[w].read[d] # None THEN worker[w].read[d][1] = job[k].gen
            ELSE worker[w].job \in Builds
       /\ \A w \in Workers :
            worker[w].step = "written" /\ worker[w].job = k /\ IsLive(head, d, job[k].gen) =>
              wiki.pages[d] # None /\ wiki.pages[d][1] = job[k].gen

IInv ==
  /\ TypeOK /\ NothingSurvivesReset
  /\ Heads /\ Bindings /\ Claims /\ Builders /\ Author /\ Reads /\ Pages /\ Kept

----------------------------------------------------------------------------
(* Constants and jobs. *)

LEMMA JobKinds ==
  /\ Builds \subseteq Jobs /\ Rebuilds \subseteq Jobs /\ Jobs = Builds \cup Rebuilds
  /\ Rebuilds = Removals \cup Maintenance /\ Removals \cap Maintenance = {}
  /\ Builds \cap Rebuilds = {}
  /\ Mcp \notin Rebuilds /\ None \notin Rebuilds
  /\ \A k \in Builds : k[1] \in Events /\ DocOf[k[1]] \in Docs
  /\ \A e \in Events, v \in 1 .. MaxVersion : <<e, v>> \in Builds /\ <<e, v>>[1] = e
BY EventsAssumption, JobsAssumption DEF Jobs, Builds, Rebuilds

JobType == [status : {"absent", "queued", "running", "completed", "failed", "cancelled"},
            gen : Nat, owner : Workers \cup {None}]

LEMMA InsertOne ==
  ASSUME job \in [Jobs -> JobType], NEW k \in Jobs, NEW gen \in Nat, job' = Insert(k, gen)
  PROVE  /\ job' \in [Jobs -> JobType]
         /\ \A x \in Jobs : job[x].status # "absent" \/ x # k => job'[x] = job[x]
         /\ job[k].status = "absent" => job'[k].status = "queued" /\ job'[k].gen = gen
         /\ job[k].status # "absent" => job' = job
BY DEF Insert, JobType

LEMMA EndOne ==
  ASSUME job \in [Jobs -> JobType], NEW k \in Jobs,
         NEW status \in {"queued", "completed", "failed"},
         job' = [job EXCEPT ![k].status = status, ![k].owner = None]
  PROVE  /\ job' \in [Jobs -> JobType]
         /\ \A x \in Jobs : job'[x].gen = job[x].gen
         /\ \A x \in Jobs \ {k} : job'[x] = job[x]
         /\ job'[k].status = status
BY DEF JobType

LEMMA Versions ==
  ASSUME TypeOK, Heads, NEW d \in Docs, head[d].live
  PROVE  /\ <<head[d].gen, head[d].ver>> \in Version \ {None}
         /\ <<head[d].gen, head[d].ver>>[1] = head[d].gen
BY BoundsAssumption DEF TypeOK, Heads, Version

----------------------------------------------------------------------------
(* What most steps keep. *)

\* Heads that live go on, but for those of D, which a removal is to clean up.
HeadsGoOn(D) ==
  \A d \in Docs \ D, g \in Nat : IsLive(head, d, g) => IsLive(head', d, g)
RemovalsStayOpen == \A r \in Removals : Open(job, r) => Open(job', r)
CleanedUp(D) ==
  \A d \in D : /\ CleanUp(job', d, None)
               /\ \A w \in Workers : worker[w].step # "idle" => CleanUp(job', d, worker[w].job)

LEMMA CleanUpStays ==
  ASSUME RemovalsStayOpen, NEW d, NEW k, CleanUp(job, d, k)
  PROVE  CleanUp(job', d, k)
BY DEF RemovalsStayOpen, CleanUp

LEMMA ReadsStay ==
  ASSUME TypeOK, Reads, RemovalsStayOpen, NEW D, HeadsGoOn(D), CleanedUp(D),
         purged' = purged, \A d \in Docs : head[d].gen <= head'[d].gen /\ head'[d].gen \in Nat,
         \A w \in Workers : worker'[w].step = "building" =>
           \/ worker'[w] = worker[w]
           \/ \A d \in PagesOf(worker'[w].read) : IsLive(head', d, worker'[w].read[d][1])
  PROVE  Reads'
<1> SUFFICES ASSUME NEW w \in Workers, worker'[w].step = "building",
                    NEW d \in Docs, worker'[w].read[d] # None
             PROVE  /\ worker'[w].read[d][1] <= head'[d].gen
                    /\ \/ worker'[w].read[d][1] <= purged'[d]
                       \/ IsLive(head', d, worker'[w].read[d][1])
                       \/ CleanUp(job', d, worker'[w].job)
  BY DEF Reads, PagesOf
<1>1. CASE worker'[w] # worker[w]
  BY <1>1 DEF PagesOf, IsLive
<1>2. CASE worker'[w] = worker[w]
  <2>1. /\ worker[w].read[d][1] \in Nat /\ worker[w].read[d][1] <= head[d].gen
        /\ head[d].gen \in Nat
    BY <1>2 DEF TypeOK, RunType, Version, Reads, PagesOf
  <2>2. worker[w].read[d][1] <= head'[d].gen
    BY <2>1
  <2>3. \/ worker[w].read[d][1] <= purged[d]
        \/ IsLive(head, d, worker[w].read[d][1])
        \/ CleanUp(job, d, worker[w].job)
    BY <1>2 DEF Reads, PagesOf
  <2>4. CASE CleanUp(job, d, worker[w].job)
    <3>1. CleanUp(job', d, worker[w].job)
      BY <2>4, CleanUpStays
    <3>2. QED BY <1>2, <2>2, <3>1
  <2>5. CASE IsLive(head, d, worker[w].read[d][1])
    <3>1. CASE d \in D
      BY <1>2, <2>2, <3>1 DEF CleanedUp
    <3>2. CASE d \notin D
      BY <1>2, <2>1, <2>2, <2>5, <3>2 DEF HeadsGoOn
    <3>3. QED BY <3>1, <3>2
  <2>6. QED BY <1>2, <2>2, <2>3, <2>4, <2>5
<1>3. QED BY <1>1, <1>2

LEMMA PagesStay ==
  ASSUME TypeOK, Pages, RemovalsStayOpen, NEW D, HeadsGoOn(D), CleanedUp(D),
         wiki' = wiki,
         \A w \in Workers : worker'[w].step = "written" =>
           \/ worker'[w] = worker[w]
           \/ worker'[w].job \notin Removals
  PROVE  Pages'
<1> SUFFICES ASSUME NEW d \in Docs, wiki.pages[d] # None
             PROVE  \/ IsLive(head', d, wiki.pages[d][1])
                    \/ /\ CleanUp(job', d, None)
                       /\ \A w \in Workers :
                            worker'[w].step = "written" => CleanUp(job', d, worker'[w].job)
  BY DEF Pages, PagesOf
<1>1. wiki.pages[d][1] \in Nat
  BY DEF TypeOK, Version
<1>2. ASSUME CleanUp(job', d, None),
             NEW w \in Workers, worker'[w].step = "written", worker'[w].job \notin Removals
      PROVE  CleanUp(job', d, worker'[w].job)
  BY <1>2 DEF CleanUp
<1>3. CASE d \in D
  <2>1. /\ CleanUp(job', d, None)
        /\ \A w \in Workers : worker[w].step # "idle" => CleanUp(job', d, worker[w].job)
    BY <1>3 DEF CleanedUp
  <2>2. QED BY <1>2, <2>1
<1>4. CASE d \notin D /\ IsLive(head, d, wiki.pages[d][1])
  BY <1>1, <1>4 DEF HeadsGoOn
<1>5. CASE ~IsLive(head, d, wiki.pages[d][1])
  <2>1. /\ CleanUp(job, d, None)
        /\ \A w \in Workers : worker[w].step = "written" => CleanUp(job, d, worker[w].job)
    BY <1>5 DEF Pages, PagesOf
  <2>2. CleanUp(job', d, None)
    BY <2>1, CleanUpStays
  <2>3. ASSUME NEW w \in Workers, worker[w].step = "written"
        PROVE  CleanUp(job', d, worker[w].job)
    <3>1. CleanUp(job, d, worker[w].job)
      BY <2>1, <2>3
    <3>2. QED BY <3>1, CleanUpStays
  <2>4. QED BY <1>2, <2>2, <2>3
<1>6. QED BY <1>3, <1>4, <1>5

\* What a worker that is to write owes to the sources that were built.
Owes(read, k) ==
  \A x \in Builds :
    LET d == DocOf[x[1]]
    IN Built(head, job, x) => IF read[d] # None THEN read[d][1] = job[x].gen ELSE k \in Builds

\* No build is completed, and no build of a source has just written.
LEMMA KeptStays ==
  ASSUME TypeOK, TypeOK', Claims, Kept, wiki' = wiki,
         \A d \in Docs, g \in Nat : g <= head[d].gen /\ IsLive(head', d, g) => IsLive(head, d, g),
         \A k \in Builds : job[k].status # "absent" => job'[k].gen = job[k].gen,
         \A k \in Builds : job'[k].status = "completed" => job'[k] = job[k],
         \A w \in Workers : worker'[w].step = "building" =>
           worker'[w] = worker[w] \/ Owes(worker'[w].read, worker'[w].job),
         \A w \in Workers : worker'[w].step = "written" =>
           worker'[w] = worker[w] \/ worker'[w].job \notin Builds
  PROVE  Kept'
<1> SUFFICES ASSUME NEW k \in Builds
             PROVE  LET d == DocOf[k[1]]
                    IN /\ Built(head', job', k) => wiki.pages[d] # None /\ wiki.pages[d][1] = job'[k].gen
                       /\ \A w \in Workers : worker'[w].step = "building" /\ Built(head', job', k) =>
                            IF worker'[w].read[d] # None THEN worker'[w].read[d][1] = job'[k].gen
                            ELSE worker'[w].job \in Builds
                       /\ \A w \in Workers :
                            worker'[w].step = "written" /\ worker'[w].job = k /\ IsLive(head', d, job'[k].gen) =>
                              wiki.pages[d] # None /\ wiki.pages[d][1] = job'[k].gen
  BY DEF Kept
<1> DEFINE d == DocOf[k[1]]
<1>1. d \in Docs /\ k \in Jobs /\ job[k].gen \in Nat /\ job[k].gen <= head[d].gen
  BY JobKinds DEF TypeOK, Claims
<1>2. ASSUME Built(head', job', k) PROVE Built(head, job, k) /\ job'[k].gen = job[k].gen
  BY <1>1, <1>2 DEF Built
<1>3. Built(head', job', k) => wiki.pages[d] # None /\ wiki.pages[d][1] = job'[k].gen
  BY <1>2 DEF Kept
<1>4. ASSUME NEW w \in Workers, worker'[w].step = "building", Built(head', job', k)
      PROVE  IF worker'[w].read[d] # None THEN worker'[w].read[d][1] = job'[k].gen
             ELSE worker'[w].job \in Builds
  <2>1. Built(head, job, k) /\ job'[k].gen = job[k].gen
    BY <1>2, <1>4
  <2>2. CASE worker'[w] = worker[w]
    BY <1>4, <2>1, <2>2 DEF Kept
  <2>3. CASE Owes(worker'[w].read, worker'[w].job)
    BY <2>1, <2>3 DEF Owes
  <2>4. QED BY <1>4, <2>2, <2>3
<1>5. ASSUME NEW w \in Workers, worker'[w].step = "written", worker'[w].job = k, IsLive(head', d, job'[k].gen)
      PROVE  wiki.pages[d] # None /\ wiki.pages[d][1] = job'[k].gen
  <2>1. worker[w] = worker'[w] /\ job'[k].gen = job[k].gen
    BY <1>5 DEF Claims
  <2>2. IsLive(head, d, job[k].gen)
    BY <1>1, <1>5, <2>1
  <2>3. QED BY <1>5, <2>1, <2>2 DEF Kept
<1>6. QED BY <1>3, <1>4, <1>5

\* Jobs keep their heads, and no build is completed.
JobsGoOn ==
  /\ RemovalsStayOpen
  /\ \A k \in Jobs : job[k].status # "absent" => job'[k].gen = job[k].gen
  /\ \A k \in Builds : job'[k].status = "completed" => job'[k] = job[k]

\* No worker starts, writes or ends what it wrote.
WorkersGoOn ==
  \A w \in Workers : worker'[w].step \in {"building", "written"} => worker'[w] = worker[w]

LEMMA BuildersStay ==
  ASSUME IInv, JobsGoOn, WorkersGoOn
  PROVE  Builders'
<1> SUFFICES ASSUME NEW w \in Workers, worker'[w].step = "building", worker'[w].job \in Builds,
                    NEW d \in Docs
             PROVE  IF d = DocOf[worker'[w].job[1]]
                    THEN /\ worker'[w].read[d] # None
                         /\ worker'[w].read[d][1] = job'[worker'[w].job].gen
                    ELSE worker'[w].read[d] = None
  BY DEF Builders
<1>1. worker'[w] = worker[w]
  BY DEF WorkersGoOn
<1>2. worker[w].job \in Jobs /\ job[worker[w].job].status # "absent"
  BY <1>1 DEF IInv, Claims
<1>3. job'[worker[w].job].gen = job[worker[w].job].gen
  BY <1>2 DEF JobsGoOn
<1>4. QED BY <1>1, <1>3 DEF IInv, Builders

\* A step that writes nothing keeps what the pages and reads are.
LEMMA NothingWritten ==
  ASSUME IInv, TypeOK', JobsGoOn, WorkersGoOn, NEW D, HeadsGoOn(D), CleanedUp(D),
         \A d \in Docs : head[d].gen <= head'[d].gen,
         \A d \in Docs, g \in Nat : g <= head[d].gen /\ IsLive(head', d, g) => IsLive(head, d, g),
         UNCHANGED <<purged, wiki>>
  PROVE  Builders' /\ Reads' /\ Pages' /\ Kept'
<1>1. Builders'
  BY BuildersStay
<1>2. \A d \in Docs : head[d].gen <= head'[d].gen /\ head'[d].gen \in Nat
  BY DEF TypeOK
<1>3. Reads'
  BY <1>2, ReadsStay DEF IInv, JobsGoOn, WorkersGoOn
<1>4. Pages'
  BY PagesStay DEF IInv, JobsGoOn, WorkersGoOn
<1>5. \A k \in Builds : job[k].status # "absent" => job'[k].gen = job[k].gen
  BY JobKinds DEF JobsGoOn
<1>6. Kept'
  BY <1>5, KeptStays DEF IInv, JobsGoOn, WorkersGoOn
<1>7. QED BY <1>1, <1>3, <1>4, <1>6

\* The same, if no source changes either.
LEMMA SourcesAndPagesStay ==
  ASSUME IInv, TypeOK', JobsGoOn, WorkersGoOn, UNCHANGED <<sources, wiki>>
  PROVE  Builders' /\ Reads' /\ Pages' /\ Kept'
<1>1. HeadsGoOn({}) /\ CleanedUp({})
  BY DEF HeadsGoOn, CleanedUp, sources
<1>2. /\ \A d \in Docs : head[d].gen <= head'[d].gen
      /\ \A d \in Docs, g \in Nat : g <= head[d].gen /\ IsLive(head', d, g) => IsLive(head, d, g)
      /\ UNCHANGED <<purged, wiki>>
  BY DEF IInv, TypeOK, sources
<1>3. QED BY <1>1, <1>2, NothingWritten

----------------------------------------------------------------------------
(* Sources. *)

LEMMA SaveKeeps ==
  ASSUME IInv, NEW e \in Events, NEW changed \in BOOLEAN, Save(e, changed)
  PROVE  IInv'
<1> DEFINE d == DocOf[e]
           old == head[d]
           gen == IF old.live THEN old.gen ELSE old.gen + 1
           ver == IF ~old.live THEN 1 ELSE IF changed THEN old.ver + 1 ELSE old.ver
<1>1. /\ d \in Docs /\ old.gen \in Nat /\ purged[d] \in Nat /\ purged[d] <= old.gen
      /\ gen \in Nat /\ old.gen <= gen /\ purged[d] < gen
      /\ ver \in 1 .. MaxVersion
  <2>1. d \in Docs
    BY EventsAssumption
  <2>2. old \in [gen : Nat, ver : 0 .. MaxVersion, live : BOOLEAN] /\ purged[d] \in Nat
    BY <2>1 DEF IInv, TypeOK
  <2>3. purged[d] <= old.gen /\ (old.live => old.ver > 0 /\ purged[d] < old.gen)
    BY <2>1 DEF IInv, Heads
  <2>4. ver <= MaxVersion
    BY DEF Save
  <2>5. QED BY <2>1, <2>2, <2>3, <2>4, BoundsAssumption
<1>2. <<e, ver>> \in Builds /\ <<e, ver>> \in Jobs /\ <<e, ver>>[1] = e
  BY <1>1, JobKinds
<1>3. /\ job' \in [Jobs -> JobType]
      /\ \A x \in Jobs : job[x].status # "absent" => job'[x] = job[x]
      /\ \A x \in Jobs : job[x].status = "absent" =>
           job'[x] = job[x] \/ (x = <<e, ver>> /\ job'[x].status = "queued" /\ job'[x].gen = gen)
  <2>1. CASE e \in McpEvents
    BY <2>1 DEF Save, IInv, TypeOK, JobType
  <2>2. CASE e \notin McpEvents
    <3> DEFINE k == <<e, ver>>
               g == gen
    <3>1. job' = Insert(k, g)
      BY <2>2 DEF Save
    <3>2. job \in [Jobs -> JobType] /\ k \in Jobs /\ g \in Nat
      BY <1>1, <1>2 DEF IInv, TypeOK, JobType
    <3> HIDE DEF k, g
    <3>3. /\ job' \in [Jobs -> JobType]
          /\ \A x \in Jobs : job[x].status # "absent" \/ x # k => job'[x] = job[x]
          /\ job[k].status = "absent" => job'[k].status = "queued" /\ job'[k].gen = g
      BY <3>1, <3>2, InsertOne
    <3>4. QED BY <3>3 DEF k, g
  <2>3. QED BY <2>1, <2>2
<1>4. /\ head' = [head EXCEPT ![d] = [gen |-> gen, ver |-> ver, live |-> TRUE]]
      /\ binding' = [binding EXCEPT ![e] = gen]
      /\ UNCHANGED <<purged, worker, author, wiki>>
  BY DEF Save
<1>5. /\ head' \in [Docs -> [gen : Nat, ver : 0 .. MaxVersion, live : BOOLEAN]]
      /\ head'[d].gen = gen /\ head'[d].ver = ver /\ head'[d].live
      /\ \A x \in Docs \ {d} : head'[x] = head[x]
  BY <1>1, <1>4 DEF IInv, TypeOK
<1>6. binding' \in [Events -> Nat] /\ binding'[e] = gen /\ \A x \in Events \ {e} : binding'[x] = binding[x]
  BY <1>1, <1>4 DEF IInv, TypeOK
<1>7. TypeOK'
  BY <1>3, <1>4, <1>5, <1>6 DEF IInv, TypeOK, JobType
<1>8. NothingSurvivesReset'
  BY <1>4 DEF IInv, NothingSurvivesReset
<1>9. Heads'
  BY <1>1, <1>4, <1>5 DEF IInv, Heads
<1>10. \A x \in Docs, g \in Nat : IsLive(head, x, g) => IsLive(head', x, g)
  BY <1>1, <1>5 DEF IsLive
<1>11. Bindings'
  <2>1. ASSUME NEW f \in Events, f # e, binding'[f] # 0
        PROVE  IsLive(head', DocOf[f], binding'[f])
    BY <1>6, <1>10, <2>1, EventsAssumption DEF IInv, TypeOK, Bindings
  <2>2. IsLive(head', d, gen)
    BY <1>5 DEF IsLive
  <2>3. QED BY <1>6, <2>1, <2>2 DEF Bindings
<1>12. \A x \in Docs : head[x].gen <= head'[x].gen
  BY <1>1, <1>5 DEF IInv, TypeOK
<1>13. Claims'
  <2>1. ASSUME NEW k \in Builds
        PROVE  /\ job'[k].status # "absent" => job'[k].gen > 0
               /\ job'[k].gen <= head'[DocOf[k[1]]].gen
    <3>1. k \in Jobs /\ DocOf[k[1]] \in Docs /\ job[k].gen \in Nat /\ head[DocOf[k[1]]].gen \in Nat
          /\ head'[DocOf[k[1]]].gen \in Nat
      BY <1>7, JobKinds DEF IInv, TypeOK
    <3>2. CASE job'[k] = job[k]
      BY <1>12, <3>1, <3>2 DEF IInv, Claims
    <3>3. CASE job'[k] # job[k]
      BY <1>1, <1>2, <1>3, <1>5, <3>1, <3>3
    <3>4. QED BY <3>2, <3>3
  <2>2. ASSUME NEW w \in Workers, worker'[w].step # "idle"
        PROVE  worker'[w].job \in Jobs /\ job'[worker'[w].job].status # "absent"
    BY <1>3, <1>4, <2>2 DEF IInv, Claims
  <2>3. \A u, w \in Workers : Busy(u)' /\ Busy(w)' => u = w
    BY <1>4 DEF IInv, Claims, Busy
  <2>4. QED BY <2>1, <2>2, <2>3 DEF Claims
<1>14. Author'
  BY <1>4, <1>10 DEF IInv, TypeOK, RunType, Version, Author, PagesOf
<1>15. JobsGoOn /\ WorkersGoOn
  BY <1>3, <1>4, JobKinds DEF JobsGoOn, WorkersGoOn, RemovalsStayOpen, Open
<1>16. HeadsGoOn({}) /\ CleanedUp({})
  BY <1>10 DEF HeadsGoOn, CleanedUp
<1>17. \A x \in Docs, g \in Nat : g <= head[x].gen /\ IsLive(head', x, g) => IsLive(head, x, g)
  BY <1>1, <1>5 DEF IsLive
<1>18. Builders' /\ Reads' /\ Pages' /\ Kept'
  BY <1>4, <1>7, <1>12, <1>15, <1>16, <1>17, NothingWritten
<1>19. QED
  BY <1>7, <1>8, <1>9, <1>11, <1>13, <1>14, <1>18 DEF IInv

\* A job is registered and nothing else.
LEMMA OneJobMore ==
  ASSUME IInv, NEW k \in Jobs, NEW gen \in Nat, job' = Insert(k, gen),
         k \in Builds => gen > 0 /\ gen <= head[DocOf[k[1]]].gen,
         UNCHANGED <<sources, worker, author, wiki>>
  PROVE  IInv'
<1>1. /\ job' \in [Jobs -> JobType]
      /\ \A x \in Jobs : job[x].status # "absent" \/ x # k => job'[x] = job[x]
      /\ job[k].status = "absent" => job'[k].status = "queued" /\ job'[k].gen = gen
  BY InsertOne DEF IInv, TypeOK, JobType
<1>2. TypeOK'
  BY <1>1 DEF IInv, TypeOK, JobType, sources
<1>3. NothingSurvivesReset' /\ Heads' /\ Bindings' /\ Author'
  BY DEF IInv, NothingSurvivesReset, Heads, Bindings, Author, sources
<1>4. Claims'
  <2>1. ASSUME NEW x \in Builds
        PROVE  /\ job'[x].status # "absent" => job'[x].gen > 0
               /\ job'[x].gen <= head[DocOf[x[1]]].gen
    BY <1>1, JobKinds DEF IInv, Claims
  <2>2. ASSUME NEW w \in Workers, worker[w].step # "idle"
        PROVE  worker[w].job \in Jobs /\ job'[worker[w].job].status # "absent"
    BY <1>1, <2>2 DEF IInv, Claims
  <2>3. \A u, w \in Workers : Busy(u)' /\ Busy(w)' => u = w
    BY DEF IInv, Claims, Busy
  <2>4. QED BY <2>1, <2>2, <2>3 DEF Claims, sources
<1>5. JobsGoOn /\ WorkersGoOn
  BY <1>1, JobKinds DEF JobsGoOn, WorkersGoOn, RemovalsStayOpen, Open
<1>6. Builders' /\ Reads' /\ Pages' /\ Kept'
  BY <1>2, <1>5, SourcesAndPagesStay
<1>7. QED BY <1>2, <1>3, <1>4, <1>6 DEF IInv

LEMMA RequestBuildKeeps ==
  ASSUME IInv, NEW e \in Events, RequestBuild(e)
  PROVE  IInv'
<1> DEFINE src == head[DocOf[e]]
           k == <<e, src.ver>>
<1>1. src \in [gen : Nat, ver : 0 .. MaxVersion, live : BOOLEAN] /\ purged[DocOf[e]] \in Nat
  BY EventsAssumption DEF IInv, TypeOK
<1>2. src.ver > 0 /\ purged[DocOf[e]] < src.gen
  BY EventsAssumption DEF IInv, Heads, RequestBuild
<1>3. src.gen > 0 /\ src.ver \in 1 .. MaxVersion
  BY <1>1, <1>2, BoundsAssumption
<1>4. k \in Jobs /\ k[1] = e
  BY <1>3, JobKinds
<1>5. job' = Insert(k, src.gen) /\ UNCHANGED <<sources, worker, author, wiki>>
  BY DEF RequestBuild
<1>6. src.gen \in Nat /\ src.gen <= head[DocOf[k[1]]].gen
  BY <1>1, <1>4
<1> HIDE DEF k
<1>7. QED BY <1>3, <1>4, <1>5, <1>6, OneJobMore

LEMMA ScheduleMaintenanceKeeps ==
  ASSUME IInv, NEW k \in Maintenance, ScheduleMaintenance(k)
  PROVE  IInv'
BY JobKinds, OneJobMore DEF ScheduleMaintenance

LEMMA UnmarkKeeps ==
  ASSUME IInv, NEW r \in Removals, Unmark(r)
  PROVE  IInv'
<1> DEFINE e == MarkOf[r]
           d == DocOf[e]
<1>1. e \in Events \ McpEvents /\ d \in Docs /\ r \in Jobs /\ r \notin Builds
  BY EventsAssumption, JobKinds
<1>2. /\ binding[e] # 0 /\ job[r].status = "absent"
      /\ binding' = [binding EXCEPT ![e] = 0]
      /\ head' = [head EXCEPT ![d].live = @ /\ ~LastBinding(e)]
      /\ job' = Insert(r, 0)
      /\ UNCHANGED <<purged, worker, author, wiki>>
  BY DEF Unmark
<1>3. /\ job' \in [Jobs -> JobType]
      /\ \A x \in Jobs \ {r} : job'[x] = job[x]
      /\ job'[r].status = "queued"
  BY <1>1, <1>2, InsertOne DEF IInv, TypeOK, JobType
<1>4. /\ head' \in [Docs -> [gen : Nat, ver : 0 .. MaxVersion, live : BOOLEAN]]
      /\ \A x \in Docs : head'[x].gen = head[x].gen /\ head'[x].ver = head[x].ver
      /\ \A x \in Docs \ {d} : head'[x] = head[x]
      /\ head'[d].live => head[d].live
      /\ ~LastBinding(e) => head'[d].live = head[d].live
  <2> DEFINE stays == head[d].live /\ ~LastBinding(e)
  <2>1. stays \in BOOLEAN /\ head' = [head EXCEPT ![d].live = stays]
    BY <1>2
  <2>2. head \in [Docs -> [gen : Nat, ver : 0 .. MaxVersion, live : BOOLEAN]]
    BY DEF IInv, TypeOK
  <2> HIDE DEF stays
  <2>3. /\ head' \in [Docs -> [gen : Nat, ver : 0 .. MaxVersion, live : BOOLEAN]]
        /\ \A x \in Docs : head'[x].gen = head[x].gen /\ head'[x].ver = head[x].ver
        /\ \A x \in Docs \ {d} : head'[x] = head[x]
        /\ head'[d].live = stays
    BY <1>1, <2>1, <2>2
  <2>4. head[d].live \in BOOLEAN
    BY <1>1, <2>2
  <2>5. (stays => head[d].live) /\ (~LastBinding(e) => stays = head[d].live)
    BY <2>4, Zenon DEF stays
  <2>6. QED BY <2>3, <2>5
<1>5. binding' \in [Events -> Nat] /\ binding'[e] = 0 /\ \A x \in Events \ {e} : binding'[x] = binding[x]
  BY <1>1, <1>2 DEF IInv, TypeOK
<1>6. TypeOK'
  BY <1>2, <1>3, <1>4, <1>5 DEF IInv, TypeOK, JobType
<1>7. NothingSurvivesReset'
  BY <1>2 DEF IInv, NothingSurvivesReset
<1>8. Heads'
  BY <1>1, <1>2, <1>4 DEF IInv, Heads
<1>9. Bindings'
  <2>1. SUFFICES ASSUME NEW f \in Events, f # e, binding[f] # 0
                 PROVE  IsLive(head', DocOf[f], binding[f])
    BY <1>5 DEF Bindings
  <2>2. IsLive(head, DocOf[f], binding[f]) /\ IsLive(head, d, binding[e]) /\ DocOf[f] \in Docs
    BY <1>1, <1>2, <2>1, EventsAssumption DEF IInv, Bindings
  <2>3. CASE DocOf[f] = d
    <3>1. ~LastBinding(e)
      BY <2>1, <2>2, <2>3 DEF LastBinding, IsLive
    <3>2. QED BY <1>4, <2>2, <2>3, <3>1 DEF IsLive
  <2>4. CASE DocOf[f] # d
    BY <1>4, <2>2, <2>4 DEF IsLive
  <2>5. QED BY <2>3, <2>4
<1>10. Claims'
  <2>1. ASSUME NEW k \in Builds
        PROVE  /\ job'[k].status # "absent" => job'[k].gen > 0
               /\ job'[k].gen <= head'[DocOf[k[1]]].gen
    BY <1>1, <1>3, <1>4, JobKinds DEF IInv, Claims
  <2>2. ASSUME NEW w \in Workers, worker[w].step # "idle"
        PROVE  worker[w].job \in Jobs /\ job'[worker[w].job].status # "absent"
    BY <1>2, <1>3, <2>2 DEF IInv, Claims
  <2>3. \A u, w \in Workers : Busy(u)' /\ Busy(w)' => u = w
    BY <1>2 DEF IInv, Claims, Busy
  <2>4. QED BY <1>2, <2>1, <2>2, <2>3 DEF Claims
<1>11. d \notin {DocOf[m] : m \in McpEvents}
  BY <1>1, EventsAssumption
<1>12. \A x \in Docs \ {d}, g \in Nat : IsLive(head, x, g) => IsLive(head', x, g)
  BY <1>4 DEF IsLive
<1>13. Author'
  BY <1>2, <1>11, <1>12 DEF IInv, TypeOK, RunType, Version, Author, PagesOf
<1>14. JobsGoOn /\ WorkersGoOn
  BY <1>1, <1>2, <1>3, JobKinds DEF JobsGoOn, WorkersGoOn, RemovalsStayOpen, Open
<1>15. HeadsGoOn({d})
  BY <1>12 DEF HeadsGoOn
<1>16. CleanedUp({d})
  <2>1. Open(job', r)
    BY <1>3 DEF Open
  <2>2. r # None /\ \A w \in Workers : worker[w].step # "idle" => r # worker[w].job
    BY <1>2, JobKinds DEF IInv, Claims
  <2>3. QED BY <2>1, <2>2 DEF CleanedUp, CleanUp
<1>17. \A x \in Docs, g \in Nat : g <= head[x].gen /\ IsLive(head', x, g) => IsLive(head, x, g)
  BY <1>4 DEF IsLive
<1>18. \A x \in Docs : head[x].gen <= head'[x].gen
  BY <1>4 DEF IInv, TypeOK
<1>19. Builders' /\ Reads' /\ Pages' /\ Kept'
  BY <1>2, <1>6, <1>14, <1>15, <1>16, <1>17, <1>18, NothingWritten
<1>20. QED
  BY <1>6, <1>7, <1>8, <1>9, <1>10, <1>13, <1>19 DEF IInv

----------------------------------------------------------------------------
(* Workers and clients that write nothing. *)

\* Jobs change their status, and workers go back to where they hold nothing.
LEMMA StatusesChange ==
  ASSUME IInv, job' \in [Jobs -> JobType],
         \A x \in Jobs : job'[x].gen = job[x].gen,
         \A x \in Jobs : job'[x] = job[x] \/
           (job[x].status \in {"queued", "running"} /\ job'[x].status \in {"queued", "running", "failed"}),
         worker' \in [Workers -> RunType({"idle", "claimed", "building", "written"}, Jobs)],
         \A w \in Workers : \/ worker'[w] = worker[w] \/ worker'[w].step = "idle"
                            \/ /\ worker'[w].step = "claimed" /\ worker'[w].job \in Jobs
                               /\ job'[worker'[w].job].status # "absent",
         UNCHANGED <<sources, author, wiki>>
  PROVE  IInv'
<1>1. TypeOK'
  BY DEF IInv, TypeOK, JobType, sources
<1>2. NothingSurvivesReset' /\ Heads' /\ Bindings' /\ Author'
  BY DEF IInv, NothingSurvivesReset, Heads, Bindings, Author, sources
<1>3. \A x \in Jobs : job[x].status # "absent" <=> job'[x].status # "absent"
  OBVIOUS
<1>4. Claims'
  <2>1. ASSUME NEW x \in Builds
        PROVE  /\ job'[x].status # "absent" => job'[x].gen > 0
               /\ job'[x].gen <= head[DocOf[x[1]]].gen
    BY <1>3, JobKinds DEF IInv, Claims
  <2>2. ASSUME NEW w \in Workers, worker'[w].step # "idle"
        PROVE  worker'[w].job \in Jobs /\ job'[worker'[w].job].status # "absent"
    BY <1>3, <2>2 DEF IInv, Claims
  <2>3. ASSUME NEW w \in Workers, Busy(w)' PROVE Busy(w)
    BY <2>3 DEF Busy
  <2>4. \A u, w \in Workers : Busy(u)' /\ Busy(w)' => u = w
    BY <2>3 DEF IInv, Claims
  <2>5. QED BY <2>1, <2>2, <2>4 DEF Claims, sources
<1>5. JobsGoOn /\ WorkersGoOn
  BY JobKinds DEF JobsGoOn, WorkersGoOn, RemovalsStayOpen, Open
<1>6. Builders' /\ Reads' /\ Pages' /\ Kept'
  BY <1>1, <1>5, SourcesAndPagesStay
<1>7. QED BY <1>1, <1>2, <1>4, <1>6 DEF IInv

LEMMA GoneIdle ==
  ASSUME TypeOK, NEW w \in Workers, worker' = [worker EXCEPT ![w] = Idle]
  PROVE  /\ worker' \in [Workers -> RunType({"idle", "claimed", "building", "written"}, Jobs)]
         /\ worker'[w].step = "idle" /\ \A u \in Workers \ {w} : worker'[u] = worker[u]
BY DEF TypeOK, RunType, Idle, NoPages

LEMMA ClaimKeeps ==
  ASSUME IInv, NEW w \in Workers, NEW k \in Jobs, Claim(w, k)
  PROVE  IInv'
<1>1. /\ job' \in [Jobs -> JobType]
      /\ \A x \in Jobs : job'[x].gen = job[x].gen
      /\ \A x \in Jobs \ {k} : job'[x] = job[x]
      /\ job'[k].status = "running" /\ job[k].status \in {"queued", "running"}
  BY DEF Claim, IInv, TypeOK, JobType
<1>2. /\ worker' \in [Workers -> RunType({"idle", "claimed", "building", "written"}, Jobs)]
      /\ worker'[w].step = "claimed" /\ worker'[w].job = k
      /\ \A u \in Workers \ {w} : worker'[u] = worker[u]
  BY DEF Claim, Idle, NoPages, IInv, TypeOK, RunType
<1>3. UNCHANGED <<sources, author, wiki>>
  BY DEF Claim
<1>4. QED BY <1>1, <1>2, <1>3, StatusesChange

LEMMA FailKeeps ==
  ASSUME IInv, NEW w \in Workers, Fail(w)
  PROVE  IInv'
<1> DEFINE k == worker[w].job
<1>1. /\ job' \in [Jobs -> JobType]
      /\ \A x \in Jobs : job'[x].gen = job[x].gen
      /\ \A x \in Jobs : job'[x] = job[x] \/
           (job[x].status = "running" /\ job'[x].status \in {"queued", "failed"})
  <2>1. CASE ~Holds(w, k)
    BY <2>1 DEF Fail, IInv, TypeOK, JobType
  <2>2. CASE Holds(w, k)
    <3>1. PICK status \in {"queued", "failed"} :
            job' = [job EXCEPT ![k].status = status, ![k].owner = None]
      BY <2>2 DEF Fail
    <3>2. k \in Jobs /\ job[k].status = "running" /\ job \in [Jobs -> JobType]
      BY <2>2 DEF Fail, Holds, IInv, Claims, TypeOK, JobType
    <3> HIDE DEF k
    <3>3. QED BY <3>1, <3>2, EndOne
  <2>3. QED BY <2>1, <2>2
<1>2. worker' = [worker EXCEPT ![w] = Idle] /\ UNCHANGED <<sources, author, wiki>>
  BY DEF Fail
<1>3. QED BY <1>1, <1>2, GoneIdle, StatusesChange DEF IInv

LEMMA VanishKeeps ==
  ASSUME IInv, NEW w \in Workers, Vanish(w)
  PROVE  IInv'
<1>1. job' = job /\ job \in [Jobs -> JobType]
  BY DEF Vanish, IInv, TypeOK, JobType
<1>2. worker' = [worker EXCEPT ![w] = Idle] /\ UNCHANGED <<sources, author, wiki>>
  BY DEF Vanish
<1>3. QED BY <1>1, <1>2, GoneIdle, StatusesChange DEF IInv

LEMMA ReapKeeps ==
  ASSUME IInv, NEW k \in Jobs, Reap(k)
  PROVE  IInv'
<1>1. /\ job' \in [Jobs -> JobType]
      /\ \A x \in Jobs : job'[x].gen = job[x].gen
      /\ \A x \in Jobs \ {k} : job'[x] = job[x]
      /\ job'[k].status = "failed" /\ job[k].status = "running"
  BY EndOne DEF Reap, IInv, TypeOK, JobType
<1>2. UNCHANGED <<sources, worker, author, wiki>>
  BY DEF Reap
<1>3. worker' \in [Workers -> RunType({"idle", "claimed", "building", "written"}, Jobs)]
  BY <1>2 DEF IInv, TypeOK
<1>4. QED BY <1>1, <1>2, <1>3, StatusesChange

\* Only what the MCP client holds changes.
LEMMA AuthorChanges ==
  ASSUME IInv, author' \in RunType({"idle", "building"}, {Mcp}), Author',
         UNCHANGED <<sources, job, worker, wiki>>
  PROVE  IInv'
<1>1. TypeOK'
  BY DEF IInv, TypeOK, sources
<1>2. NothingSurvivesReset' /\ Heads' /\ Bindings'
  BY DEF IInv, NothingSurvivesReset, Heads, Bindings, sources
<1>3. Claims'
  BY DEF IInv, Claims, Busy, sources
<1>4. JobsGoOn /\ WorkersGoOn
  BY DEF JobsGoOn, WorkersGoOn, RemovalsStayOpen
<1>5. Builders' /\ Reads' /\ Pages' /\ Kept'
  BY <1>1, <1>4, SourcesAndPagesStay
<1>6. QED BY <1>1, <1>2, <1>3, <1>5 DEF IInv

LEMMA StartMcpWriteKeeps ==
  ASSUME IInv, NEW e \in Events, StartMcpWrite(e)
  PROVE  IInv'
<1> DEFINE d == DocOf[e]
           v == <<head[d].gen, head[d].ver>>
<1>1. /\ d \in Docs /\ e \in McpEvents /\ head[d].live
      /\ author' = [step |-> "building", job |-> Mcp, read |-> [NoPages EXCEPT ![d] = v]]
      /\ UNCHANGED <<sources, job, worker, wiki>>
  BY EventsAssumption DEF StartMcpWrite
<1>2. v \in Version /\ v # None /\ v[1] = head[d].gen
  BY <1>1, Versions DEF IInv
<1> HIDE DEF v
<1>3. /\ author'.step = "building" /\ author'.read[d] = v
      /\ \A x \in Docs \ {d} : author'.read[x] = None
      /\ author' \in RunType({"idle", "building"}, {Mcp})
  BY <1>1, <1>2 DEF NoPages, RunType
<1>4. Author'
  BY <1>1, <1>2, <1>3 DEF Author, PagesOf, IsLive, sources
<1>5. QED BY <1>1, <1>3, <1>4, AuthorChanges

LEMMA AbandonMcpWriteKeeps ==
  ASSUME IInv, AbandonMcpWrite
  PROVE  IInv'
<1>1. author' = Idle /\ UNCHANGED <<sources, job, worker, wiki>>
  BY DEF AbandonMcpWrite
<1>2. author' \in RunType({"idle", "building"}, {Mcp}) /\ Author'
  BY <1>1 DEF RunType, Idle, NoPages, Author
<1>3. QED BY <1>1, <1>2, AuthorChanges

LEMMA StutterKeeps ==
  ASSUME IInv, UNCHANGED vars
  PROVE  IInv'
<1>1. author' \in RunType({"idle", "building"}, {Mcp}) /\ Author'
  BY DEF vars, IInv, TypeOK, Author
<1>2. QED BY <1>1, AuthorChanges DEF vars, sources

----------------------------------------------------------------------------
(* Reads of a build. *)

\* A worker takes the lock and reads.
LEMMA StartKeeps ==
  ASSUME IInv, NEW w \in Workers, NEW read \in [Docs -> Version \cup {None}],
         worker[w].step = "claimed", LockFree(w),
         worker' = [worker EXCEPT ![w].step = "building", ![w].read = read],
         \A d \in Docs : read[d] # None => IsLive(head, d, read[d][1]),
         IF worker[w].job \in Builds
         THEN \A d \in Docs : IF d = DocOf[worker[w].job[1]]
                              THEN read[d] # None /\ read[d][1] = job[worker[w].job].gen
                              ELSE read[d] = None
         ELSE \A d \in Docs : head[d].live => read[d] # None,
         UNCHANGED <<sources, job, author, wiki>>
  PROVE  IInv'
<1>1. /\ worker' \in [Workers -> RunType({"idle", "claimed", "building", "written"}, Jobs)]
      /\ worker'[w].step = "building" /\ worker'[w].read = read /\ worker'[w].job = worker[w].job
      /\ \A u \in Workers \ {w} : worker'[u] = worker[u]
  BY DEF IInv, TypeOK, RunType
<1>2. TypeOK'
  BY <1>1 DEF IInv, TypeOK, sources
<1>3. NothingSurvivesReset' /\ Heads' /\ Bindings' /\ Author'
  BY DEF IInv, NothingSurvivesReset, Heads, Bindings, Author, sources
<1>4. \A u \in Workers \ {w} : worker'[u].step \notin {"building", "written"}
  BY <1>1 DEF LockFree
<1>5. Claims'
  <2>1. \A u, v \in Workers : Busy(u)' /\ Busy(v)' => u = v
    BY <1>4 DEF Busy
  <2>2. ASSUME NEW u \in Workers, worker'[u].step # "idle"
        PROVE  worker'[u].job \in Jobs /\ job[worker'[u].job].status # "absent"
    BY <1>1, <2>2 DEF IInv, Claims
  <2>3. QED BY <2>1, <2>2 DEF IInv, Claims, sources
<1>6. Builders'
  BY <1>1, <1>4 DEF Builders
<1>7. RemovalsStayOpen /\ HeadsGoOn({}) /\ CleanedUp({})
  BY DEF RemovalsStayOpen, HeadsGoOn, CleanedUp, sources
<1>8. /\ purged' = purged /\ wiki' = wiki
      /\ \A d \in Docs : head[d].gen <= head'[d].gen /\ head'[d].gen \in Nat
      /\ \A d \in Docs, g \in Nat : IsLive(head', d, g) => IsLive(head, d, g)
  BY DEF IInv, TypeOK, sources
<1>9. Reads'
  <2>1. \A d \in PagesOf(worker'[w].read) : IsLive(head', d, worker'[w].read[d][1])
    BY <1>1 DEF PagesOf, sources
  <2>2. \A u \in Workers : worker'[u].step = "building" =>
          \/ worker'[u] = worker[u]
          \/ \A d \in PagesOf(worker'[u].read) : IsLive(head', d, worker'[u].read[d][1])
    BY <1>1, <2>1
  <2>3. QED BY <1>7, <1>8, <2>2, ReadsStay DEF IInv
<1>10. Pages'
  BY <1>1, <1>7, <1>8, PagesStay DEF IInv
<1>11. Owes(read, worker[w].job)
  <2>1. SUFFICES ASSUME NEW x \in Builds, Built(head, job, x)
                 PROVE  IF read[DocOf[x[1]]] # None THEN read[DocOf[x[1]]][1] = job[x].gen
                        ELSE worker[w].job \in Builds
    BY DEF Owes
  <2>2. DocOf[x[1]] \in Docs /\ IsLive(head, DocOf[x[1]], job[x].gen)
    BY <2>1, JobKinds DEF Built
  <2>3. QED BY <2>2 DEF IsLive
<1>12. Kept'
  <2>1. \A u \in Workers : worker'[u].step = "building" =>
          worker'[u] = worker[u] \/ Owes(worker'[u].read, worker'[u].job)
    BY <1>1, <1>11
  <2>2. \A u \in Workers : worker'[u].step = "written" =>
          worker'[u] = worker[u] \/ worker'[u].job \notin Builds
    BY <1>1
  <2>3. QED BY <1>2, <1>8, <2>1, <2>2, KeptStays DEF IInv
<1>13. QED BY <1>2, <1>3, <1>5, <1>6, <1>9, <1>10, <1>12 DEF IInv

LEMMA StartBuildKeeps ==
  ASSUME IInv, NEW w \in Workers, NEW e \in Events, NEW v \in 1 .. MaxVersion, StartBuild(w, e, v)
  PROVE  IInv'
<1> DEFINE d == DocOf[e]
           gen == job[<<e, v>>].gen
           read == [NoPages EXCEPT ![d] = <<gen, v>>]
<1>1. /\ worker[w].step = "claimed" /\ worker[w].job = <<e, v>> /\ LockFree(w)
      /\ head[d].live /\ head[d].gen = gen
      /\ worker' = [worker EXCEPT ![w].step = "building", ![w].read = read]
      /\ UNCHANGED <<sources, job, author, wiki>>
  BY DEF StartBuild
<1>2. d \in Docs /\ worker[w].job \in Builds /\ worker[w].job[1] = e
  BY <1>1, EventsAssumption, JobKinds
<1>3. gen \in Nat /\ gen > 0
  BY <1>1, <1>2 DEF IInv, TypeOK, Heads
<1>4. <<gen, v>> \in Version /\ <<gen, v>> # None /\ <<gen, v>>[1] = gen
  BY <1>3, BoundsAssumption DEF Version
<1>5. /\ read \in [Docs -> Version \cup {None}]
      /\ read[d] # None /\ read[d][1] = gen /\ \A x \in Docs \ {d} : read[x] = None
  BY <1>2, <1>4 DEF NoPages
<1>6. \A x \in Docs : read[x] # None => IsLive(head, x, read[x][1])
  BY <1>1, <1>5 DEF IsLive
<1> HIDE DEF read
<1>7. IF worker[w].job \in Builds
      THEN \A x \in Docs : IF x = DocOf[worker[w].job[1]]
                           THEN read[x] # None /\ read[x][1] = job[worker[w].job].gen
                           ELSE read[x] = None
      ELSE \A x \in Docs : head[x].live => read[x] # None
  BY <1>1, <1>2, <1>5
<1>8. QED BY <1>1, <1>5, <1>6, <1>7, StartKeeps

LEMMA StartRebuildKeeps ==
  ASSUME IInv, NEW w \in Workers, StartRebuild(w)
  PROVE  IInv'
<1> DEFINE read == Manifest
<1>1. /\ read \in [Docs -> Version \cup {None}]
      /\ \A d \in Docs : IF head[d].live THEN read[d] # None /\ read[d][1] = head[d].gen
                         ELSE read[d] = None
  <2>1. \A d \in Docs : head[d].live =>
          /\ <<head[d].gen, head[d].ver>> \in Version \ {None}
          /\ <<head[d].gen, head[d].ver>>[1] = head[d].gen
    BY Versions DEF IInv
  <2>2. QED BY <2>1 DEF Manifest
<1>2. /\ worker[w].step = "claimed" /\ worker[w].job \in Rebuilds /\ LockFree(w)
      /\ worker' = [worker EXCEPT ![w].step = "building", ![w].read = read]
      /\ UNCHANGED <<sources, job, author, wiki>>
  BY DEF StartRebuild
<1> HIDE DEF read
<1>3. \A d \in Docs : read[d] # None => IsLive(head, d, read[d][1])
  BY <1>1 DEF IsLive
<1>4. worker[w].job \notin Builds /\ \A d \in Docs : head[d].live => read[d] # None
  BY <1>1, <1>2, JobKinds
<1>5. QED BY <1>1, <1>2, <1>3, <1>4, StartKeeps

LEMMA GoneWritten ==
  ASSUME TypeOK, NEW w \in Workers, NEW k \in Jobs, worker' = [worker EXCEPT ![w] = Written(k)]
  PROVE  /\ worker' \in [Workers -> RunType({"idle", "claimed", "building", "written"}, Jobs)]
         /\ worker'[w].step = "written" /\ worker'[w].job = k
         /\ \A u \in Workers \ {w} : worker'[u] = worker[u]
BY DEF TypeOK, RunType, Written, Idle, NoPages

LEMMA SkipMaintenanceKeeps ==
  ASSUME IInv, NEW w \in Workers, SkipMaintenance(w)
  PROVE  IInv'
<1> DEFINE k == worker[w].job
<1>1. /\ worker[w].step = "claimed" /\ k \in Maintenance /\ LockFree(w)
      /\ worker' = [worker EXCEPT ![w] = Written(k)]
      /\ UNCHANGED <<sources, job, author, wiki>>
  BY DEF SkipMaintenance
<1>2. k \in Jobs /\ k \notin Builds /\ k \notin Removals
  BY <1>1, JobKinds
<1>3. /\ worker' \in [Workers -> RunType({"idle", "claimed", "building", "written"}, Jobs)]
      /\ worker'[w].step = "written" /\ worker'[w].job = k
      /\ \A u \in Workers \ {w} : worker'[u] = worker[u]
  BY <1>1, <1>2, GoneWritten DEF IInv
<1> HIDE DEF k
<1>4. TypeOK'
  BY <1>1, <1>3 DEF IInv, TypeOK, sources
<1>5. NothingSurvivesReset' /\ Heads' /\ Bindings' /\ Author'
  BY <1>1 DEF IInv, NothingSurvivesReset, Heads, Bindings, Author, sources
<1>6. \A u \in Workers \ {w} : worker'[u].step \notin {"building", "written"}
  BY <1>1, <1>3 DEF LockFree
<1>7. Claims'
  <2>1. \A u, v \in Workers : Busy(u)' /\ Busy(v)' => u = v
    BY <1>6 DEF Busy
  <2>2. ASSUME NEW u \in Workers, worker'[u].step # "idle"
        PROVE  worker'[u].job \in Jobs /\ job[worker'[u].job].status # "absent"
    BY <1>1, <1>3, <2>2 DEF IInv, Claims, k
  <2>3. QED BY <1>1, <2>1, <2>2 DEF IInv, Claims, sources
<1>8. Builders'
  BY <1>3, <1>6 DEF Builders
<1>9. RemovalsStayOpen /\ HeadsGoOn({}) /\ CleanedUp({})
  BY <1>1 DEF RemovalsStayOpen, HeadsGoOn, CleanedUp, sources
<1>10. /\ purged' = purged /\ wiki' = wiki
       /\ \A d \in Docs : head[d].gen <= head'[d].gen /\ head'[d].gen \in Nat
       /\ \A d \in Docs, g \in Nat : IsLive(head', d, g) => IsLive(head, d, g)
  BY <1>1 DEF IInv, TypeOK, sources
<1>11. /\ \A u \in Workers : worker'[u].step # "building"
       /\ \A u \in Workers : worker'[u].step = "written" =>
            worker'[u] = worker[u] \/ worker'[u].job \notin Builds \cup Removals
  BY <1>2, <1>3, <1>6
<1>12. Reads'
  BY <1>11 DEF Reads
<1>13. Pages'
  BY <1>9, <1>10, <1>11, PagesStay DEF IInv
<1>14. Kept'
  BY <1>1, <1>4, <1>10, <1>11, KeptStays DEF IInv
<1>15. QED BY <1>4, <1>5, <1>7, <1>8, <1>12, <1>13, <1>14 DEF IInv

----------------------------------------------------------------------------
(* Writes of a build. *)

\* The pages of a worker's read, and of a source's build those of other sources.
LEMMA WriteKeeps ==
  ASSUME IInv, NEW w \in Workers, worker[w].step = "building",
         worker' = [worker EXCEPT ![w] = Written(worker[w].job)],
         wiki' \in [pages : [Docs -> Version \cup {None}], active : BOOLEAN],
         wiki'.active <=> PagesOf(wiki'.pages) # {},
         \A d \in Docs : wiki'.pages[d] = IF worker[w].job \in Builds /\ d # DocOf[worker[w].job[1]]
                                          THEN wiki.pages[d] ELSE worker[w].read[d],
         \A d \in Docs : worker[w].read[d] # None => worker[w].read[d][1] > purged[d],
         UNCHANGED <<sources, job, author>>
  PROVE  IInv'
<1> DEFINE k == worker[w].job
           read == worker[w].read
<1>1. k \in Jobs /\ job[k].status # "absent"
  BY DEF IInv, Claims
<1>2. /\ worker' \in [Workers -> RunType({"idle", "claimed", "building", "written"}, Jobs)]
      /\ worker'[w].step = "written" /\ worker'[w].job = k
      /\ \A u \in Workers \ {w} : worker'[u] = worker[u]
  BY <1>1, GoneWritten DEF IInv
<1>3. \A u \in Workers \ {w} : worker[u].step \notin {"building", "written"}
  BY DEF IInv, Claims, Busy
<1>4. TypeOK'
  BY <1>2 DEF IInv, TypeOK, sources
<1>5. Heads' /\ Bindings' /\ Author'
  BY DEF IInv, Heads, Bindings, Author, sources
<1>6. NothingSurvivesReset'
  BY DEF IInv, NothingSurvivesReset, sources
<1>7. Claims'
  <2>1. \A u, v \in Workers : Busy(u)' /\ Busy(v)' => u = v
    BY <1>2, <1>3 DEF Busy
  <2>2. ASSUME NEW u \in Workers, worker'[u].step # "idle"
        PROVE  worker'[u].job \in Jobs /\ job[worker'[u].job].status # "absent"
    BY <1>1, <1>2, <2>2 DEF IInv, Claims
  <2>3. QED BY <2>1, <2>2 DEF IInv, Claims, sources
<1>8. /\ \A u \in Workers : worker'[u].step # "building"
      /\ \A u \in Workers : worker'[u].step = "written" => u = w
  BY <1>2, <1>3
<1>9. Builders' /\ Reads'
  BY <1>8 DEF Builders, Reads
<1>10. Pages'
  <2>1. SUFFICES ASSUME NEW d \in Docs, wiki'.pages[d] # None, ~IsLive(head, d, wiki'.pages[d][1])
                 PROVE  CleanUp(job, d, None) /\ CleanUp(job, d, k)
    BY <1>2, <1>8 DEF Pages, PagesOf, sources
  <2>2. CASE wiki'.pages[d] = read[d]
    <3>1. read[d][1] > purged[d] /\ read[d][1] \in Nat /\ purged[d] \in Nat
      BY <2>1, <2>2 DEF IInv, TypeOK, RunType, Version
    <3>2. CleanUp(job, d, k)
      BY <2>1, <2>2, <3>1 DEF IInv, Reads, PagesOf
    <3>3. QED BY <3>2, JobKinds DEF CleanUp
  <2>3. CASE k \in Builds /\ wiki'.pages[d] = wiki.pages[d]
    <3>1. CleanUp(job, d, None)
      BY <2>1, <2>3 DEF IInv, Pages, PagesOf
    <3>2. QED BY <2>3, <3>1, JobKinds DEF CleanUp
  <2>4. QED BY <2>2, <2>3
<1>11. Kept'
  <2>1. ASSUME NEW x \in Builds, Built(head, job, x)
        PROVE  LET d == DocOf[x[1]]
               IN wiki'.pages[d] # None /\ wiki'.pages[d][1] = job[x].gen
    <3> DEFINE d == DocOf[x[1]]
    <3>1. d \in Docs
      BY JobKinds
    <3>2. wiki.pages[d] # None /\ wiki.pages[d][1] = job[x].gen
      BY <2>1 DEF IInv, Kept
    <3>3. IF read[d] # None THEN read[d][1] = job[x].gen ELSE k \in Builds
      BY <2>1 DEF IInv, Kept
    <3>4. k \in Builds /\ d = DocOf[k[1]] => read[d] # None
      BY <3>1 DEF IInv, Builders
    <3>5. CASE ~(k \in Builds /\ d # DocOf[k[1]])
      <4>1. read[d] # None /\ wiki'.pages[d] = read[d]
        BY <3>1, <3>3, <3>4, <3>5
      <4>2. QED BY <3>3, <4>1
    <3>6. CASE k \in Builds /\ d # DocOf[k[1]]
      BY <3>1, <3>2, <3>6
    <3>7. QED BY <3>1, <3>5, <3>6
  <2>2. ASSUME k \in Builds
        PROVE  LET d == DocOf[k[1]]
               IN wiki'.pages[d] # None /\ wiki'.pages[d][1] = job[k].gen
    BY <2>2, JobKinds DEF IInv, Builders
  <2>3. QED BY <1>2, <1>8, <2>1, <2>2 DEF Kept, sources, Built
<1>12. QED BY <1>4, <1>5, <1>6, <1>7, <1>9, <1>10, <1>11 DEF IInv

LEMMA PersistBuildKeeps ==
  ASSUME IInv, NEW w \in Workers, PersistBuild(w)
  PROVE  IInv'
<1> DEFINE k == worker[w].job
           read == worker[w].read
<1>1. /\ worker[w].step = "building" /\ k \in Builds
      /\ \A d \in PagesOf(read) : read[d][1] > purged[d]
      /\ wiki' = [pages |-> WithPages(read), active |-> TRUE]
      /\ worker' = [worker EXCEPT ![w] = Written(k)]
      /\ UNCHANGED <<sources, job, author>>
  BY DEF PersistBuild, WriteAllowed
<1>2. read \in [Docs -> Version \cup {None}] /\ wiki.pages \in [Docs -> Version \cup {None}]
  BY DEF IInv, TypeOK, RunType
<1>3. /\ DocOf[k[1]] \in Docs
      /\ \A d \in Docs : IF d = DocOf[k[1]] THEN read[d] # None ELSE read[d] = None
  BY <1>1, JobKinds DEF IInv, Builders
<1>4. \A d \in Docs : WithPages(read)[d] = IF d # DocOf[k[1]] THEN wiki.pages[d] ELSE read[d]
  BY <1>2, <1>3 DEF WithPages
<1>5. WithPages(read) \in [Docs -> Version \cup {None}]
  BY <1>2 DEF WithPages
<1>6. /\ wiki' \in [pages : [Docs -> Version \cup {None}], active : BOOLEAN]
      /\ wiki'.active = TRUE /\ wiki'.pages = WithPages(read)
  BY <1>1, <1>5
<1>7. wiki'.active <=> PagesOf(wiki'.pages) # {}
  BY <1>3, <1>4, <1>6 DEF PagesOf
<1>8. \A d \in Docs : wiki'.pages[d] = IF k \in Builds /\ d # DocOf[k[1]] THEN wiki.pages[d] ELSE read[d]
  BY <1>1, <1>4, <1>6
<1>9. \A d \in Docs : read[d] # None => read[d][1] > purged[d]
  BY <1>1 DEF PagesOf
<1>10. QED BY <1>1, <1>6, <1>7, <1>8, <1>9, WriteKeeps

LEMMA PersistRebuildKeeps ==
  ASSUME IInv, NEW w \in Workers, PersistRebuild(w)
  PROVE  IInv'
<1> DEFINE k == worker[w].job
           read == worker[w].read
<1>1. /\ worker[w].step = "building" /\ k \in Rebuilds /\ PagesOf(read) # {}
      /\ \A d \in PagesOf(read) : read[d][1] > purged[d]
      /\ wiki' = [pages |-> read, active |-> TRUE]
      /\ worker' = [worker EXCEPT ![w] = Written(k)]
      /\ UNCHANGED <<sources, job, author>>
  BY DEF PersistRebuild, WriteAllowed
<1>2. read \in [Docs -> Version \cup {None}]
  BY DEF IInv, TypeOK, RunType
<1>3. k \notin Builds
  BY <1>1, JobKinds
<1>4. /\ wiki' \in [pages : [Docs -> Version \cup {None}], active : BOOLEAN]
      /\ wiki'.active = TRUE /\ wiki'.pages = read
  BY <1>1, <1>2
<1>5. \A d \in Docs : read[d] # None => read[d][1] > purged[d]
  BY <1>1 DEF PagesOf
<1>6. QED BY <1>1, <1>3, <1>4, <1>5, WriteKeeps

LEMMA RetireKeeps ==
  ASSUME IInv, NEW w \in Workers, Retire(w)
  PROVE  IInv'
<1> DEFINE k == worker[w].job
           read == worker[w].read
<1>1. /\ worker[w].step = "building" /\ \A d \in Docs : read[d] = None
      /\ wiki' = NoWiki
      /\ worker' = [worker EXCEPT ![w] = Written(k)]
      /\ UNCHANGED <<sources, job, author>>
  BY DEF Retire, PagesOf
<1>2. k \notin Builds
  BY <1>1, JobKinds DEF IInv, Builders
<1>3. /\ wiki' \in [pages : [Docs -> Version \cup {None}], active : BOOLEAN]
      /\ wiki'.active = FALSE /\ \A d \in Docs : wiki'.pages[d] = None
  BY <1>1 DEF NoWiki, NoPages
<1>4. wiki'.active <=> PagesOf(wiki'.pages) # {}
  BY <1>3 DEF PagesOf
<1>5. QED BY <1>1, <1>2, <1>3, <1>4, WriteKeeps

LEMMA CompleteKeeps ==
  ASSUME IInv, NEW w \in Workers, Complete(w)
  PROVE  IInv'
<1> DEFINE k == worker[w].job
<1>1. /\ worker[w].step = "written" /\ job[k].status = "running"
      /\ job' = [job EXCEPT ![k].status = "completed", ![k].owner = None]
      /\ worker' = [worker EXCEPT ![w] = Idle]
      /\ UNCHANGED <<sources, author, wiki>>
  BY DEF Complete, Holds
<1>2. k \in Jobs /\ job \in [Jobs -> JobType]
  BY <1>1 DEF IInv, Claims, TypeOK, JobType
<1>3. /\ worker' \in [Workers -> RunType({"idle", "claimed", "building", "written"}, Jobs)]
      /\ worker'[w].step = "idle" /\ \A u \in Workers \ {w} : worker'[u] = worker[u]
  BY <1>1, GoneIdle DEF IInv
<1>4. \A u \in Workers \ {w} : worker[u].step \notin {"building", "written"}
  BY <1>1 DEF IInv, Claims, Busy
<1>5. \A u \in Workers : worker'[u].step \notin {"building", "written"}
  BY <1>3, <1>4
<1> HIDE DEF k
<1>6. /\ job' \in [Jobs -> JobType]
      /\ \A x \in Jobs : job'[x].gen = job[x].gen
      /\ \A x \in Jobs \ {k} : job'[x] = job[x]
      /\ job'[k].status = "completed"
  BY <1>1, <1>2, EndOne
<1>7. TypeOK'
  BY <1>1, <1>3, <1>6 DEF IInv, TypeOK, JobType, sources
<1>8. NothingSurvivesReset' /\ Heads' /\ Bindings' /\ Author'
  BY <1>1 DEF IInv, NothingSurvivesReset, Heads, Bindings, Author, sources
<1>9. Claims'
  <2>1. ASSUME NEW x \in Builds
        PROVE  /\ job'[x].status # "absent" => job'[x].gen > 0
               /\ job'[x].gen <= head[DocOf[x[1]]].gen
    BY <1>1, <1>6, JobKinds DEF IInv, Claims
  <2>2. ASSUME NEW u \in Workers, worker'[u].step # "idle"
        PROVE  worker'[u].job \in Jobs /\ job'[worker'[u].job].status # "absent"
    BY <1>3, <1>6, <2>2 DEF IInv, Claims
  <2>3. \A u, v \in Workers : Busy(u)' /\ Busy(v)' => u = v
    BY <1>5 DEF Busy
  <2>4. QED BY <1>1, <2>1, <2>2, <2>3 DEF Claims, sources
<1>10. Builders' /\ Reads'
  BY <1>5 DEF Builders, Reads
<1>11. Pages'
  <2>1. SUFFICES ASSUME NEW d \in Docs, wiki.pages[d] # None, ~IsLive(head, d, wiki.pages[d][1])
                 PROVE  CleanUp(job', d, None)
    BY <1>1, <1>5 DEF Pages, PagesOf, sources
  <2>2. CleanUp(job, d, k)
    BY <1>1, <2>1 DEF IInv, Pages, PagesOf, k
  <2>3. PICK r \in Removals : DocOf[MarkOf[r]] = d /\ Open(job, r) /\ r # k
    BY <2>2 DEF CleanUp
  <2>4. r \in Jobs /\ r # None
    BY JobKinds
  <2>5. Open(job', r)
    BY <1>6, <2>3, <2>4 DEF Open
  <2>6. QED BY <2>3, <2>4, <2>5 DEF CleanUp
<1>12. Kept'
  <2>1. ASSUME NEW x \in Builds, Built(head, job', x)
        PROVE  wiki.pages[DocOf[x[1]]] # None /\ wiki.pages[DocOf[x[1]]][1] = job'[x].gen
    <3>1. x \in Jobs /\ job'[x].gen = job[x].gen /\ IsLive(head, DocOf[x[1]], job[x].gen)
      BY <1>6, <2>1, JobKinds DEF Built
    <3>2. CASE x = k
      BY <1>1, <3>1, <3>2 DEF IInv, Kept, k
    <3>3. CASE x # k
      <4>1. Built(head, job, x)
        BY <1>6, <2>1, <3>1, <3>3 DEF Built
      <4>2. QED BY <3>1, <4>1 DEF IInv, Kept
    <3>4. QED BY <3>2, <3>3
  <2>2. QED BY <1>1, <1>5, <2>1 DEF Kept, sources
<1>13. QED BY <1>7, <1>8, <1>9, <1>10, <1>11, <1>12 DEF IInv

----------------------------------------------------------------------------
(* The write of an MCP client, and the reset. *)

LEMMA PersistMcpWriteKeeps ==
  ASSUME IInv, PersistMcpWrite
  PROVE  IInv'
<1> DEFINE read == author.read
<1>1. /\ author.step = "building" /\ \A d \in PagesOf(read) : read[d][1] > purged[d]
      /\ wiki' = [pages |-> WithPages(read), active |-> TRUE]
      /\ author' = Idle
      /\ UNCHANGED <<sources, job, worker>>
  BY DEF PersistMcpWrite, WriteAllowed
<1>2. read \in [Docs -> Version \cup {None}] /\ wiki.pages \in [Docs -> Version \cup {None}]
  BY DEF IInv, TypeOK, RunType
<1>3. /\ wiki' \in [pages : [Docs -> Version \cup {None}], active : BOOLEAN]
      /\ wiki'.active = TRUE
      /\ \A d \in Docs : wiki'.pages[d] = IF read[d] # None THEN read[d] ELSE wiki.pages[d]
  BY <1>1, <1>2 DEF WithPages
<1>4. /\ \E d \in Docs : read[d] # None
      /\ \A d \in Docs : read[d] # None => read[d][1] > purged[d] /\ IsLive(head, d, read[d][1])
  BY <1>1 DEF IInv, Author, PagesOf
<1>5. TypeOK'
  BY <1>1, <1>3 DEF IInv, TypeOK, RunType, Idle, NoPages, sources
<1>6. NothingSurvivesReset'
  <2>1. wiki'.active <=> PagesOf(wiki'.pages) # {}
    BY <1>3, <1>4 DEF PagesOf
  <2>2. \A d \in Docs : wiki'.pages[d] # None => wiki'.pages[d][1] > purged[d]
    BY <1>3, <1>4 DEF IInv, NothingSurvivesReset
  <2>3. QED BY <1>1, <2>1, <2>2 DEF NothingSurvivesReset, sources
<1>7. Heads' /\ Bindings' /\ Builders'
  BY <1>1 DEF IInv, Heads, Bindings, Builders, sources
<1>8. Claims' /\ Reads'
  BY <1>1 DEF IInv, Claims, Busy, Reads, sources
<1>9. Author'
  BY <1>1 DEF Author, Idle
<1>10. Pages'
  <2>1. SUFFICES ASSUME NEW d \in Docs, wiki'.pages[d] # None
                 PROVE  \/ IsLive(head, d, wiki'.pages[d][1])
                        \/ /\ CleanUp(job, d, None)
                           /\ \A w \in Workers : worker[w].step = "written" => CleanUp(job, d, worker[w].job)
    BY <1>1 DEF Pages, PagesOf, sources
  <2>2. CASE read[d] # None
    BY <1>3, <1>4, <2>2
  <2>3. CASE read[d] = None
    BY <1>3, <2>1, <2>3 DEF IInv, Pages, PagesOf
  <2>4. QED BY <2>2, <2>3
<1>11. ASSUME NEW d \in Docs, NEW g, IsLive(head, d, g), wiki.pages[d] # None, wiki.pages[d][1] = g
       PROVE  wiki'.pages[d] # None /\ wiki'.pages[d][1] = g
  BY <1>3, <1>4, <1>11 DEF IsLive
<1>12. Kept'
  <2>1. SUFFICES ASSUME NEW x \in Builds
                 PROVE  LET d == DocOf[x[1]]
                        IN /\ Built(head, job, x) => wiki'.pages[d] # None /\ wiki'.pages[d][1] = job[x].gen
                           /\ \A w \in Workers :
                                worker[w].step = "written" /\ worker[w].job = x /\ IsLive(head, d, job[x].gen)
                                  => wiki'.pages[d] # None /\ wiki'.pages[d][1] = job[x].gen
    BY <1>1 DEF IInv, Kept, sources
  <2>2. DocOf[x[1]] \in Docs
    BY JobKinds
  <2>3. Built(head, job, x) => IsLive(head, DocOf[x[1]], job[x].gen)
    BY DEF Built
  <2>4. QED BY <1>11, <2>2, <2>3 DEF IInv, Kept
<1>13. QED BY <1>5, <1>6, <1>7, <1>8, <1>9, <1>10, <1>12 DEF IInv

LEMMA ResetWikiKeeps ==
  ASSUME IInv, ResetWiki
  PROVE  IInv'
<1>1. /\ \A d \in Docs : purged[d] \in Nat /\ head[d].gen \in Nat /\ purged[d] <= head[d].gen
      /\ head \in [Docs -> [gen : Nat, ver : 0 .. MaxVersion, live : BOOLEAN]]
      /\ job \in [Jobs -> JobType]
  BY DEF IInv, TypeOK, JobType, Heads
<1>2. /\ head' \in [Docs -> [gen : Nat, ver : 0 .. MaxVersion, live : BOOLEAN]]
      /\ \A d \in Docs : head'[d].gen = head[d].gen /\ ~head'[d].live
  <2>1. 0 \in 0 .. MaxVersion
    BY BoundsAssumption
  <2>2. head' = [d \in Docs |-> [gen |-> head[d].gen, ver |-> 0, live |-> FALSE]]
    BY DEF ResetWiki
  <2>3. QED BY <1>1, <2>1, <2>2
<1>3. purged' \in [Docs -> Nat] /\ \A d \in Docs : purged'[d] = head[d].gen
  BY <1>1 DEF ResetWiki
<1>4. /\ job' \in [Jobs -> JobType]
      /\ \A k \in Jobs : job'[k].gen = job[k].gen /\ (job[k].status # "absent" <=> job'[k].status # "absent")
  BY <1>1 DEF ResetWiki, JobType
<1>5. binding' \in [Events -> Nat] /\ \A e \in Events : binding'[e] = 0
  BY DEF ResetWiki
<1>6. /\ wiki' \in [pages : [Docs -> Version \cup {None}], active : BOOLEAN]
      /\ wiki'.active = FALSE /\ \A d \in Docs : wiki'.pages[d] = None
  BY DEF ResetWiki, NoWiki, NoPages
<1>7. worker' = worker /\ author' = author
  BY DEF ResetWiki
<1>8. TypeOK'
  BY <1>2, <1>3, <1>4, <1>5, <1>6, <1>7 DEF IInv, TypeOK, JobType
<1>9. NothingSurvivesReset'
  BY <1>6 DEF NothingSurvivesReset, PagesOf
<1>10. Heads' /\ Bindings'
  BY <1>1, <1>2, <1>3, <1>5 DEF Heads, Bindings
<1>11. Claims'
  <2>1. \A k \in Builds : /\ job'[k].status # "absent" => job'[k].gen > 0
                          /\ job'[k].gen <= head'[DocOf[k[1]]].gen
    BY <1>2, <1>4, JobKinds DEF IInv, Claims
  <2>2. \A u, v \in Workers : Busy(u)' /\ Busy(v)' => u = v
    BY <1>7 DEF IInv, Claims, Busy
  <2>3. QED BY <1>4, <1>7, <2>1, <2>2 DEF IInv, Claims
<1>12. Builders'
  BY <1>4, <1>7 DEF IInv, Claims, Builders
<1>13. Author'
  <2>1. SUFFICES ASSUME author.step = "building", NEW d \in PagesOf(author.read)
                 PROVE  ~(author.read[d][1] > purged'[d])
    BY <1>7 DEF IInv, Author
  <2>2. d \in Docs /\ author.read[d][1] \in Nat
    BY DEF IInv, TypeOK, RunType, Version, PagesOf
  <2>3. author.read[d][1] <= purged[d] \/ author.read[d][1] = head[d].gen
    BY <1>1, <2>1, <2>2 DEF IInv, Author, IsLive
  <2>4. QED BY <1>1, <1>3, <2>2, <2>3
<1>14. Reads'
  BY <1>2, <1>3, <1>7 DEF IInv, Reads, PagesOf
<1>15. Pages'
  BY <1>6 DEF Pages, PagesOf
<1>16. Kept'
  BY <1>2, JobKinds DEF Kept, Built, IsLive
<1>17. QED BY <1>8, <1>9, <1>10, <1>11, <1>12, <1>13, <1>14, <1>15, <1>16 DEF IInv

----------------------------------------------------------------------------
(* Theorems. *)

LEMMA InitHolds == Init => IInv
<1> SUFFICES ASSUME Init PROVE IInv
  OBVIOUS
<1>1. TypeOK
  BY BoundsAssumption DEF Init, TypeOK, RunType, Idle, NoPages, NoWiki
<1>2. NothingSurvivesReset /\ Heads /\ Bindings /\ Author /\ Pages
  BY DEF Init, NothingSurvivesReset, Heads, Bindings, Author, Pages, PagesOf, NoWiki, NoPages, Idle
<1>3. Claims /\ Builders /\ Reads
  BY JobKinds DEF Init, Claims, Busy, Builders, Reads, Idle
<1>4. Kept
  BY JobKinds DEF Init, Kept, Built, Idle
<1>5. QED BY <1>1, <1>2, <1>3, <1>4 DEF IInv

LEMMA StepKeeps == IInv /\ [Next]_vars => IInv'
<1> SUFFICES ASSUME IInv, [Next]_vars PROVE IInv'
  OBVIOUS
<1>1. CASE UNCHANGED vars
  BY <1>1, StutterKeeps
<1>2. CASE SourceStep
  BY <1>2, SaveKeeps, RequestBuildKeeps, UnmarkKeeps, ScheduleMaintenanceKeeps DEF SourceStep
<1>3. ASSUME NEW w \in Workers, WorkerStep(w) PROVE IInv'
  BY <1>3, ClaimKeeps, StartBuildKeeps, StartRebuildKeeps, SkipMaintenanceKeeps, PersistBuildKeeps,
     PersistRebuildKeeps, RetireKeeps, CompleteKeeps, FailKeeps, VanishKeeps DEF WorkerStep
<1>4. ASSUME NEW k \in Jobs, Reap(k) PROVE IInv'
  BY <1>4, ReapKeeps
<1>5. ASSUME NEW e \in Events, StartMcpWrite(e) PROVE IInv'
  BY <1>5, StartMcpWriteKeeps
<1>6. CASE PersistMcpWrite \/ AbandonMcpWrite \/ ResetWiki
  BY <1>6, PersistMcpWriteKeeps, AbandonMcpWriteKeeps, ResetWikiKeeps
<1>7. QED BY <1>1, <1>2, <1>3, <1>4, <1>5, <1>6 DEF Next

LEMMA Invariance == Spec => []IInv
BY InitHolds, StepKeeps, PTL DEF Spec

LEMMA PagesAreAccounted == IInv => RemovedSourceLeaves /\ BuiltSourceStays
<1> SUFFICES ASSUME IInv PROVE RemovedSourceLeaves /\ BuiltSourceStays
  OBVIOUS
<1>1. ASSUME NEW d \in Docs, wiki.pages[d] # None, ~IsLive(head, d, wiki.pages[d][1])
      PROVE  \E r \in Removals : DocOf[MarkOf[r]] = d /\ job[r].status \in {"queued", "running", "failed"}
  BY <1>1 DEF IInv, Pages, PagesOf, CleanUp, Open
<1>2. RemovedSourceLeaves
  BY <1>1 DEF RemovedSourceLeaves, IsLive
<1>3. ASSUME NEW e \in Events, NEW v \in 1 .. MaxVersion,
             job[<<e, v>>].status = "completed", binding[e] = job[<<e, v>>].gen
      PROVE  wiki.pages[DocOf[e]] # None /\ wiki.pages[DocOf[e]][1] = job[<<e, v>>].gen
  <2> DEFINE k == <<e, v>>
  <2>1. k \in Builds /\ k \in Jobs /\ k[1] = e
    BY JobKinds
  <2> HIDE DEF k
  <2>2. job[k].gen > 0 /\ job[k].gen \in Nat
    BY <1>3, <2>1 DEF IInv, Claims, TypeOK, k
  <2>3. IsLive(head, DocOf[e], job[k].gen)
    BY <1>3, <2>2 DEF IInv, Bindings, k
  <2>4. Built(head, job, k)
    BY <1>3, <2>1, <2>3 DEF Built, k
  <2>5. wiki.pages[DocOf[e]] # None /\ wiki.pages[DocOf[e]][1] = job[k].gen
    BY <2>1, <2>4 DEF IInv, Kept
  <2>6. QED BY <2>5 DEF k
<1>4. BuiltSourceStays
  BY <1>3 DEF BuiltSourceStays
<1>5. QED BY <1>2, <1>4

\* Type correctness: every variable of the personal wiki keeps its type, for any number of
\* documents, events, jobs and workers.
THEOREM TypeCorrect == Spec => []TypeOK
<1>1. IInv => TypeOK
  BY DEF IInv
<1>2. QED BY <1>1, Invariance, PTL

\* Whatever a build, a rebuild or an MCP client read before a reset, no page of a source of
\* before the reset is there after it, and a wiki is active exactly while it has pages.
THEOREM ResetIsFinal == Spec => []NothingSurvivesReset
<1>1. IInv => NothingSurvivesReset
  BY DEF IInv
<1>2. QED BY <1>1, Invariance, PTL

\* The pages follow the sources: nothing survives a reset, a removed source is in the wiki
\* only while the rebuild of a removal is to come or has failed, and a source whose build is
\* completed stays while its event is bound, in every order of builds, rebuilds, removals,
\* MCP writes and resets.
THEOREM PagesAlwaysFollowSources == Spec => []PagesFollowSources
<1>1. IInv => PagesFollowSources
  BY PagesAreAccounted DEF IInv, PagesFollowSources
<1>2. QED BY <1>1, Invariance, PTL
=============================================================================
