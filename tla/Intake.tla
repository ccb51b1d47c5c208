------------------------------- MODULE Intake -------------------------------
(***************************************************************************)
(* How sources of one user enter bambi-agent-api: clippings, bookmarks of  *)
(* reports, notes of MCP clients and URLs.  A request is one transaction:  *)
(* it upserts its event, finds or makes a document head, adds a version if *)
(* the body changed, and registers a job.  The service may deliver a       *)
(* request again at any time.  A URL has no body yet: its job fetches it,  *)
(* saves it in one transaction and completes in a second one, and between  *)
(* them the worker may be gone and the job be claimed anew.                *)
(*                                                                         *)
(* Heads are unique per URL and per hash of the latest body (two unique    *)
(* indexes), and a statement that breaks an index ends its transaction.    *)
(* What a build writes is the matter of PersonalWiki and WikiBuild.        *)
(***************************************************************************)
EXTENDS Naturals, Sequences, FiniteSets

CONSTANTS
  Clips, Links, Marks, Notes, \* source_event_ids: clippings, URLs, bookmarks, MCP notes
  Removals,                   \* source_event_ids of bookmark removals
  UrlOf,                      \* the URL of a clipping or link
  BodyOf,                     \* the body of a clipping or note
  ReportOf,                   \* the bodies of the versions of a bookmarked report
  MarkOf,                     \* marked_source_event_id of a removal
  Urls, Bodies,
  Slots,                      \* slots of the URL collection worker
  Unreadable,                 \* what a blocked page reads as
  Null,
  MaxHeads, MaxVersions       \* bounds: heads made, versions of a head

Events == Clips \cup Links \cup Marks \cup Notes
Jobs == (Events \X (0 .. MaxVersions)) \cup (Removals \X {0})

\* What is assumed of the constants.
RequestsAreWellFormed ==
  /\ Links \cap (Clips \cup Marks \cup Notes) = {} /\ Removals \cap Events = {}
  /\ UrlOf \in [Clips \cup Links -> Urls] /\ BodyOf \in [Clips \cup Notes -> Bodies]
  /\ \A e \in Marks : ReportOf[e] \in Seq(Bodies) \ {<<>>}
  /\ MarkOf \in [Removals -> Marks]
ValuesDiffer ==
  /\ Urls \cap Bodies = {} /\ Unreadable \notin Bodies
  /\ Null \notin Urls \cup Bodies \cup Slots \cup {Unreadable} /\ Null \notin Jobs
  /\ MaxHeads \in Nat /\ MaxVersions \in Nat

VARIABLES
  db,       \* the tables: head, event, binding, job (see Tables)
  report,   \* generated_content_candidates: versions of a bookmarked report
  fetcher,  \* what a slot of the URL worker holds
  answer,   \* the answer to the last delivery of a request
  again     \* ghost: the requests delivered more than once

intakeVars == <<db, report, fetcher, answer, again>>

\* user_source_documents with their versions; wiki_source_events, a removal having
\* an event too; the head an event is bound to, 0 if none; agent_jobs.
Tables ==
  [head : Seq([url : Urls \cup {Null}, hash : Bodies \cup Urls, live : BOOLEAN,
               vers : Seq([body : Bodies, event : Events])]),
   event : [Events -> [status : {"absent", "received", "processing", "completed", "failed"},
                       job : Jobs \cup {Null}]],
   binding : [Events -> 0 .. MaxHeads],
   job : [Jobs -> [status : {"absent", "queued", "running", "completed", "failed"},
                   head : 0 .. MaxHeads, owner : Slots \cup {Null}]],
   refused : BOOLEAN]

IdleSlot == [step |-> "idle", job |-> Null, body |-> Null]

IntakeInit ==
  /\ db = [head |-> <<>>,
           event |-> [e \in Events |-> [status |-> "absent", job |-> Null]],
           binding |-> [e \in Events |-> 0],
           job |-> [k \in Jobs |-> [status |-> "absent", head |-> 0, owner |-> Null]],
           refused |-> FALSE]
  /\ report = [e \in Marks |-> 1]
  /\ fetcher = [w \in Slots |-> IdleSlot]
  /\ answer = [e \in Events \cup Removals |-> "none"]
  /\ again = {}

Live(d) == {h \in DOMAIN d.head : d.head[h].live}
ByUrl(d, u) == {h \in Live(d) : u # Null /\ d.head[h].url = u}
ByHash(d, b) == {h \in Live(d) : d.head[h].hash = b}
Latest(d, h) == IF d.head[h].vers = <<>> THEN Null
                ELSE d.head[h].vers[Len(d.head[h].vers)].body
Version(d, h) == Len(d.head[h].vers)

----------------------------------------------------------------------------
(* The statements of a request; each maps the tables to the tables. *)

\* A clipping, bookmark or seed delivered again keeps an event completed; a URL
\* opens it again; a note leaves it as it is.
Received(d, e) == [d EXCEPT !.event[e].status = IF @ = "completed" THEN @ ELSE "received"]
Reopened(d, e) == [d EXCEPT !.event[e].status = "received"]
Noted(d, e) == [d EXCEPT !.event[e].status = IF @ = "absent" THEN "received" ELSE @]

\* INSERT of a head; the other side of a race is found by the SELECT after it.
NewHead(d, u, hash) ==
  [d EXCEPT !.head = Append(@, [url |-> u, hash |-> hash, live |-> TRUE, vers |-> <<>>])]

\* A body that differs from the latest is a version, and the head takes its hash,
\* which the index refuses if another live head has it.
Changed(d, h, e, b) ==
  IF Latest(d, h) = b THEN d
  ELSE [d EXCEPT !.head[h].vers = Append(@, [body |-> b, event |-> e]),
                 !.head[h].hash = b,
                 !.refused = @ \/ (d.head[h].live /\ ByHash(d, b) \ {h} # {})]

\* Mutant: deleted heads are found too.
Found_Mutant(d, u, b) ==
  LET same == {h \in DOMAIN d.head : d.head[h].hash = b}
      unnamed == {h \in same : d.head[h].url = Null}
      url == {h \in DOMAIN d.head : u # Null /\ d.head[h].url = u}
  IN IF unnamed # {} THEN unnamed ELSE IF url # {} THEN url ELSE same

\* ORDER BY (canonical_url = url) DESC LIMIT 1.  For a head without a URL (of a note
\* or bookmark) the comparison is NULL, which comes first: it is taken before the
\* head of the URL, and the event leaves that one.
Found(d, u, b) ==
  LET unnamed == {h \in ByHash(d, b) : d.head[h].url = Null}
  IN IF unnamed # {} THEN unnamed
     ELSE IF ByUrl(d, u) # {} THEN ByUrl(d, u) ELSE ByHash(d, b)

\* The head of a URL or body; the event is bound to it, anew if it was before.
UserVersion(d, e, u, b) ==
  LET found == Found(d, u, b)
      d1 == IF found = {} THEN NewHead(d, u, b) ELSE d
      h == IF found = {} THEN Len(d1.head) ELSE CHOOSE x \in found : TRUE
  IN [Changed(d1, h, e, b) EXCEPT !.binding[e] = h]

\* A job is inserted once per key, and the event is linked to what has the key.
Enqueued(d, k, h) ==
  [d EXCEPT !.job[k] = IF @.status = "absent" THEN [status |-> "queued", head |-> h, owner |-> Null]
                       ELSE @,
            !.event[k[1]].job = k]

\* personal_wiki_build, keyed by event and version.
BuildEnqueued(d, e, h) == Enqueued(d, <<e, Version(d, h)>>, h)

SaveWebClipping(e) ==
  LET d == UserVersion(Received(db, e), e, UrlOf[e], BodyOf[e])
  IN BuildEnqueued(d, e, d.binding[e])

SaveContentMark(e) ==
  LET d == UserVersion(Received(db, e), e, Null, ReportOf[e][report[e]])
  IN BuildEnqueued(d, e, d.binding[e])

SaveMcpSubmission(e) == UserVersion(Noted(db, e), e, Null, BodyOf[e])

\* The head of a URL that has none takes the hash of the URL for the time being.
RegisterUrl(e) ==
  LET d1 == IF ByUrl(db, UrlOf[e]) = {} THEN NewHead(db, UrlOf[e], UrlOf[e]) ELSE db
      h == CHOOSE x \in ByUrl(d1, UrlOf[e]) : TRUE
  IN Enqueued(Reopened(d1, e), <<e, 0>>, h)

\* Mutant: the head goes with the first binding.
Unbound_Mutant(d, e) ==
  [d EXCEPT !.binding[e] = 0, !.head[d.binding[e]].live = FALSE]

\* A head is deleted with its last binding; links have none.
Unbound(d, e) ==
  LET h == d.binding[e]
  IN [d EXCEPT !.binding[e] = 0,
               !.head[h].live = @ /\ \E f \in Events \ {e} : d.binding[f] = h]

----------------------------------------------------------------------------
(* Requests. *)

Bounded(d) == Len(d.head) <= MaxHeads /\ \A h \in DOMAIN d.head : Version(d, h) <= MaxVersions

\* A transaction that a unique index refused leaves nothing; the client gets a 500.
\* Bound: a request is delivered twice.
Commit(r, d) ==
  /\ Bounded(d) /\ r \notin again
  /\ db' = IF d.refused THEN db ELSE d
  /\ answer' = [answer EXCEPT ![r] = IF d.refused THEN "error" ELSE "accepted"]
  /\ again' = IF answer[r] = "none" THEN again ELSE again \cup {r}
  /\ UNCHANGED <<report, fetcher>>

SubmitWebClipping(e) == e \in Clips /\ Commit(e, SaveWebClipping(e))
SubmitContentMark(e) == e \in Marks /\ Commit(e, SaveContentMark(e))
SubmitMcpSource(e) == e \in Notes /\ Commit(e, SaveMcpSubmission(e))
SubmitUrlSource(e) == e \in Links /\ Commit(e, RegisterUrl(e))

\* A removal delivered again is answered with its job; one whose bookmark is not
\* bound is a 404.
DeleteContentMark(r) ==
  LET e == MarkOf[r]
      k == <<r, 0>>
      d == Unbound(db, e)
  IN IF db.job[k].status # "absent" THEN Commit(r, db)
     ELSE IF db.binding[e] = 0
          THEN /\ answer' = [answer EXCEPT ![r] = "not found"]
               /\ UNCHANGED <<db, report, fetcher, again>>
          ELSE Commit(r, [d EXCEPT !.job[k].status = "queued"])

\* The report of a bookmark is generated again: version DESC LIMIT 1.
ReviseReport(e) ==
  /\ report[e] < Len(ReportOf[e]) /\ report' = [report EXCEPT ![e] = @ + 1]
  /\ UNCHANGED <<db, fetcher, answer, again>>

----------------------------------------------------------------------------
(* Jobs. *)

\* A job sets the events that are linked to it when it starts and when it ends.
Linked(d, k, status) ==
  [d EXCEPT !.event = [e \in Events |-> IF @[e].job = k THEN [@[e] EXCEPT !.status = status]
                                        ELSE @[e]]]

\* Mutant: an end leaves the events as they are.
Ended_Mutant(k, status) == [db EXCEPT !.job[k].status = status, !.job[k].owner = Null]

Ended(k, status) ==
  Linked([db EXCEPT !.job[k].status = status, !.job[k].owner = Null], k, status)

\* A lease may lapse at any time: then the job is claimed by another slot, while the
\* first one still holds what it fetched.
ClaimUrlJob(w, e) ==
  LET k == <<e, 0>>
  IN /\ fetcher[w].step = "idle"
     /\ db.job[k].status \in {"queued", "running"} /\ db.job[k].owner # w
     /\ db' = Linked([db EXCEPT !.job[k].status = "running", !.job[k].owner = w], k, "processing")
     /\ fetcher' = [fetcher EXCEPT ![w] = [step |-> "claimed", job |-> k, body |-> Null]]
     /\ UNCHANGED <<report, answer, again>>

\* The page reads as any body, or as a block page.
FetchUrl(w) ==
  /\ fetcher[w].step = "claimed"
  /\ \E b \in Bodies \cup {Unreadable} :
       fetcher' = [fetcher EXCEPT ![w].step = "fetched", ![w].body = b]
  /\ UNCHANGED <<db, report, answer, again>>

\* The first transaction, which asks for no lease: an unchanged body completes the
\* event, a changed one registers its build.
FetchedSaved(w) ==
  LET e == fetcher[w].job[1]
      h == db.job[fetcher[w].job].head
      d == Changed(db, h, e, fetcher[w].body)
  IN IF Latest(db, h) = fetcher[w].body THEN [db EXCEPT !.event[e].status = "completed"]
     ELSE BuildEnqueued(d, e, h)

SaveFetchedUrl(w) ==
  /\ fetcher[w].step = "fetched" /\ fetcher[w].body # Unreadable
  /\ Bounded(FetchedSaved(w)) /\ ~FetchedSaved(w).refused
  /\ db' = FetchedSaved(w)
  /\ fetcher' = [fetcher EXCEPT ![w].step = "saved"]
  /\ UNCHANGED <<report, answer, again>>

Owned(w) == db.job[fetcher[w].job].status = "running" /\ db.job[fetcher[w].job].owner = w

\* The second transaction; one without the lease raises.
CompleteUrlJob(w) ==
  /\ fetcher[w].step = "saved"
  /\ db' = IF Owned(w) THEN Ended(fetcher[w].job, "completed") ELSE db
  /\ fetcher' = [fetcher EXCEPT ![w] = IdleSlot]
  /\ UNCHANGED <<report, answer, again>>

\* A blocked page and a refused transaction are no errors to retry.
FailUrlJob(w) ==
  /\ fetcher[w].step = "fetched"
  /\ fetcher[w].body = Unreadable \/ (Bounded(FetchedSaved(w)) /\ FetchedSaved(w).refused)
  /\ db' = IF Owned(w) THEN Ended(fetcher[w].job, "failed") ELSE db
  /\ fetcher' = [fetcher EXCEPT ![w] = IdleSlot]
  /\ UNCHANGED <<report, answer, again>>

\* The process dies, or its job is taken from it.
VanishFetcher(w) ==
  /\ fetcher[w].step # "idle" /\ fetcher' = [fetcher EXCEPT ![w] = IdleSlot]
  /\ UNCHANGED <<db, report, answer, again>>

\* Builds (PersonalWiki has the rebuild of a removal), and the end of a URL job whose attempts are used up.
StartBuild(k) ==
  /\ k[2] # 0
  /\ db.job[k].status = "queued"
  /\ db' = Linked([db EXCEPT !.job[k].status = "running"], k, "processing")
  /\ UNCHANGED <<report, fetcher, answer, again>>

EndBuild(k) ==
  /\ db.job[k].status = "running" /\ db.job[k].owner = Null
  /\ \E status \in {"completed", "failed"} : db' = Ended(k, status)
  /\ UNCHANGED <<report, fetcher, answer, again>>

ReapUrlJob(e) ==
  /\ db.job[<<e, 0>>].status = "running" /\ db' = Ended(<<e, 0>>, "failed")
  /\ UNCHANGED <<report, fetcher, answer, again>>

IntakeNext ==
  \/ \E e \in Events : \/ SubmitWebClipping(e) \/ SubmitContentMark(e)
                       \/ SubmitMcpSource(e) \/ SubmitUrlSource(e)
  \/ \E r \in Removals : DeleteContentMark(r)
  \/ \E e \in Marks : ReviseReport(e)
  \/ \E w \in Slots : \/ \E e \in Links : ClaimUrlJob(w, e)
                         \/ FetchUrl(w) \/ SaveFetchedUrl(w) \/ CompleteUrlJob(w)
                         \/ FailUrlJob(w) \/ VanishFetcher(w)
  \/ \E k \in Jobs : StartBuild(k) \/ EndBuild(k)
  \/ \E e \in Links : ReapUrlJob(e)

IntakeSpec == IntakeInit /\ [][IntakeNext]_intakeVars

----------------------------------------------------------------------------
(* Properties. *)

\* Types of all variables; a committed state has no refused statement, and heads are
\* unique per URL and per hash.
IntakeTypeOK ==
  /\ db \in Tables /\ ~db.refused
  /\ \A h \in Live(db) : /\ ByHash(db, db.head[h].hash) = {h}
                         /\ db.head[h].url # Null => ByUrl(db, db.head[h].url) = {h}
  /\ \A e \in Marks : report[e] \in DOMAIN ReportOf[e]
  /\ fetcher \in [Slots -> [step : {"idle", "claimed", "fetched", "saved"}, job : Jobs \cup {Null},
                               body : Bodies \cup {Unreadable, Null}]]
  /\ answer \in [Events \cup Removals -> {"none", "accepted", "error", "not found"}]
  /\ again \subseteq Events \cup Removals

\* An event that is bound is bound to a live head that has a body: whatever is saved,
\* bookmarked and removed in between, no stored source hangs on a deleted head
\* (source_ingestion.py:248-281, 1000-1021).
BoundHeadIsLive ==
  \A e \in Events : db.binding[e] # 0 => /\ db.binding[e] \in Live(db)
                                         /\ Version(db, db.binding[e]) > 0

\* The event of a request that was delivered once ends with the job it is linked to,
\* though a URL passes it from its own job to that of the build, slots save without a
\* lease, and jobs are claimed anew (jobs.py:757-763, source_ingestion.py:1188-1194).
EventEndsWithJob ==
  \A e \in Events \ again :
    LET k == db.event[e].job
    IN k # Null /\ db.job[k].status \in {"completed", "failed"}
         => db.event[e].status \in {"completed", "failed"}

\* Stored sources have their types and hang on live heads, and events end with their jobs.
SourcesAreTracked == IntakeTypeOK /\ BoundHeadIsLive /\ EventEndsWithJob

\* A request with a body the user has stored already is answered with what there is
\* (docs/fastapi-mvp-api.md:120-121).
StoredBodyIsAnswered == \A e \in Events : answer[e] # "error"
=============================================================================
