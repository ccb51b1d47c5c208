------------------------------- MODULE Briefing -------------------------------
(***************************************************************************)
(* The morning briefing of one user (src/workers/features/                 *)
(* briefing_preparation.py, report_generation.py, src/app/services/        *)
(* briefing_topics.py, src/agent/report_builder/features/                  *)
(* briefing_topics.py, src/infrastructure/persistence/features/            *)
(* briefing_preparations.py and briefing_selections.py).                   *)
(*                                                                         *)
(* A preparation job chooses the topics of a day among the pages of the    *)
(* personal wiki, collects evidence and stores a snapshot; a briefing      *)
(* report without prepared topics prepares them itself; a report about     *)
(* named topics uses the prepared evidence if the topics are the same.     *)
(* The jobs run in different workers, the wiki changes meanwhile, and a    *)
(* worker may die at any step.                                             *)
(***************************************************************************)
EXTENDS Naturals, Sequences, FiniteSets, SequencesExt

CONSTANTS
  Jobs,        \* requests: id -> [kind, date, limit, key]; the kinds are Preparation, Brief and Named
  Candidates,  \* versions of the wiki: per version the pages by degree, [node, summary, sources]
  MaxLive,     \* _MAX_PREWARM_LIVE_TOPICS
  MaxAttempts

VARIABLES
  wiki,       \* the active version
  job,        \* per request: [status, attempts, topics]; "absent" before it is accepted
  selection,  \* the row of briefing_topic_selections, or NoSelection
  snapshot,   \* per day: the row of briefing_topic_snapshots, or NoSnapshot
  lock,       \* per serialization key: the job that holds it, 0 for none
  run,        \* per job: where its worker is
  used        \* per job: [topics, contexts] its report was written from

vars == <<wiki, job, selection, snapshot, lock, run, used>>

Dates == {j.date : j \in Range(Jobs)}
Nodes == UNION {{p.node : p \in Range(c)} : c \in Range(Candidates)}
NoSelection == [digest |-> <<>>, limit |-> 0, topics |-> <<>>, failed |-> FALSE]
NoSnapshot == [ready |-> FALSE, topics |-> <<>>, contexts |-> {}, by |-> 0, failed |-> FALSE]
Off == [pc |-> "off", pages |-> <<>>, topics |-> <<>>, contexts |-> {}, failed |-> FALSE]
Unused == [topics |-> <<>>, contexts |-> {}]

\* Wiki briefings share the key of the preparations of their day; other reports have none.
briefing_serialization_key_Mutant(j) ==
  IF Jobs[j].kind = "Named" THEN <<"none", j>> ELSE <<Jobs[j].kind, Jobs[j].date>>
briefing_serialization_key(j) ==
  IF Jobs[j].kind = "Named" THEN <<"none", j>> ELSE <<"briefing_preparation", Jobs[j].date>>
Locks == {briefing_serialization_key(j) : j \in DOMAIN Jobs}

_candidate_digest(pages) == [i \in DOMAIN pages |-> <<pages[i].node, pages[i].summary>>]

Init ==
  /\ wiki = 1
  /\ job = [j \in DOMAIN Jobs |-> [status |-> "absent", attempts |-> 0, topics |-> <<>>]]
  /\ selection = NoSelection
  /\ snapshot = [d \in Dates |-> NoSnapshot]
  /\ lock = [k \in Locks |-> 0]
  /\ run = [j \in DOMAIN Jobs |-> Off]
  /\ used = [j \in DOMAIN Jobs |-> Unused]

-----------------------------------------------------------------------------
(* Requests. *)

\* A preparation with a known idempotency key returns the job that has it.
enqueue_briefing_preparation_job(j) ==
  /\ Jobs[j].kind # "Named"
  /\ job[j].status = "absent"
  /\ \A k \in DOMAIN Jobs : Jobs[k].key = Jobs[j].key => job[k].status = "absent"
  /\ job' = [job EXCEPT ![j].status = "queued"]
  /\ UNCHANGED <<wiki, selection, snapshot, lock, run, used>>

\* The service asks for the prepared topics and requests a report about them;
\* NOT_PREPARED gives it none.
get_topics(j) ==
  LET s == snapshot[Jobs[j].date]
  IN  /\ Jobs[j].kind = "Named"
      /\ job[j].status = "absent"
      /\ s.topics # <<>>
      /\ job' = [job EXCEPT ![j].status = "queued", ![j].topics = SubSeq(s.topics, 1, IF Len(s.topics) < Jobs[j].limit THEN Len(s.topics) ELSE Jobs[j].limit)]
      /\ UNCHANGED <<wiki, selection, snapshot, lock, run, used>>

BuildWiki ==
  /\ wiki < Len(Candidates)
  /\ wiki' = wiki + 1
  /\ UNCHANGED <<job, selection, snapshot, lock, run, used>>

-----------------------------------------------------------------------------
(* A worker's attempt. *)

Claim(j) ==
  /\ job[j].status = "queued"
  /\ job' = [job EXCEPT ![j].status = "running", ![j].attempts = @ + 1]
  /\ run' = [run EXCEPT ![j] = [Off EXCEPT !.pc = "wait"]]
  /\ UNCHANGED <<wiki, selection, snapshot, lock, used>>

_lock_job_serialization_key(j) ==
  LET k == briefing_serialization_key(j)
  IN  /\ run[j].pc = "wait"
      /\ lock[k] = 0
      /\ lock' = [lock EXCEPT ![k] = j]
      /\ run' = [run EXCEPT ![j].pc = IF Jobs[j].kind = "Named" THEN "write" ELSE "look", ![j].topics = job[j].topics]
      /\ UNCHANGED <<wiki, job, selection, snapshot, used>>

Release(j) == lock' = [k \in Locks |-> IF lock[k] = j THEN 0 ELSE lock[k]]

\* A snapshot that exists is used as it is.
prepare_briefing_snapshot(j) ==
  LET s == snapshot[Jobs[j].date]
  IN  /\ run[j].pc = "look"
      /\ run' = [run EXCEPT ![j].pc = IF s.ready THEN "prepared" ELSE "candidates",
                            ![j].topics = IF s.ready THEN s.topics ELSE <<>>]
      /\ UNCHANGED <<wiki, job, selection, snapshot, lock, used>>

load_briefing_candidates(j) ==
  /\ run[j].pc = "candidates"
  /\ run' = [run EXCEPT ![j].pc = "stored", ![j].pages = Candidates[wiki]]
  /\ UNCHANGED <<wiki, job, selection, snapshot, lock, used>>

\* The choice of an earlier day is taken again for the same pages and the same
\* number of topics; a cache that cannot be read counts as a miss.
Reusable_Mutant(j) == selection.limit # 0 /\ selection.digest = _candidate_digest(run[j].pages)
Reusable(j) == selection.limit = Jobs[j].limit /\ selection.digest = _candidate_digest(run[j].pages)
_load_stored(j) ==
  /\ run[j].pc = "stored"
  /\ \/ /\ Reusable(j)
        /\ run' = [run EXCEPT ![j].pc = "collect", ![j].topics = selection.topics, ![j].failed = selection.failed]
     \/ run' = [run EXCEPT ![j].pc = "choose"]
  /\ UNCHANGED <<wiki, job, selection, snapshot, lock, used>>

\* Mutant: names that are no candidates are kept.
_parse_selection_Mutant(pages, limit) ==
  {s \in UNION {[1..n -> {p.node : p \in Range(pages)} \cup {"made up"}] : n \in 0..limit} : \A a, b \in DOMAIN s : s[a] = s[b] => a = b}

\* What the model may answer, after names that are no candidates, repeated ones
\* and those above the limit are dropped.
_parse_selection(pages, limit) ==
  {s \in UNION {[1..n -> {p.node : p \in Range(pages)}] : n \in 0..limit} : \A a, b \in DOMAIN s : s[a] = s[b] => a = b}

\* Few candidates are all taken without a call; a call that fails chooses
\* nothing.  The choice is stored, unless storing it fails.
select_briefing_topics(j) ==
  LET pages == run[j].pages
      limit == Jobs[j].limit
      Row(ts, failed) == [digest |-> _candidate_digest(pages), limit |-> limit, topics |-> ts, failed |-> failed]
      Chosen(ts, failed) == /\ run' = [run EXCEPT ![j].pc = "collect", ![j].topics = ts, ![j].failed = failed]
                            /\ selection' \in {selection, Row(ts, failed)}
  IN  /\ run[j].pc = "choose"
      /\ \/ Len(pages) <= limit /\ Chosen([i \in DOMAIN pages |-> pages[i].node], FALSE)
         \/ Len(pages) > limit /\ \E ts \in _parse_selection(pages, limit) : Chosen(ts, FALSE)
         \/ Len(pages) > limit /\ Chosen(<<>>, TRUE)
      /\ UNCHANGED <<wiki, job, snapshot, lock, used>>

\* Every topic is read from the wiki; of those that need live evidence the first get it.
_collect_prepared_contexts(j) ==
  LET ts == run[j].topics
  IN  /\ run[j].pc = "collect"
      /\ \E need \in SUBSET Range(ts) :
           LET live == SelectSeq(ts, LAMBDA t : t \in need)
           IN  run' = [run EXCEPT ![j].pc = "save",
                                  ![j].contexts = {[topic |-> t, wiki |-> wiki,
                                                    live |-> \E i \in DOMAIN live : i <= MaxLive /\ live[i] = t] : t \in Range(ts)}]
      /\ UNCHANGED <<wiki, job, selection, snapshot, lock, used>>

upsert_briefing_topic_snapshot(j) ==
  /\ run[j].pc = "save"
  /\ snapshot' = [snapshot EXCEPT ![Jobs[j].date] = [ready |-> TRUE, topics |-> run[j].topics, contexts |-> run[j].contexts,
                                                     by |-> j, failed |-> run[j].failed]]
  /\ run' = [run EXCEPT ![j].pc = "prepared"]
  /\ UNCHANGED <<wiki, job, selection, lock, used>>

\* A preparation is complete; a briefing without topics fails for good.
_prepare_wiki_briefing_topics(j) ==
  /\ run[j].pc = "prepared"
  /\ IF Jobs[j].kind = "Brief" /\ run[j].topics # <<>>
     THEN run' = [run EXCEPT ![j].pc = "write"] /\ UNCHANGED <<job, lock>>
     ELSE /\ job' = [job EXCEPT ![j].status = IF Jobs[j].kind = "Brief" THEN "failed" ELSE "completed"]
          /\ run' = [run EXCEPT ![j] = Off]
          /\ Release(j)
  /\ UNCHANGED <<wiki, selection, snapshot, used>>

\* The prepared evidence of the day, if its topics are those of the report.
_load_prewarmed_contexts(j) ==
  LET s == snapshot[Jobs[j].date]
  IN  IF s.ready /\ s.topics = run[j].topics THEN s.contexts ELSE {}

WriteReport(j) ==
  /\ run[j].pc = "write"
  /\ used' = [used EXCEPT ![j] = [topics |-> run[j].topics, contexts |-> _load_prewarmed_contexts(j)]]
  /\ job' = [job EXCEPT ![j].status = "completed"]
  /\ run' = [run EXCEPT ![j] = Off]
  /\ Release(j)
  /\ UNCHANGED <<wiki, selection, snapshot>>

\* A step raises, or the worker dies and the lease lapses: the session's lock goes
\* with it, and the job is queued again while attempts are left.
EndAttempt(j) ==
  /\ run[j].pc # "off"
  /\ job' = [job EXCEPT ![j].status = IF job[j].attempts < MaxAttempts THEN "queued" ELSE "failed"]
  /\ run' = [run EXCEPT ![j] = Off]
  /\ Release(j)
  /\ UNCHANGED <<wiki, selection, snapshot, used>>

Step(j) ==
  \/ _lock_job_serialization_key(j)
  \/ prepare_briefing_snapshot(j)
  \/ load_briefing_candidates(j)
  \/ _load_stored(j)
  \/ select_briefing_topics(j)
  \/ _collect_prepared_contexts(j)
  \/ upsert_briefing_topic_snapshot(j)
  \/ _prepare_wiki_briefing_topics(j)
  \/ WriteReport(j)

Next ==
  \/ BuildWiki
  \/ \E j \in DOMAIN Jobs : \/ enqueue_briefing_preparation_job(j)
                            \/ get_topics(j)
                            \/ Claim(j)
                            \/ Step(j)
                            \/ EndAttempt(j)

Spec == Init /\ [][Next]_vars

-----------------------------------------------------------------------------
\* What the constants are: job ids are positive numbers, a request names its
\* number of topics, the wiki has a version, and a job may run at least once.
Pages == UNION {Range(c) : c \in Range(Candidates)}
RequestsAreSound ==
  /\ \A j \in DOMAIN Jobs : j \in Nat \ {0} /\ Jobs[j].limit \in Nat
  /\ Candidates \in Seq(Seq(Pages)) /\ Candidates # <<>>
  /\ MaxAttempts \in Nat \ {0}

\* Every variable stays in the domain its table or its worker gives it.
TypeOK ==
  /\ wiki \in 1..Len(Candidates)
  /\ \A j \in DOMAIN Jobs : /\ job[j].status \in {"absent", "queued", "running", "completed", "failed"}
                            /\ job[j].attempts \in 0..MaxAttempts
                            /\ run[j].pc # "off" <=> job[j].status = "running"
                            /\ Range(run[j].topics) \subseteq Nodes
  /\ Range(selection.topics) \subseteq Nodes
  /\ \A d \in Dates : snapshot[d].ready \in BOOLEAN /\ {c.topic : c \in snapshot[d].contexts} = Range(snapshot[d].topics)
  /\ \A k \in Locks : lock[k] # 0 => run[lock[k]].pc \notin {"off", "wait"}

\* The topics and the evidence of a day, once stored, do not change, whichever
\* jobs prepare it and whenever they die: what the service was told is what the
\* report is written from.
ReadyStays == \A d \in Dates : snapshot[d].ready => snapshot'[d] = snapshot[d]
SnapshotIsFinal == [][ReadyStays]_vars

\* A day has no more topics than the job that prepared it asked for, although the
\* choice may be one that another request made on another day.
SnapshotFitsRequest == \A d \in Dates : snapshot[d].ready => Len(snapshot[d].topics) <= Jobs[snapshot[d].by].limit
=============================================================================
