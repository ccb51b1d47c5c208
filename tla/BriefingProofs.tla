---------------------------- MODULE BriefingProofs ----------------------------
(***************************************************************************)
(* Proofs about Briefing for any number of requests, days, wiki versions   *)
(* and attempts: one job at a time prepares a day, so that what was stored *)
(* for it is final, and it has no more topics than were asked for.         *)
(* Proofs about Onboarding for any choices, keywords, taxonomies, requests *)
(* and workers: the wiki has the keywords of the latest seed that is       *)
(* built, and what a keyword was found to mean is kept.                    *)
(* Proofs about ChangeHistory for any runs, topics, connections, answers   *)
(* and retries: a graph stays within its recursion limit, a run that       *)
(* stored has stored, known or flagged all it found, and an update takes   *)
(* the place of a fact of its topic that says otherwise.                   *)
(* Proofs about Assistant for any requests, processes, documents, queries  *)
(* and days: what is published is new, and what was recorded today hides   *)
(* nothing today.                                                          *)
(* The theorems assume RequestsAreSound, ChoicesAreSound, RunsAreSound and *)
(* AskingIsSound, which MCReports checks of the constants of its run.      *)
(***************************************************************************)
EXTENDS Briefing, Onboarding, ChangeHistory, Assistant, SequenceTheorems, FiniteSetTheorems, TLAPS

Preparing == {"candidates", "stored", "choose", "collect", "save"}
Waiting == {"off", "wait"}
Contexts == [topic : Nodes, wiki : Nat, live : BOOLEAN]
JobRows == [status : {"absent", "queued", "running", "completed", "failed"},
            attempts : 0 .. MaxAttempts, topics : Seq(Nodes)]
RunRows == [pc : Waiting \cup Preparing \cup {"look", "prepared", "write"}, pages : Seq(Pages),
         topics : Seq(Nodes), contexts : SUBSET Contexts, failed : BOOLEAN]
Snapshots == [ready : BOOLEAN, topics : Seq(Nodes), contexts : SUBSET Contexts,
              by : DOMAIN Jobs \cup {0}, failed : BOOLEAN]

Typed ==
  /\ wiki \in 1 .. Len(Candidates)
  /\ job \in [DOMAIN Jobs -> JobRows]
  /\ selection.limit \in Nat /\ selection.topics \in Seq(Nodes) /\ selection.failed \in BOOLEAN
  /\ snapshot \in [Dates -> Snapshots]
  /\ lock \in [Locks -> DOMAIN Jobs \cup {0}]
  /\ run \in [DOMAIN Jobs -> RunRows]

\* A job is worked on exactly while it is running, and is claimed only with
\* an attempt left.
JobOf(j) ==
  /\ job[j].status = "running" <=> run[j].pc # "off"
  /\ job[j].status \in {"absent", "queued"} => job[j].attempts < MaxAttempts

\* A worker past the lock holds it; while it prepares a day, the day is not
\* prepared; and its topics are no more than its request allows.
RunOf(j) ==
  /\ run[j].pc \notin Waiting => lock[briefing_serialization_key(j)] = j
  /\ run[j].pc \in Preparing \cup {"look", "prepared"} => Jobs[j].kind # "Named"
  /\ run[j].pc \in Preparing => ~snapshot[Jobs[j].date].ready
  /\ run[j].pc \in {"collect", "save"} => Len(run[j].topics) <= Jobs[j].limit
  /\ run[j].pc = "save" => {c.topic : c \in run[j].contexts} = Range(run[j].topics)

\* A lock is held by a worker at work.
LockOf(k) == lock[k] # 0 => run[lock[k]].pc \notin Waiting

SnapshotOf(d) ==
  /\ {c.topic : c \in snapshot[d].contexts} = Range(snapshot[d].topics)
  /\ snapshot[d].ready => /\ snapshot[d].by \in DOMAIN Jobs
                          /\ Len(snapshot[d].topics) <= Jobs[snapshot[d].by].limit

IInv ==
  /\ Typed
  /\ Len(selection.topics) <= selection.limit
  /\ \A j \in DOMAIN Jobs : JobOf(j) /\ RunOf(j)
  /\ \A k \in Locks : LockOf(k)
  /\ \A d \in Dates : SnapshotOf(d)

-----------------------------------------------------------------------------
(* Facts about the constants, sequences and rows.                          *)

\* The keys of two jobs are the same only for wiki briefings of one day.
LEMMA Keys ==
  ASSUME NEW j \in DOMAIN Jobs, NEW k \in DOMAIN Jobs
  PROVE  /\ briefing_serialization_key(j) \in Locks /\ Jobs[j].date \in Dates
         /\ Jobs[j].kind # "Named" /\ Jobs[k].kind # "Named" /\ Jobs[j].date = Jobs[k].date
              => briefing_serialization_key(j) = briefing_serialization_key(k)
BY DEF briefing_serialization_key, Locks, Dates, Range

LEMMA WikiPages ==
  ASSUME RequestsAreSound, NEW v \in 1 .. Len(Candidates)
  PROVE  Candidates[v] \in Seq(Pages) /\ v \in Nat
BY DEF RequestsAreSound

\* The names of candidate pages are nodes.
LEMMA PageNodes ==
  ASSUME NEW p \in Pages
  PROVE  p.node \in Nodes
BY DEF Pages, Nodes

LEMMA PagesInSeq ==
  ASSUME NEW q \in Seq(Pages)
  PROVE  \A x \in Range(q) : x \in Pages
<1>1. \A i \in DOMAIN q : q[i] \in Pages
  BY LenProperties
<1> QED
  BY <1>1 DEF Range

\* The rows of job and run after a step of j, one field a fact.
LEMMA JobFields ==
  ASSUME Typed, NEW j \in DOMAIN Jobs
  PROVE  /\ job[j] \in JobRows /\ job[j].topics \in Seq(Nodes)
         /\ job[j].attempts \in 0 .. MaxAttempts
         /\ run[j] \in RunRows /\ run[j].pages \in Seq(Pages) /\ run[j].topics \in Seq(Nodes)
         /\ run[j].contexts \in SUBSET Contexts /\ run[j].failed \in BOOLEAN
BY DEF Typed, JobRows, RunRows

LEMMA OffIsRun == Off \in RunRows /\ [Off EXCEPT !.pc = "wait"] \in RunRows /\ Off.pc = "off"
                  /\ [Off EXCEPT !.pc = "wait"].pc = "wait"
<1>1. <<>> \in Seq(Pages) /\ <<>> \in Seq(Nodes) /\ {} \in SUBSET Contexts
  OBVIOUS
<1>2. Off \in RunRows
  BY <1>1 DEF Off, RunRows, Waiting
<1>3. \A x \in RunRows : [x EXCEPT !.pc = "wait"] \in RunRows /\ [x EXCEPT !.pc = "wait"].pc = "wait"
  BY DEF RunRows, Waiting
<1> QED
  BY <1>2, <1>3 DEF Off

LEMMA SnapshotFields ==
  ASSUME Typed, NEW d \in Dates
  PROVE  /\ snapshot[d] \in Snapshots /\ snapshot[d].topics \in Seq(Nodes)
         /\ snapshot[d].contexts \in SUBSET Contexts /\ snapshot[d].ready \in BOOLEAN
BY DEF Typed, Snapshots

LEMMA InitInv == ASSUME RequestsAreSound, Init PROVE IInv
<1>1. Typed
  <2>1. NoSnapshot \in Snapshots
    BY DEF NoSnapshot, Snapshots
  <2>2. \A j \in DOMAIN Jobs : job[j] \in JobRows /\ run[j] \in RunRows
    BY OffIsRun DEF Init, JobRows, RequestsAreSound
  <2>3. 1 \in 1 .. Len(Candidates)
    BY DEF RequestsAreSound
  <2> QED
    BY <2>1, <2>2, <2>3 DEF Init, Typed, NoSelection
<1>2. Len(selection.topics) <= selection.limit
  BY DEF Init, NoSelection
<1>3. ASSUME NEW j \in DOMAIN Jobs PROVE JobOf(j) /\ RunOf(j)
  BY DEF Init, JobOf, RunOf, Off, Waiting, Preparing, RequestsAreSound
<1>4. ASSUME NEW k \in Locks PROVE LockOf(k)
  BY <1>4 DEF Init, LockOf
<1>5. ASSUME NEW d \in Dates PROVE SnapshotOf(d)
  BY <1>5 DEF Init, SnapshotOf, NoSnapshot, Range
<1> QED
  BY <1>1, <1>2, <1>3, <1>4, <1>5 DEF IInv

-----------------------------------------------------------------------------
(* What the steps have in common.                                          *)

\* Two jobs past the lock with the same key are the same job.
LEMMA OneHolder ==
  ASSUME IInv, NEW i \in DOMAIN Jobs, NEW j \in DOMAIN Jobs, run[i].pc \notin Waiting, run[j].pc \notin Waiting,
         briefing_serialization_key(i) = briefing_serialization_key(j)
  PROVE  i = j
BY DEF IInv, RunOf

\* A worker that holds its lock takes a step for itself alone.
LEMMA WorkerStep ==
  ASSUME IInv, NEW j \in DOMAIN Jobs, NEW r \in RunRows, run' = [run EXCEPT ![j] = r],
         UNCHANGED <<wiki, job, snapshot, lock>>,
         selection'.limit \in Nat, selection'.topics \in Seq(Nodes), selection'.failed \in BOOLEAN,
         Len(selection'.topics) <= selection'.limit,
         run[j].pc \notin Waiting, r.pc \notin Waiting,
         r.pc \in Preparing \cup {"look", "prepared"} => Jobs[j].kind # "Named",
         r.pc \in Preparing => ~snapshot[Jobs[j].date].ready,
         r.pc \in {"collect", "save"} => Len(r.topics) <= Jobs[j].limit,
         r.pc = "save" => {c.topic : c \in r.contexts} = Range(r.topics)
  PROVE  IInv'
<1>1. /\ run' \in [DOMAIN Jobs -> RunRows]
      /\ run'[j] = r /\ \A i \in DOMAIN Jobs : i # j => run'[i] = run[i]
  BY DEF IInv, Typed
<1>2. wiki' = wiki /\ job' = job /\ snapshot' = snapshot /\ lock' = lock
  OBVIOUS
<1>3. Typed'
  BY <1>1, <1>2 DEF IInv, Typed
<1>4. ASSUME NEW i \in DOMAIN Jobs PROVE JobOf(i)' /\ RunOf(i)'
  <2>1. CASE i = j
    <3>1. JobOf(j)'
      BY <1>1, <1>2 DEF IInv, JobOf, Waiting
    <3>2. RunOf(j)'
      BY <1>1, <1>2 DEF IInv, RunOf
    <3> QED
      BY <3>1, <3>2, <2>1
  <2>2. CASE i # j
    <3>1. run'[i] = run[i] /\ JobOf(i) /\ RunOf(i)
      BY <1>1, <2>2 DEF IInv
    <3> QED
      BY <3>1, <1>2 DEF JobOf, RunOf
  <2> QED
    BY <2>1, <2>2
<1>5. ASSUME NEW k \in Locks PROVE LockOf(k)'
  <2>1. LockOf(k) /\ lock[k] \in DOMAIN Jobs \cup {0}
    BY DEF IInv, Typed
  <2> QED
    BY <2>1, <1>1, <1>2 DEF LockOf
<1>6. ASSUME NEW d \in Dates PROVE SnapshotOf(d)'
  <2>1. SnapshotOf(d)
    BY DEF IInv
  <2> QED
    BY <2>1, <1>2 DEF SnapshotOf
<1> QED
  BY <1>3, <1>4, <1>5, <1>6 DEF IInv

\* An attempt ends: its worker leaves, and its lock with it.
LEMMA ReleaseStep ==
  ASSUME RequestsAreSound, IInv, NEW j \in DOMAIN Jobs, NEW s \in {"queued", "completed", "failed"},
         job' = [job EXCEPT ![j].status = s], s = "queued" => job[j].attempts < MaxAttempts,
         run' = [run EXCEPT ![j] = Off], Release(j), UNCHANGED <<wiki, selection, snapshot>>
  PROVE  IInv'
<1>1. /\ run' \in [DOMAIN Jobs -> RunRows]
      /\ run'[j] = Off /\ \A i \in DOMAIN Jobs : i # j => run'[i] = run[i]
  BY OffIsRun DEF IInv, Typed
<1>2. wiki' = wiki /\ selection' = selection /\ snapshot' = snapshot
  OBVIOUS
<1>3. /\ \A i \in DOMAIN Jobs : i # j => job'[i] = job[i]
      /\ job'[j] = [job[j] EXCEPT !.status = s]
  BY DEF IInv, Typed
<1>4. job'[j] \in JobRows /\ job'[j].status = s /\ job'[j].attempts = job[j].attempts
  BY <1>3, JobFields DEF JobRows, IInv
<1>5. job' \in [DOMAIN Jobs -> JobRows]
  BY <1>3, <1>4 DEF IInv, Typed
<1>6. \A k \in Locks : lock'[k] = IF lock[k] = j THEN 0 ELSE lock[k]
  BY DEF Release
<1>7. lock' \in [Locks -> DOMAIN Jobs \cup {0}]
  BY <1>6 DEF Release, IInv, Typed
<1>8. Typed'
  BY <1>1, <1>2, <1>5, <1>7 DEF IInv, Typed
<1>9. ASSUME NEW i \in DOMAIN Jobs PROVE JobOf(i)' /\ RunOf(i)'
  <2>1. CASE i = j
    <3>1. JobOf(j)'
      BY <1>1, <1>4, OffIsRun DEF JobOf
    <3>2. RunOf(j)'
      BY <1>1, OffIsRun DEF RunOf, Waiting, Preparing
    <3> QED
      BY <3>1, <3>2, <2>1
  <2>2. CASE i # j
    <3>1. run'[i] = run[i] /\ job'[i] = job[i] /\ JobOf(i) /\ RunOf(i)
      BY <1>1, <1>3, <2>2 DEF IInv
    <3>2. run[i].pc \notin Waiting => lock'[briefing_serialization_key(i)] = i
      BY <3>1, <2>2, <1>6, Keys DEF RunOf
    <3> QED
      BY <3>1, <3>2, <1>2 DEF JobOf, RunOf
  <2> QED
    BY <2>1, <2>2
<1>10. ASSUME NEW k \in Locks PROVE LockOf(k)'
  <2>1. LockOf(k) /\ lock[k] \in DOMAIN Jobs \cup {0}
    BY DEF IInv, Typed
  <2> QED
    BY <2>1, <1>1, <1>6 DEF LockOf
<1>11. ASSUME NEW d \in Dates PROVE SnapshotOf(d)'
  <2>1. SnapshotOf(d)
    BY DEF IInv
  <2> QED
    BY <2>1, <1>2 DEF SnapshotOf
<1>12. Len(selection'.topics) <= selection'.limit
  BY <1>2 DEF IInv
<1> QED
  BY <1>8, <1>9, <1>10, <1>11, <1>12 DEF IInv

\* A request is accepted.
LEMMA RequestStep ==
  ASSUME IInv, NEW j \in DOMAIN Jobs, NEW row \in JobRows, job[j].status = "absent",
         job' = [job EXCEPT ![j] = row], row.status = "queued", row.attempts = job[j].attempts,
         UNCHANGED <<wiki, selection, snapshot, lock, run>>
  PROVE  IInv'
<1>1. wiki' = wiki /\ selection' = selection /\ snapshot' = snapshot /\ lock' = lock /\ run' = run
  OBVIOUS
<1>2. /\ \A i \in DOMAIN Jobs : i # j => job'[i] = job[i]
      /\ job'[j] = row
  BY DEF IInv, Typed
<1>3. job' \in [DOMAIN Jobs -> JobRows]
  BY DEF IInv, Typed
<1>4. Typed'
  BY <1>1, <1>2, <1>3 DEF IInv, Typed
<1>5. ASSUME NEW i \in DOMAIN Jobs PROVE JobOf(i)' /\ RunOf(i)'
  <2>1. JobOf(i) /\ RunOf(i)
    BY DEF IInv
  <2>2. RunOf(i)'
    BY <2>1, <1>1 DEF RunOf
  <2>3. JobOf(i)'
    BY <2>1, <1>1, <1>2 DEF JobOf
  <2> QED
    BY <2>2, <2>3
<1>6. ASSUME NEW k \in Locks PROVE LockOf(k)'
  BY <1>1 DEF IInv, LockOf
<1>7. ASSUME NEW d \in Dates PROVE SnapshotOf(d)'
  BY <1>1 DEF IInv, SnapshotOf
<1>8. Len(selection'.topics) <= selection'.limit
  BY <1>1 DEF IInv
<1> QED
  BY <1>4, <1>5, <1>6, <1>7, <1>8 DEF IInv


-----------------------------------------------------------------------------
(* One lemma per action.                                                   *)

LEMMA BuildWikiKeeps == ASSUME RequestsAreSound, IInv, BuildWiki PROVE IInv'
<1>1. wiki' \in 1 .. Len(Candidates)
  BY DEF BuildWiki, IInv, Typed, RequestsAreSound
<1>2. job' = job /\ selection' = selection /\ snapshot' = snapshot /\ lock' = lock /\ run' = run
  BY DEF BuildWiki
<1>3. Typed'
  BY <1>1, <1>2 DEF IInv, Typed
<1>4. \A j \in DOMAIN Jobs : JobOf(j)' /\ RunOf(j)'
  BY <1>2 DEF IInv, JobOf, RunOf
<1>5. \A k \in Locks : LockOf(k)'
  BY <1>2 DEF IInv, LockOf
<1>6. \A d \in Dates : SnapshotOf(d)'
  BY <1>2 DEF IInv, SnapshotOf
<1> QED
  BY <1>2, <1>3, <1>4, <1>5, <1>6 DEF IInv

LEMMA EnqueueKeeps ==
  ASSUME IInv, NEW j \in DOMAIN Jobs, enqueue_briefing_preparation_job(j)
  PROVE  IInv'
<1> DEFINE row == [job[j] EXCEPT !.status = "queued"]
<1>1. row \in JobRows /\ row.status = "queued" /\ row.attempts = job[j].attempts
  BY JobFields DEF IInv, JobRows
<1>2. job' = [job EXCEPT ![j] = row]
  BY DEF enqueue_briefing_preparation_job
<1> HIDE DEF row
<1> QED
  BY <1>1, <1>2, RequestStep DEF enqueue_briefing_preparation_job

\* The first topics of a day, up to the number the report asks for.
LEMMA FirstTopics ==
  ASSUME NEW s \in Seq(Nodes), NEW n \in Nat
  PROVE  SubSeq(s, 1, IF Len(s) < n THEN Len(s) ELSE n) \in Seq(Nodes)
<1>1. Len(s) \in Nat /\ s \in [1 .. Len(s) -> Nodes]
  BY LenProperties
<1>2. \A m \in 0 .. Len(s) : SubSeq(s, 1, m) \in Seq(Nodes)
  OBVIOUS
<1> QED
  BY <1>1, <1>2

LEMMA GetTopicsKeeps ==
  ASSUME RequestsAreSound, IInv, NEW j \in DOMAIN Jobs, get_topics(j)
  PROVE  IInv'
<1> DEFINE s   == snapshot[Jobs[j].date].topics
           ts  == SubSeq(s, 1, IF Len(s) < Jobs[j].limit THEN Len(s) ELSE Jobs[j].limit)
           row == [job[j] EXCEPT !.status = "queued", !.topics = ts]
<1>1. ts \in Seq(Nodes)
  BY SnapshotFields, Keys, FirstTopics DEF IInv, RequestsAreSound
<1>2. job' = [job EXCEPT ![j] = row]
  BY DEF get_topics, IInv, Typed
<1> HIDE DEF ts
<1>3. row \in JobRows /\ row.status = "queued" /\ row.attempts = job[j].attempts
  BY <1>1, JobFields DEF IInv, JobRows
<1> HIDE DEF row
<1> QED
  BY <1>2, <1>3, RequestStep DEF get_topics

LEMMA ClaimKeeps ==
  ASSUME RequestsAreSound, IInv, NEW j \in DOMAIN Jobs, Claim(j)
  PROVE  IInv'
<1> DEFINE r == [Off EXCEPT !.pc = "wait"]
<1>1. /\ run' \in [DOMAIN Jobs -> RunRows]
      /\ run'[j] = r /\ \A i \in DOMAIN Jobs : i # j => run'[i] = run[i]
  BY OffIsRun DEF Claim, IInv, Typed
<1>2. wiki' = wiki /\ selection' = selection /\ snapshot' = snapshot /\ lock' = lock
  BY DEF Claim
<1>3. /\ \A i \in DOMAIN Jobs : i # j => job'[i] = job[i]
      /\ job'[j] = [job[j] EXCEPT !.status = "running", !.attempts = job[j].attempts + 1]
  BY DEF Claim, IInv, Typed
<1>4. job[j].status = "queued" /\ run[j].pc = "off" /\ job[j].attempts < MaxAttempts
  BY DEF Claim, IInv, JobOf
<1>5. job[j].attempts + 1 \in 0 .. MaxAttempts /\ job[j] \in JobRows
  BY <1>4, JobFields DEF IInv, RequestsAreSound
<1>6. job'[j] \in JobRows /\ job'[j].status = "running"
  BY <1>3, <1>5 DEF JobRows
<1>7. Typed'
  BY <1>1, <1>2, <1>3, <1>6 DEF IInv, Typed, Claim
<1>8. ASSUME NEW i \in DOMAIN Jobs PROVE JobOf(i)' /\ RunOf(i)'
  <2>1. CASE i = j
    BY <2>1, <1>1, <1>6, OffIsRun DEF JobOf, RunOf, Waiting, Preparing
  <2>2. CASE i # j
    <3>1. run'[i] = run[i] /\ job'[i] = job[i] /\ JobOf(i) /\ RunOf(i)
      BY <1>1, <1>3, <2>2 DEF IInv
    <3> QED
      BY <3>1, <1>2 DEF JobOf, RunOf
  <2> QED
    BY <2>1, <2>2
<1>9. ASSUME NEW k \in Locks PROVE LockOf(k)'
  <2>1. LockOf(k) /\ lock[k] \in DOMAIN Jobs \cup {0}
    BY DEF IInv, Typed
  <2> QED
    BY <2>1, <1>1, <1>2, <1>4 DEF LockOf, Waiting
<1>10. ASSUME NEW d \in Dates PROVE SnapshotOf(d)'
  <2>1. SnapshotOf(d)
    BY DEF IInv
  <2> QED
    BY <2>1, <1>2 DEF SnapshotOf
<1>11. Len(selection'.topics) <= selection'.limit
  BY <1>2 DEF IInv
<1> QED
  BY <1>7, <1>8, <1>9, <1>10, <1>11 DEF IInv

\* The lock is free, so no other worker past it has this key.
LEMMA LockKeeps ==
  ASSUME RequestsAreSound, IInv, NEW j \in DOMAIN Jobs, _lock_job_serialization_key(j)
  PROVE  IInv'
<1> DEFINE k == briefing_serialization_key(j)
           p == IF Jobs[j].kind = "Named" THEN "write" ELSE "look"
           r == [run[j] EXCEPT !.pc = p, !.topics = job[j].topics]
<1>1. k \in Locks /\ lock[k] = 0 /\ run[j].pc = "wait" /\ lock' = [lock EXCEPT ![k] = j]
  BY Keys DEF _lock_job_serialization_key
<1>2. run' = [run EXCEPT ![j] = r]
  BY DEF _lock_job_serialization_key, IInv, Typed
<1>3. r \in RunRows /\ r.pc = p
  BY JobFields DEF IInv, RunRows
<1> HIDE DEF r
<1>4. /\ run' \in [DOMAIN Jobs -> RunRows]
      /\ run'[j] = r /\ \A i \in DOMAIN Jobs : i # j => run'[i] = run[i]
  BY <1>2, <1>3 DEF IInv, Typed
<1>5. wiki' = wiki /\ job' = job /\ selection' = selection /\ snapshot' = snapshot
  BY DEF _lock_job_serialization_key
<1> HIDE DEF k
<1>6. /\ lock' \in [Locks -> DOMAIN Jobs \cup {0}]
      /\ lock'[k] = j /\ \A l \in Locks : l # k => lock'[l] = lock[l]
  BY <1>1 DEF IInv, Typed
<1>7. Typed'
  BY <1>4, <1>5, <1>6 DEF IInv, Typed
<1>8. ASSUME NEW i \in DOMAIN Jobs PROVE JobOf(i)' /\ RunOf(i)'
  <2>0. JobOf(i) /\ RunOf(i)
    BY DEF IInv
  <2>1. CASE i = j
    <3>1. JobOf(j)'
      BY <2>0, <2>1, <1>1, <1>3, <1>4, <1>5 DEF JobOf
    <3>2. RunOf(j)'
      BY <1>3, <1>4, <1>6 DEF RunOf, Preparing, Waiting, k
    <3> QED
      BY <3>1, <3>2, <2>1
  <2>2. CASE i # j
    <3>1. run'[i] = run[i]
      BY <1>4, <2>2
    <3>2. ASSUME run[i].pc \notin Waiting PROVE lock'[briefing_serialization_key(i)] = i
      <4>1. lock[briefing_serialization_key(i)] = i /\ briefing_serialization_key(i) \in Locks /\ i # 0
        BY <2>0, <3>2, Keys DEF RunOf, RequestsAreSound
      <4> QED
        BY <4>1, <1>1, <1>6
    <3> QED
      BY <3>1, <3>2, <2>0, <1>5 DEF JobOf, RunOf
  <2> QED
    BY <2>1, <2>2
<1>9. ASSUME NEW l \in Locks PROVE LockOf(l)'
  <2>1. LockOf(l) /\ lock[l] \in DOMAIN Jobs \cup {0}
    BY DEF IInv, Typed
  <2>2. r.pc \notin Waiting
    BY <1>3 DEF Waiting
  <2> QED
    BY <2>1, <2>2, <1>4, <1>6 DEF LockOf
<1>10. ASSUME NEW d \in Dates PROVE SnapshotOf(d)'
  <2>1. SnapshotOf(d)
    BY DEF IInv
  <2> QED
    BY <2>1, <1>5 DEF SnapshotOf
<1>11. Len(selection'.topics) <= selection'.limit
  BY <1>5 DEF IInv
<1> QED
  BY <1>7, <1>8, <1>9, <1>10, <1>11 DEF IInv


LEMMA PrepareKeeps ==
  ASSUME RequestsAreSound, IInv, NEW j \in DOMAIN Jobs, prepare_briefing_snapshot(j)
  PROVE  IInv'
<1> DEFINE s == snapshot[Jobs[j].date]
           p == IF s.ready THEN "prepared" ELSE "candidates"
           ts == IF s.ready THEN s.topics ELSE <<>>
           r == [run[j] EXCEPT !.pc = p, !.topics = ts]
<1>1. ts \in Seq(Nodes) /\ (p = "candidates" => ~s.ready) /\ p \in {"prepared", "candidates"}
  BY SnapshotFields, Keys DEF IInv
<1>2. run' = [run EXCEPT ![j] = r] /\ run[j].pc = "look"
  BY DEF prepare_briefing_snapshot, IInv, Typed
<1> HIDE DEF p, ts, s
<1>3. r \in RunRows /\ r.pc = p
  BY <1>1, JobFields DEF IInv, RunRows, Preparing
<1> HIDE DEF r
<1>4. Jobs[j].kind # "Named"
  BY <1>2 DEF IInv, RunOf
<1>5. /\ selection' = selection /\ selection.limit \in Nat /\ selection.topics \in Seq(Nodes)
      /\ selection.failed \in BOOLEAN /\ Len(selection.topics) <= selection.limit
  BY DEF prepare_briefing_snapshot, IInv, Typed
<1>6. run[j].pc \notin Waiting /\ r.pc \notin Waiting /\ r.pc \notin {"collect", "save"}
  BY <1>1, <1>2, <1>3 DEF Waiting
<1>7. UNCHANGED <<wiki, job, snapshot, lock>>
  BY DEF prepare_briefing_snapshot
<1>8. r.pc \in Preparing => ~snapshot[Jobs[j].date].ready
  BY <1>1, <1>3 DEF Preparing, s
<1> QED
  BY <1>2, <1>3, <1>4, <1>5, <1>6, <1>7, <1>8, WorkerStep

LEMMA CandidatesKeeps ==
  ASSUME RequestsAreSound, IInv, NEW j \in DOMAIN Jobs, load_briefing_candidates(j)
  PROVE  IInv'
<1> DEFINE ps == Candidates[wiki]
           r == [run[j] EXCEPT !.pc = "stored", !.pages = ps]
<1>1. ps \in Seq(Pages)
  BY WikiPages DEF IInv, Typed
<1>2. run' = [run EXCEPT ![j] = r] /\ run[j].pc = "candidates"
  BY DEF load_briefing_candidates, IInv, Typed
<1> HIDE DEF ps
<1>3. r \in RunRows /\ r.pc = "stored"
  BY <1>1, JobFields DEF IInv, RunRows, Preparing
<1> HIDE DEF r
<1>4. Jobs[j].kind # "Named" /\ ~snapshot[Jobs[j].date].ready
  BY <1>2 DEF IInv, RunOf, Preparing
<1>5. /\ selection' = selection /\ selection.limit \in Nat /\ selection.topics \in Seq(Nodes)
      /\ selection.failed \in BOOLEAN /\ Len(selection.topics) <= selection.limit
  BY DEF load_briefing_candidates, IInv, Typed
<1>6. run[j].pc \notin Waiting /\ r.pc \notin Waiting /\ r.pc \notin {"collect", "save"}
  BY <1>2, <1>3 DEF Waiting
<1>7. UNCHANGED <<wiki, job, snapshot, lock>>
  BY DEF load_briefing_candidates
<1> QED
  BY <1>2, <1>3, <1>4, <1>5, <1>6, <1>7, WorkerStep

\* A stored choice is taken only if it was made for as many topics.
LEMMA StoredKeeps ==
  ASSUME RequestsAreSound, IInv, NEW j \in DOMAIN Jobs, _load_stored(j)
  PROVE  IInv'
<1>1. Jobs[j].kind # "Named" /\ ~snapshot[Jobs[j].date].ready /\ run[j].pc = "stored" /\ run[j].pc \notin Waiting
  BY DEF IInv, RunOf, Preparing, _load_stored, Waiting
<1>2. UNCHANGED <<wiki, job, snapshot, lock>>
  BY DEF _load_stored
<1>3. /\ selection' = selection /\ selection.limit \in Nat /\ selection.topics \in Seq(Nodes)
      /\ selection.failed \in BOOLEAN /\ Len(selection.topics) <= selection.limit
  BY DEF _load_stored, IInv, Typed
<1>4. CASE run' = [run EXCEPT ![j].pc = "choose"]
  <2> DEFINE r == [run[j] EXCEPT !.pc = "choose"]
  <2>1. run' = [run EXCEPT ![j] = r]
    BY <1>4 DEF IInv, Typed
  <2>2. r \in RunRows /\ r.pc = "choose"
    BY JobFields DEF IInv, RunRows, Preparing
  <2> HIDE DEF r
  <2>3. r.pc \notin Waiting /\ r.pc \notin {"collect", "save"}
    BY <2>2 DEF Waiting
  <2> QED
    BY <1>1, <1>2, <1>3, <2>1, <2>2, <2>3, WorkerStep
<1>5. CASE Reusable(j) /\ run' = [run EXCEPT ![j].pc = "collect", ![j].topics = selection.topics, ![j].failed = selection.failed]
  <2> DEFINE r == [run[j] EXCEPT !.pc = "collect", !.topics = selection.topics, !.failed = selection.failed]
  <2>1. run' = [run EXCEPT ![j] = r]
    BY <1>5 DEF IInv, Typed
  <2>2. r \in RunRows /\ r.pc = "collect" /\ r.topics = selection.topics
    BY <1>3, JobFields DEF IInv, RunRows, Preparing
  <2> HIDE DEF r
  <2>3. r.pc \notin Waiting /\ r.pc # "save"
    BY <2>2 DEF Waiting
  <2>4. Len(r.topics) <= Jobs[j].limit
    BY <1>3, <1>5, <2>2 DEF Reusable
  <2> QED
    BY <1>1, <1>2, <1>3, <2>1, <2>2, <2>3, <2>4, WorkerStep
<1> QED
  BY <1>4, <1>5 DEF _load_stored

\* What the model answers are names of the pages it was given, as many as allowed.
LEMMA AnswerIs ==
  ASSUME RequestsAreSound, NEW pages \in Seq(Pages), NEW limit \in Nat, NEW ts \in _parse_selection(pages, limit)
  PROVE  ts \in Seq(Nodes) /\ Len(ts) <= limit
<1>1. PICK n \in 0 .. limit : ts \in [1 .. n -> {p.node : p \in Range(pages)}]
  BY DEF _parse_selection
<1>2. {p.node : p \in Range(pages)} \subseteq Nodes
  BY PagesInSeq, PageNodes
<1>3. n \in Nat /\ ts \in [1 .. n -> Nodes]
  BY <1>1, <1>2
<1> QED
  BY <1>1, <1>3

\* All candidates, when there are no more than allowed.
LEMMA AllPages ==
  ASSUME NEW pages \in Seq(Pages)
  PROVE  /\ [i \in DOMAIN pages |-> pages[i].node] \in Seq(Nodes)
         /\ Len([i \in DOMAIN pages |-> pages[i].node]) = Len(pages)
<1>1. DOMAIN pages = 1 .. Len(pages) /\ Len(pages) \in Nat /\ \A i \in 1 .. Len(pages) : pages[i] \in Pages
  BY LenProperties
<1>2. [i \in DOMAIN pages |-> pages[i].node] \in [1 .. Len(pages) -> Nodes]
  BY <1>1, PageNodes
<1> QED
  BY <1>1, <1>2

LEMMA SelectKeeps ==
  ASSUME RequestsAreSound, IInv, NEW j \in DOMAIN Jobs, select_briefing_topics(j)
  PROVE  IInv'
<1> DEFINE pages == run[j].pages
           limit == Jobs[j].limit
           SelectionRow(ts, failed) == [digest |-> _candidate_digest(pages), limit |-> limit, topics |-> ts, failed |-> failed]
           Chosen(ts, failed) == /\ run' = [run EXCEPT ![j].pc = "collect", ![j].topics = ts, ![j].failed = failed]
                                 /\ selection' \in {selection, SelectionRow(ts, failed)}
<1>1. Jobs[j].kind # "Named" /\ ~snapshot[Jobs[j].date].ready /\ run[j].pc = "choose" /\ run[j].pc \notin Waiting
  BY DEF IInv, RunOf, Preparing, select_briefing_topics, Waiting
<1>2. UNCHANGED <<wiki, job, snapshot, lock>>
  BY DEF select_briefing_topics
<1>3. pages \in Seq(Pages) /\ limit \in Nat
  BY JobFields DEF IInv, RequestsAreSound
<1> DEFINE all == [i \in DOMAIN pages |-> pages[i].node]
<1>4. \/ Len(pages) <= limit /\ Chosen(all, FALSE)
      \/ \E ts \in _parse_selection(pages, limit) : Chosen(ts, FALSE)
      \/ Chosen(<<>>, TRUE)
  BY Zenon DEF select_briefing_topics
<1>10. PICK ts, failed : ts \in Seq(Nodes) /\ Len(ts) <= limit /\ failed \in BOOLEAN /\ Chosen(ts, failed)
  <2> HIDE DEF Chosen
  <2>1. CASE Len(pages) <= limit /\ Chosen(all, FALSE)
    <3>1. all \in Seq(Nodes) /\ Len(all) <= limit
      BY <2>1, <1>3, AllPages
    <3> HIDE DEF all
    <3> QED
      BY <2>1, <3>1
  <2>2. CASE \E a \in _parse_selection(pages, limit) : Chosen(a, FALSE)
    BY <2>2, <1>3, AnswerIs
  <2>3. CASE Chosen(<<>>, TRUE)
    <3>1. <<>> \in Seq(Nodes) /\ Len(<<>>) <= limit
      BY <1>3
    <3> QED
      BY <2>3, <3>1
  <2> QED
    BY <1>4, <2>1, <2>2, <2>3
<1> DEFINE r == [run[j] EXCEPT !.pc = "collect", !.topics = ts, !.failed = failed]
<1>5. run' = [run EXCEPT ![j] = r]
  BY <1>10 DEF IInv, Typed
<1>6. r \in RunRows /\ r.pc = "collect" /\ r.topics = ts
  BY <1>10, JobFields DEF IInv, RunRows, Preparing
<1>7. /\ selection'.limit \in Nat /\ selection'.topics \in Seq(Nodes) /\ selection'.failed \in BOOLEAN
      /\ Len(selection'.topics) <= selection'.limit
  <2>1. CASE selection' = selection
    BY <2>1 DEF IInv, Typed
  <2>2. CASE selection' = SelectionRow(ts, failed)
    <3>1. selection'.limit = limit /\ selection'.topics = ts /\ selection'.failed = failed
      BY <2>2
    <3> QED
      BY <3>1, <1>3, <1>10
  <2> QED
    BY <2>1, <2>2, <1>10
<1> HIDE DEF r
<1>8. r.pc \notin Waiting /\ r.pc # "save"
  BY <1>6 DEF Waiting
<1>9. Len(r.topics) <= Jobs[j].limit
  BY <1>10, <1>6
<1> QED
  BY <1>1, <1>2, <1>5, <1>6, <1>7, <1>8, <1>9, WorkerStep


LEMMA CollectKeeps ==
  ASSUME RequestsAreSound, IInv, NEW j \in DOMAIN Jobs, _collect_prepared_contexts(j)
  PROVE  IInv'
<1> DEFINE ts == run[j].topics
           Live(need) == SelectSeq(ts, LAMBDA t : t \in need)
           cs(need) == {[topic |-> t, wiki |-> wiki,
                         live |-> \E i \in DOMAIN Live(need) : i <= MaxLive /\ Live(need)[i] = t] : t \in Range(ts)}
<1>1. PICK need \in SUBSET Range(ts) : run' = [run EXCEPT ![j].pc = "save", ![j].contexts = cs(need)]
  BY DEF _collect_prepared_contexts
<1>2. ts \in Seq(Nodes) /\ wiki \in Nat
  BY JobFields, WikiPages DEF IInv, Typed
<1>3. \A t \in Range(ts) : t \in Nodes
  BY <1>2 DEF Range
<1> HIDE DEF ts
<1> DEFINE live(t) == \E i \in DOMAIN Live(need) : i <= MaxLive /\ Live(need)[i] = t
           row(t)  == [topic |-> t, wiki |-> wiki, live |-> live(t)]
<1>4. \A t : live(t) \in BOOLEAN
  OBVIOUS
<1>5. cs(need) = {row(t) : t \in Range(ts)}
  OBVIOUS
<1> HIDE DEF live
<1>6. \A t \in Range(ts) : row(t) \in Contexts
  BY <1>2, <1>3, <1>4 DEF Contexts
<1>7. \A t : row(t).topic = t
  OBVIOUS
<1> HIDE DEF row, cs
<1>8. cs(need) \in SUBSET Contexts /\ {c.topic : c \in cs(need)} = Range(ts)
  BY <1>5, <1>6, <1>7
<1> DEFINE r == [run[j] EXCEPT !.pc = "save", !.contexts = cs(need)]
<1>9. run' = [run EXCEPT ![j] = r]
  BY <1>1 DEF IInv, Typed
<1>10. r \in RunRows /\ r.pc = "save" /\ r.topics = ts /\ r.contexts = cs(need)
  BY <1>8, JobFields DEF IInv, RunRows, Preparing, ts
<1> HIDE DEF r
<1>11. /\ Jobs[j].kind # "Named" /\ ~snapshot[Jobs[j].date].ready
       /\ run[j].pc \notin Waiting /\ Len(ts) <= Jobs[j].limit
  BY DEF IInv, RunOf, Preparing, _collect_prepared_contexts, Waiting, ts
<1>12. /\ selection' = selection /\ selection.limit \in Nat /\ selection.topics \in Seq(Nodes)
       /\ selection.failed \in BOOLEAN /\ Len(selection.topics) <= selection.limit
  BY DEF _collect_prepared_contexts, IInv, Typed
<1>13. UNCHANGED <<wiki, job, snapshot, lock>>
  BY DEF _collect_prepared_contexts
<1>14. r.pc \notin Waiting
  BY <1>10 DEF Waiting
<1>15. Len(r.topics) <= Jobs[j].limit /\ {c.topic : c \in r.contexts} = Range(r.topics)
  BY <1>8, <1>10, <1>11
<1> QED
  BY <1>9, <1>10, <1>11, <1>12, <1>13, <1>14, <1>15, WorkerStep

\* The day is prepared now; no other job was preparing it.
LEMMA SaveKeeps ==
  ASSUME RequestsAreSound, IInv, NEW j \in DOMAIN Jobs, upsert_briefing_topic_snapshot(j)
  PROVE  IInv'
<1> DEFINE d == Jobs[j].date
           s == [ready |-> TRUE, topics |-> run[j].topics, contexts |-> run[j].contexts, by |-> j, failed |-> run[j].failed]
           r == [run[j] EXCEPT !.pc = "prepared"]
<1>1. run[j].pc = "save" /\ run' = [run EXCEPT ![j] = r] /\ snapshot' = [snapshot EXCEPT ![d] = s]
  BY DEF upsert_briefing_topic_snapshot, IInv, Typed
<1>2. s \in Snapshots /\ d \in Dates
  BY JobFields, Keys DEF IInv, Snapshots
<1>3. /\ s.ready /\ s.by = j /\ s.topics = run[j].topics
      /\ {c.topic : c \in s.contexts} = Range(s.topics) /\ Len(s.topics) <= Jobs[j].limit
  BY <1>1 DEF IInv, RunOf
<1>4. r \in RunRows /\ r.pc = "prepared"
  BY JobFields DEF IInv, RunRows
<1> HIDE DEF r, s
<1>5. /\ run' \in [DOMAIN Jobs -> RunRows]
      /\ run'[j] = r /\ \A i \in DOMAIN Jobs : i # j => run'[i] = run[i]
  BY <1>1, <1>4 DEF IInv, Typed
<1>6. /\ snapshot' \in [Dates -> Snapshots]
      /\ snapshot'[d] = s /\ \A e \in Dates : e # d => snapshot'[e] = snapshot[e]
  BY <1>1, <1>2 DEF IInv, Typed
<1>7. wiki' = wiki /\ job' = job /\ selection' = selection /\ lock' = lock
  BY DEF upsert_briefing_topic_snapshot
<1>8. Typed'
  BY <1>5, <1>6, <1>7 DEF IInv, Typed
<1>9. Jobs[j].kind # "Named" /\ run[j].pc \notin Waiting
  BY <1>1 DEF IInv, RunOf, Preparing, Waiting
<1>10. ASSUME NEW i \in DOMAIN Jobs PROVE JobOf(i)' /\ RunOf(i)'
  <2>0. JobOf(i) /\ RunOf(i)
    BY DEF IInv
  <2>1. CASE i = j
    <3>1. JobOf(j)'
      BY <2>0, <2>1, <1>1, <1>4, <1>5, <1>7 DEF JobOf
    <3>2. RunOf(j)'
      BY <2>0, <2>1, <1>4, <1>5, <1>7, <1>9 DEF RunOf, Preparing, Waiting
    <3> QED
      BY <3>1, <3>2, <2>1
  <2>2. CASE i # j
    <3>1. run'[i] = run[i]
      BY <1>5, <2>2
    <3>2. ASSUME run[i].pc \in Preparing PROVE ~snapshot'[Jobs[i].date].ready
      <4>1. run[i].pc \notin Waiting /\ Jobs[i].kind # "Named" /\ ~snapshot[Jobs[i].date].ready
        BY <2>0, <3>2 DEF RunOf, Preparing, Waiting
      <4>2. Jobs[i].date # Jobs[j].date
        BY <4>1, <2>2, <1>9, Keys, OneHolder
      <4> QED
        BY <4>1, <4>2, <1>6, Keys
    <3> QED
      BY <3>1, <3>2, <2>0, <1>7 DEF JobOf, RunOf
  <2> QED
    BY <2>1, <2>2
<1>11. ASSUME NEW k \in Locks PROVE LockOf(k)'
  <2>1. LockOf(k) /\ lock[k] \in DOMAIN Jobs \cup {0}
    BY DEF IInv, Typed
  <2> QED
    BY <2>1, <1>4, <1>5, <1>7 DEF LockOf, Waiting
<1>12. ASSUME NEW e \in Dates PROVE SnapshotOf(e)'
  <2>1. CASE e = d
    BY <2>1, <1>3, <1>6 DEF SnapshotOf
  <2>2. CASE e # d
    <3>1. SnapshotOf(e) /\ snapshot'[e] = snapshot[e]
      BY <2>2, <1>6 DEF IInv
    <3> QED
      BY <3>1 DEF SnapshotOf
  <2> QED
    BY <2>1, <2>2
<1>13. Len(selection'.topics) <= selection'.limit
  BY <1>7 DEF IInv
<1> QED
  BY <1>8, <1>10, <1>11, <1>12, <1>13 DEF IInv

LEMMA PreparedKeeps ==
  ASSUME RequestsAreSound, IInv, NEW j \in DOMAIN Jobs, _prepare_wiki_briefing_topics(j)
  PROVE  IInv'
<1>1. run[j].pc = "prepared" /\ Jobs[j].kind # "Named" /\ wiki' = wiki /\ selection' = selection /\ snapshot' = snapshot
  BY DEF IInv, RunOf, _prepare_wiki_briefing_topics
<1>2. CASE Jobs[j].kind = "Brief" /\ run[j].topics # <<>>
  <2> DEFINE r == [run[j] EXCEPT !.pc = "write"]
  <2>1. run' = [run EXCEPT ![j] = r] /\ UNCHANGED <<wiki, job, snapshot, lock>>
    BY <1>2 DEF _prepare_wiki_briefing_topics, IInv, Typed
  <2>2. r \in RunRows /\ r.pc = "write"
    BY JobFields DEF IInv, RunRows
  <2> HIDE DEF r
  <2>3. run[j].pc \notin Waiting /\ r.pc \notin Waiting \cup Preparing \cup {"look", "prepared"}
    BY <1>1, <2>2 DEF Waiting, Preparing
  <2>4. /\ selection.limit \in Nat /\ selection.topics \in Seq(Nodes)
        /\ selection.failed \in BOOLEAN /\ Len(selection.topics) <= selection.limit
    BY DEF IInv, Typed
  <2>5. r.pc \notin {"collect", "save"}
    BY <2>2
  <2> QED
    BY <1>1, <2>1, <2>2, <2>3, <2>4, <2>5, WorkerStep
<1>3. CASE ~(Jobs[j].kind = "Brief" /\ run[j].topics # <<>>)
  <2> DEFINE s == IF Jobs[j].kind = "Brief" THEN "failed" ELSE "completed"
  <2>1. /\ job' = [job EXCEPT ![j].status = s] /\ run' = [run EXCEPT ![j] = Off] /\ Release(j)
        /\ UNCHANGED <<wiki, selection, snapshot>>
    BY <1>3 DEF _prepare_wiki_briefing_topics
  <2>2. s \in {"queued", "completed", "failed"} /\ s # "queued"
    OBVIOUS
  <2> HIDE DEF s
  <2> QED
    BY <2>1, <2>2, ReleaseStep
<1> QED
  BY <1>2, <1>3

LEMMA WriteKeeps ==
  ASSUME RequestsAreSound, IInv, NEW j \in DOMAIN Jobs, WriteReport(j)
  PROVE  IInv'
BY ReleaseStep DEF WriteReport

LEMMA EndKeeps ==
  ASSUME RequestsAreSound, IInv, NEW j \in DOMAIN Jobs, EndAttempt(j)
  PROVE  IInv'
<1> DEFINE s == IF job[j].attempts < MaxAttempts THEN "queued" ELSE "failed"
<1>1. /\ job' = [job EXCEPT ![j].status = s] /\ run' = [run EXCEPT ![j] = Off] /\ Release(j)
      /\ UNCHANGED <<wiki, selection, snapshot>>
  BY DEF EndAttempt
<1>2. s \in {"queued", "completed", "failed"} /\ (s = "queued" => job[j].attempts < MaxAttempts)
  OBVIOUS
<1> HIDE DEF s
<1> QED
  BY <1>1, <1>2, ReleaseStep

LEMMA NextInv == ASSUME RequestsAreSound, IInv, [Next]_vars PROVE IInv'
<1>1. CASE UNCHANGED vars
  <2>1. /\ wiki' = wiki /\ job' = job /\ selection' = selection /\ snapshot' = snapshot
        /\ lock' = lock /\ run' = run
    BY <1>1 DEF vars
  <2>2. Typed'
    BY <2>1 DEF IInv, Typed
  <2>3. \A j \in DOMAIN Jobs : JobOf(j)' /\ RunOf(j)'
    BY <2>1 DEF IInv, JobOf, RunOf
  <2>4. \A k \in Locks : LockOf(k)'
    BY <2>1 DEF IInv, LockOf
  <2>5. \A d \in Dates : SnapshotOf(d)'
    BY <2>1 DEF IInv, SnapshotOf
  <2> QED
    BY <2>1, <2>2, <2>3, <2>4, <2>5 DEF IInv
<1>2. CASE BuildWiki
  BY <1>2, BuildWikiKeeps
<1>3. CASE \E j \in DOMAIN Jobs : enqueue_briefing_preparation_job(j) \/ get_topics(j) \/ Claim(j) \/ EndAttempt(j)
  BY <1>3, EnqueueKeeps, GetTopicsKeeps, ClaimKeeps, EndKeeps
<1>4. ASSUME NEW j \in DOMAIN Jobs, Step(j) PROVE IInv'
  BY <1>4, LockKeeps, PrepareKeeps, CandidatesKeeps, StoredKeeps, SelectKeeps, CollectKeeps, SaveKeeps,
     PreparedKeeps, WriteKeeps DEF Step
<1> QED
  BY <1>1, <1>2, <1>3, <1>4 DEF Next

-----------------------------------------------------------------------------
(* The theorems.                                                           *)

\* At any moment one job at most is past the lock of a day, the day is not
\* prepared while it prepares it, and what it prepares fits its request.
THEOREM BriefingInvariant == ASSUME RequestsAreSound PROVE Spec => []IInv
<1>1. Init => IInv
  BY InitInv
<1>2. IInv /\ [Next]_vars => IInv'
  BY NextInv
<1> QED
  BY <1>1, <1>2, PTL DEF Spec

\* Every variable stays in its domain: briefings, snapshots, the selection row
\* and the locks of _lock_job_serialization_key.
THEOREM BriefingTypes == ASSUME RequestsAreSound PROVE Spec => []TypeOK
<1>1. IInv => TypeOK
  <2> SUFFICES ASSUME IInv PROVE TypeOK
    OBVIOUS
  <2>1. ASSUME NEW j \in DOMAIN Jobs
        PROVE  /\ job[j].status \in {"absent", "queued", "running", "completed", "failed"}
               /\ job[j].attempts \in 0 .. MaxAttempts
               /\ run[j].pc # "off" <=> job[j].status = "running"
               /\ Range(run[j].topics) \subseteq Nodes
    <3>1. job[j] \in JobRows /\ JobOf(j) /\ run[j].topics \in Seq(Nodes)
      BY JobFields DEF IInv
    <3> QED
      BY <3>1 DEF JobRows, JobOf, Range
  <2>2. Range(selection.topics) \subseteq Nodes
    <3>1. selection.topics \in Seq(Nodes)
      BY DEF IInv, Typed
    <3> QED
      BY <3>1 DEF Range
  <2>3. \A d \in Dates : snapshot[d].ready \in BOOLEAN /\ {c.topic : c \in snapshot[d].contexts} = Range(snapshot[d].topics)
    BY SnapshotFields DEF IInv, SnapshotOf
  <2>4. \A k \in Locks : lock[k] # 0 => run[lock[k]].pc \notin {"off", "wait"}
    BY DEF IInv, LockOf, Waiting
  <2>5. wiki \in 1 .. Len(Candidates)
    BY DEF IInv, Typed
  <2> QED
    BY <2>1, <2>2, <2>3, <2>4, <2>5 DEF TypeOK
<1> QED
  BY <1>1, BriefingInvariant, PTL

\* A day has no more topics than the job that prepared it asked for.
THEOREM SnapshotsFitRequests == ASSUME RequestsAreSound PROVE Spec => []SnapshotFitsRequest
<1>1. IInv => SnapshotFitsRequest
  BY DEF IInv, SnapshotOf, SnapshotFitsRequest
<1> QED
  BY <1>1, BriefingInvariant, PTL

\* The topics and the evidence of a day are stored once: the lock of the day and
\* the look under it leave no second job that would store them again.
THEOREM SnapshotsAreFinal == ASSUME RequestsAreSound PROVE Spec => SnapshotIsFinal
<1>1. IInv /\ [Next]_vars => [ReadyStays]_vars
  <2> SUFFICES ASSUME IInv, Next, NEW d \in Dates, snapshot[d].ready PROVE snapshot'[d] = snapshot[d]
    BY DEF ReadyStays
  <2>1. CASE snapshot' = snapshot
    BY <2>1
  <2>2. ASSUME NEW j \in DOMAIN Jobs, upsert_briefing_topic_snapshot(j) PROVE snapshot'[d] = snapshot[d]
    <3>1. run[j].pc \in Preparing /\ ~snapshot[Jobs[j].date].ready
      BY <2>2 DEF upsert_briefing_topic_snapshot, Preparing, IInv, RunOf
    <3>2. d # Jobs[j].date
      BY <3>1
    <3> QED
      BY <2>2, <3>2 DEF upsert_briefing_topic_snapshot, IInv, Typed
  <2>3. snapshot' = snapshot \/ \E j \in DOMAIN Jobs : upsert_briefing_topic_snapshot(j)
    BY DEF Next, Step, BuildWiki, enqueue_briefing_preparation_job, get_topics, Claim, EndAttempt,
           _lock_job_serialization_key, prepare_briefing_snapshot, load_briefing_candidates, _load_stored,
           select_briefing_topics, _collect_prepared_contexts, _prepare_wiki_briefing_topics, WriteReport
  <2> QED
    BY <2>1, <2>2, <2>3
<1> QED
  BY <1>1, BriefingInvariant, PTL DEF Spec, SnapshotIsFinal

-----------------------------------------------------------------------------
(* Onboarding: what workers remember of the seed.                          *)

SeedJobStatuses == {"absent", "queued", "running", "completed", "failed"}
WorkerRow == [step : {"idle", "claimed", "started", "loaded", "resolved"},
              job : SeedJobs \cup {None}, full : BOOLEAN,
              found : [Keywords -> Meanings \cup {None}],
              asked : SUBSET [keyword : Keywords, sign : Signs]]

\* Of a worker's row r, the versions s, the jobs j and the contexts c.
PastLock(r) == r.step \in {"started", "loaded", "resolved"}
LatestBuilt(s, j) == s # <<>> /\ \E c \in Selections : j[<<c, Len(s)>>] = "completed"

\* The keywords that what a worker builds will have.
Building(r) == {k \in Keywords : r.found[k] # None \/ \E a \in r.asked : a.keyword = k}

\* A build that is no rebuild is of the first version, and the latest one, if another
\* was stored meanwhile, is not built.
StartedSound(r, s, j) ==
  /\ r.full => Len(s) > 1
  /\ ~r.full => r.job[2] = 1 /\ (Len(s) > 1 => ~LatestBuilt(s, j))

\* What is built has the keywords of the version that matters when it is written, and
\* nobody else has found a meaning of what is asked.
LoadedSound(r, s, j, c) ==
  /\ r.full /\ LatestBuilt(s, j) => Building(r) = KeywordsOf[s[Len(s)]]
  /\ r.job[2] = Len(s) => Building(r) = KeywordsOf[s[Len(s)]]
  /\ ~r.full => Building(r) = KeywordsOf[s[1]]
  /\ \A a \in r.asked : c[a.keyword][a.sign].status # "active"
  /\ r.step = "resolved" => \A a \in r.asked : r.found[a.keyword] # None

WorkerSound(r, s, j, c) ==
  /\ r.step # "idle" => r.job \in SeedJobs /\ j[r.job] # "absent"
  /\ PastLock(r) => StartedSound(r, s, j)
  /\ r.step \in {"loaded", "resolved"} => LoadedSound(r, s, j, c)

BuildsSound == \A w \in Workers : WorkerSound(worker[w], seed, seedJob, cache)
OneBuilder == \A w, u \in Workers : PastLock(worker[w]) /\ PastLock(worker[u]) => w = u
JobsOfVersions == \A c \in Selections : \A n \in 1 .. MaxVersions : seedJob[<<c, n>>] # "absent" => n <= Len(seed)
FirstPages == Len(seed) <= 1 => \A k \in Keywords : wikiPages[k] # None => seed # <<>> /\ k \in KeywordsOf[seed[1]]
LatestPages == LatestBuilt(seed, seedJob) => \A k \in Keywords : wikiPages[k] # None <=> k \in KeywordsOf[seed[Len(seed)]]
CacheSound == \A k \in Keywords : \A s \in Signs : cache[k][s].status = "active" => cache[k][s].meaning # None
BundlesSound == \A i \in Interests : bundle[i].answer = "accepted" => bundle[i].job /\ context # 0

OnboardingInv ==
  /\ OnboardingTypeOK /\ LatestPages /\ OneMeaningPerKeyword
  /\ BuildsSound /\ OneBuilder /\ JobsOfVersions /\ FirstPages /\ CacheSound /\ BundlesSound

-----------------------------------------------------------------------------
(* Requests.                                                               *)

\* A step that leaves seed, builds and contexts alone.
LEMMA RequestsKeep ==
  ASSUME OnboardingInv, UNCHANGED <<seed, builds>>, BundlesSound',
         context' \in Requests \cup {0},
         request' \in [Requests -> [step : {"none", "saved", "seeded", "stale", "lost"}, topics : SUBSET ChosenTopics]],
         report' \in [ChosenTopics -> Requests \cup {0}],
         bundle' \in [Interests -> [job : BOOLEAN, active : BOOLEAN, answer : {"none", "accepted", "conflict"}]]
  PROVE  OnboardingInv'
<1>1. seed' = seed /\ seedJob' = seedJob /\ worker' = worker /\ cache' = cache /\ wikiPages' = wikiPages
  BY DEF builds
<1>2. OnboardingTypeOK'
  BY <1>1 DEF OnboardingInv, OnboardingTypeOK
<1>3. LatestPages' /\ OneMeaningPerKeyword' /\ FirstPages' /\ JobsOfVersions' /\ CacheSound'
  BY <1>1 DEF OnboardingInv, LatestPages, OneMeaningPerKeyword, FirstPages, JobsOfVersions, CacheSound
<1>4. BuildsSound' /\ OneBuilder'
  BY <1>1 DEF OnboardingInv, BuildsSound, OneBuilder
<1> QED
  BY <1>2, <1>3, <1>4 DEF OnboardingInv

LEMMA ContextKeeps ==
  ASSUME ChoicesAreSound, OnboardingInv, NEW r \in Requests, UpsertUserContext(r)
  PROVE  OnboardingInv'
<1>1. UNCHANGED <<seed, builds>> /\ report' = report /\ bundle' = bundle
  BY DEF UpsertUserContext
<1>2. /\ context \in Requests \cup {0}
      /\ request \in [Requests -> [step : {"none", "saved", "seeded", "stale", "lost"}, topics : SUBSET ChosenTopics]]
  BY DEF OnboardingInv, OnboardingTypeOK
<1>3. TopicsOf[ChoiceOf[r]] \in SUBSET ChosenTopics
  BY DEF ChoicesAreSound
<1>4. /\ context' \in Requests \cup {0} /\ (context # 0 => context' # 0)
      /\ request' \in [Requests -> [step : {"none", "saved", "seeded", "stale", "lost"}, topics : SUBSET ChosenTopics]]
  <2>1. CASE r > context
    <3>1. context' = r /\ request' = [request EXCEPT ![r] = [step |-> "saved", topics |-> TopicsOf[ChoiceOf[r]]]]
      BY <2>1 DEF UpsertUserContext
    <3>2. r # 0
      BY <1>2, <2>1 DEF ChoicesAreSound
    <3> QED
      BY <1>2, <1>3, <3>1, <3>2
  <2>2. CASE ~(r > context)
    <3>1. context' = context /\ request' = [request EXCEPT ![r].step = "stale"]
      BY <2>2 DEF UpsertUserContext
    <3> QED
      BY <1>2, <3>1
  <2> QED
    BY <2>1, <2>2
<1>5. BundlesSound'
  BY <1>1, <1>4 DEF OnboardingInv, BundlesSound
<1> QED
  BY <1>1, <1>4, <1>5, RequestsKeep DEF OnboardingInv, OnboardingTypeOK

LEMMA ReportsKeep ==
  ASSUME ChoicesAreSound, OnboardingInv, NEW r \in Requests, NEW t \in ChosenTopics, EnqueueInterestReports(r, t)
  PROVE  OnboardingInv'
<1>1. UNCHANGED <<context, seed, builds, bundle>> /\ request' = [request EXCEPT ![r].topics = @ \ {t}]
  BY DEF EnqueueInterestReports
<1>2. report' \in [ChosenTopics -> Requests \cup {0}]
  BY DEF EnqueueInterestReports, EnqueueReportGeneration, OnboardingInv, OnboardingTypeOK
<1>3. request' \in [Requests -> [step : {"none", "saved", "seeded", "stale", "lost"}, topics : SUBSET ChosenTopics]]
  BY <1>1 DEF OnboardingInv, OnboardingTypeOK
<1>4. BundlesSound'
  BY <1>1 DEF OnboardingInv, BundlesSound
<1> QED
  BY <1>1, <1>2, <1>3, <1>4, RequestsKeep DEF OnboardingInv, OnboardingTypeOK

LEMMA LoseKeeps ==
  ASSUME OnboardingInv, NEW r \in Requests, Lose(r)
  PROVE  OnboardingInv'
<1>1. UNCHANGED <<context, seed, builds, report, bundle>> /\ request' = [request EXCEPT ![r] = [step |-> "lost", topics |-> {}]]
  BY DEF Lose
<1>2. request' \in [Requests -> [step : {"none", "saved", "seeded", "stale", "lost"}, topics : SUBSET ChosenTopics]]
  BY <1>1 DEF OnboardingInv, OnboardingTypeOK
<1>3. BundlesSound'
  BY <1>1 DEF OnboardingInv, BundlesSound
<1> QED
  BY <1>1, <1>2, <1>3, RequestsKeep DEF OnboardingInv, OnboardingTypeOK

LEMMA BundleKeeps ==
  ASSUME OnboardingInv, NEW i \in Interests, SubmitGeneration(i) \/ Recalculate(i)
  PROVE  OnboardingInv'
<1>1. UNCHANGED <<context, request, seed, builds, report>>
  BY DEF SubmitGeneration, Recalculate
<1>2. bundle \in [Interests -> [job : BOOLEAN, active : BOOLEAN, answer : {"none", "accepted", "conflict"}]]
  BY DEF OnboardingInv, OnboardingTypeOK
<1>3. /\ bundle' \in [Interests -> [job : BOOLEAN, active : BOOLEAN, answer : {"none", "accepted", "conflict"}]]
      /\ \A x \in Interests : bundle'[x].answer = "accepted" => bundle'[x].job /\ context # 0
  <2>1. CASE Recalculate(i)
    <3>1. bundle' = [bundle EXCEPT ![i].active = ~@]
      BY <2>1 DEF Recalculate
    <3> QED
      BY <1>2, <3>1 DEF OnboardingInv, BundlesSound
  <2>2. CASE SubmitGeneration(i)
    <3> DEFINE accepted == context # 0 /\ AcceptedBundle(i)
               row == [bundle[i] EXCEPT !.job = @ \/ accepted, !.answer = IF accepted THEN "accepted" ELSE "conflict"]
    <3>1. bundle' = [bundle EXCEPT ![i] = row]
      BY <1>2, <2>2 DEF SubmitGeneration
    <3>2. /\ row \in [job : BOOLEAN, active : BOOLEAN, answer : {"none", "accepted", "conflict"}]
          /\ row.answer = "accepted" => row.job /\ context # 0
      BY <1>2 DEF AcceptedBundle
    <3> HIDE DEF row
    <3> QED
      BY <1>2, <3>1, <3>2 DEF OnboardingInv, BundlesSound
  <2> QED
    BY <2>1, <2>2
<1>4. BundlesSound'
  BY <1>1, <1>3 DEF BundlesSound
<1> QED
  BY <1>1, <1>3, <1>4, RequestsKeep DEF OnboardingInv, OnboardingTypeOK

-----------------------------------------------------------------------------
(* The seed and its builds.                                                *)

LEMMA SeedIs ==
  ASSUME OnboardingInv
  PROVE  /\ seed \in Seq(Selections) /\ Len(seed) \in Nat /\ Len(seed) <= MaxVersions
         /\ DOMAIN seed = 1 .. Len(seed) /\ (seed = <<>> <=> Len(seed) = 0)
         /\ seed # <<>> => Len(seed) >= 1 /\ \A c \in Selections : <<c, Len(seed)>> \in SeedJobs
         /\ \A c \in Selections : \A n : <<c, n>> \in SeedJobs <=> n \in 1 .. MaxVersions
<1>1. seed \in Seq(Selections) /\ Len(seed) <= MaxVersions
  BY DEF OnboardingInv, OnboardingTypeOK
<1>2. Len(seed) \in Nat /\ DOMAIN seed = 1 .. Len(seed) /\ (seed = <<>> <=> Len(seed) = 0)
  BY <1>1, EmptySeq
<1>3. \A c \in Selections : \A n : <<c, n>> \in SeedJobs <=> n \in 1 .. MaxVersions
  BY DEF SeedJobs, Events
<1>4. seed # <<>> => Len(seed) >= 1 /\ Len(seed) \in 1 .. MaxVersions
  <2>1. SUFFICES ASSUME seed # <<>> PROVE Len(seed) >= 1 /\ Len(seed) \in Int
    BY <1>1
  <2> QED
    BY <1>2, <2>1
<1> QED
  BY <1>1, <1>2, <1>3, <1>4

\* A version is stored or found, and its build registered.
LEMMA SeedSaveKeeps ==
  ASSUME ChoicesAreSound, OnboardingInv, NEW c \in Selections, SaveOnboardingSeed(c),
         UNCHANGED <<context, worker, cache, wikiPages, report, bundle>>,
         request' \in [Requests -> [step : {"none", "saved", "seeded", "stale", "lost"}, topics : SUBSET ChosenTopics]]
  PROVE  OnboardingInv'
<1> DEFINE L == Len(seed)
           M == Len(seed')
<1>1. /\ M <= MaxVersions /\ seed' = SeedVersions(c)
      /\ seedJob' = [seedJob EXCEPT ![<<c, M>>] = IF @ = "absent" THEN "queued" ELSE @]
  BY DEF SaveOnboardingSeed
<1>2. /\ seed \in Seq(Selections) /\ L \in Nat /\ L <= MaxVersions /\ DOMAIN seed = 1 .. L /\ (seed = <<>> <=> L = 0)
      /\ seedJob \in [SeedJobs -> SeedJobStatuses]
      /\ \A b \in Selections : \A n : <<b, n>> \in SeedJobs <=> n \in 1 .. MaxVersions
  BY SeedIs DEF OnboardingInv, OnboardingTypeOK, SeedJobStatuses
<1>3. \/ seed' = seed /\ seed # <<>>
      \/ seed' = Append(seed, c)
  BY <1>1 DEF SeedVersions
<1>4. /\ seed' \in Seq(Selections) /\ M \in Nat /\ M >= 1 /\ M >= L /\ seed' # <<>> /\ \A n \in 1 .. L : seed'[n] = seed[n]
      /\ M = L \/ M = L + 1
  <2>1. CASE seed' = seed /\ seed # <<>>
    BY <1>2, <2>1
  <2>2. CASE seed' = Append(seed, c)
    BY <1>2, <2>2, AppendProperties
  <2> QED
    BY <1>3, <2>1, <2>2
<1>5. M = L => seed' = seed
  BY <1>2, <1>3, AppendProperties
<1> HIDE DEF M, L
<1>6. <<c, M>> \in SeedJobs /\ M \in 1 .. MaxVersions
  BY <1>1, <1>2, <1>4
<1>7. /\ seedJob' \in [SeedJobs -> SeedJobStatuses]
      /\ \A x \in SeedJobs : /\ seedJob'[x] = "completed" <=> seedJob[x] = "completed"
                             /\ seedJob[x] # "absent" => seedJob'[x] # "absent"
                             /\ x # <<c, M>> => seedJob'[x] = seedJob[x]
  BY <1>1, <1>2, <1>6 DEF SeedJobStatuses
<1>8. LatestBuilt(seed', seedJob') => M = L /\ seed' = seed /\ LatestBuilt(seed, seedJob)
  <2> SUFFICES ASSUME LatestBuilt(seed', seedJob') PROVE M = L /\ seed' = seed /\ LatestBuilt(seed, seedJob)
    OBVIOUS
  <2>1. PICK b \in Selections : seedJob'[<<b, M>>] = "completed"
    BY DEF LatestBuilt, M
  <2>2. <<b, M>> \in SeedJobs /\ seedJob[<<b, M>>] = "completed"
    BY <1>2, <1>6, <1>7, <2>1
  <2>3. M <= L
    BY <1>6, <2>2 DEF OnboardingInv, JobsOfVersions, L
  <2>4. M = L /\ seed' = seed /\ seed # <<>>
    BY <1>2, <1>4, <1>5, <2>3
  <2> QED
    BY <2>2, <2>4 DEF LatestBuilt, L
<1>9. OnboardingTypeOK'
  BY <1>1, <1>4, <1>7 DEF OnboardingInv, OnboardingTypeOK, SeedJobStatuses, M
<1>10. LatestPages'
  <2>1. LatestPages /\ wikiPages' = wikiPages
    BY DEF OnboardingInv
  <2> QED
    BY <1>8, <2>1 DEF LatestPages
<1>11. OneMeaningPerKeyword' /\ CacheSound' /\ BundlesSound' /\ OneBuilder'
  BY DEF OnboardingInv, OneMeaningPerKeyword, CacheSound, BundlesSound, OneBuilder
<1>12. JobsOfVersions'
  <2> SUFFICES ASSUME NEW b \in Selections, NEW n \in 1 .. MaxVersions, seedJob'[<<b, n>>] # "absent" PROVE n <= M
    BY DEF JobsOfVersions, M
  <2>1. CASE <<b, n>> = <<c, M>>
    BY <1>4, <2>1
  <2>2. CASE <<b, n>> # <<c, M>>
    <3>1. seedJob[<<b, n>>] # "absent"
      BY <1>2, <1>7, <2>2
    <3>2. n <= L
      BY <3>1 DEF OnboardingInv, JobsOfVersions, L
    <3> QED
      BY <1>2, <1>4, <3>2
  <2> QED
    BY <2>1, <2>2
<1>13. FirstPages'
  <2> SUFFICES ASSUME M <= 1, NEW k \in Keywords, wikiPages[k] # None PROVE k \in KeywordsOf[seed'[1]]
    BY <1>4 DEF FirstPages, M
  <2>1. L <= 1
    BY <1>2, <1>4
  <2>2. seed # <<>> /\ k \in KeywordsOf[seed[1]]
    BY <2>1 DEF OnboardingInv, FirstPages, L
  <2>3. 1 \in 1 .. L
    BY <1>2, <2>2
  <2> QED
    BY <1>4, <2>2, <2>3
<1>14. BuildsSound'
  <2> SUFFICES ASSUME NEW w \in Workers PROVE WorkerSound(worker[w], seed', seedJob', cache)
    BY DEF BuildsSound
  <2> DEFINE r == worker[w]
  <2>1. WorkerSound(r, seed, seedJob, cache)
    BY DEF OnboardingInv, BuildsSound
  <2> HIDE DEF r
  <2>2. r.step # "idle" => r.job \in SeedJobs /\ seedJob'[r.job] # "absent"
    BY <1>7, <2>1 DEF WorkerSound
  <2>3. r.step # "idle" => r.job[2] <= L /\ r.job[2] \in Nat /\ L >= 1
    <3> SUFFICES ASSUME r.step # "idle" PROVE r.job[2] <= L /\ r.job[2] \in Nat /\ L >= 1
      OBVIOUS
    <3>1. r.job \in SeedJobs /\ seedJob[r.job] # "absent"
      BY <2>1 DEF WorkerSound
    <3>2. PICK b \in Selections, n \in 1 .. MaxVersions : r.job = <<b, n>>
      BY <3>1 DEF SeedJobs, Events
    <3>3. n <= L
      BY <3>1, <3>2 DEF OnboardingInv, JobsOfVersions, L
    <3> QED
      BY <1>2, <3>2, <3>3
  <2>4. ASSUME PastLock(r) PROVE StartedSound(r, seed', seedJob')
    <3>1. StartedSound(r, seed, seedJob)
      BY <2>1, <2>4 DEF WorkerSound
    <3>2. r.full => L > 1
      BY <3>1 DEF StartedSound, L
    <3>3. r.full => M > 1
      BY <1>2, <1>4, <3>2
    <3>4. ~r.full => r.job[2] = 1 /\ (L > 1 => ~LatestBuilt(seed, seedJob))
      BY <3>1 DEF StartedSound, L
    <3>5. ~r.full => (M > 1 => ~LatestBuilt(seed', seedJob'))
      BY <1>8, <3>4
    <3> QED
      BY <3>3, <3>4, <3>5 DEF StartedSound, M
  <2>5. ASSUME r.step \in {"loaded", "resolved"} PROVE LoadedSound(r, seed', seedJob', cache)
    <3>1. LoadedSound(r, seed, seedJob, cache)
      BY <2>1, <2>5 DEF WorkerSound
    <3>2. r.job[2] <= L /\ r.job[2] \in Nat /\ L >= 1
      BY <2>3, <2>5
    <3>3. seed'[1] = seed[1]
      BY <1>2, <1>4, <3>2
    <3>4. r.full /\ LatestBuilt(seed', seedJob') => Building(r) = KeywordsOf[seed'[M]]
      BY <1>8, <3>1 DEF LoadedSound, L
    <3>5. r.job[2] = M => Building(r) = KeywordsOf[seed'[M]]
      <4>1. r.job[2] = M => M = L /\ seed' = seed
        BY <1>2, <1>4, <1>5, <3>2
      <4> QED
        BY <3>1, <4>1 DEF LoadedSound, L
    <3> QED
      BY <3>1, <3>3, <3>4, <3>5 DEF LoadedSound, M
  <2> QED
    BY <2>2, <2>4, <2>5 DEF WorkerSound, r
<1> QED
  BY <1>9, <1>10, <1>11, <1>12, <1>13, <1>14 DEF OnboardingInv

LEMMA SeedKeeps ==
  ASSUME ChoicesAreSound, OnboardingInv, NEW r \in Requests, SeedOnboardingInterests(r)
  PROVE  OnboardingInv'
<1>1. UNCHANGED <<context, worker, cache, wikiPages, report, bundle>> /\ request' = [request EXCEPT ![r].step = "seeded"]
  BY DEF SeedOnboardingInterests
<1>2. request' \in [Requests -> [step : {"none", "saved", "seeded", "stale", "lost"}, topics : SUBSET ChosenTopics]]
  <2>1. request \in [Requests -> [step : {"none", "saved", "seeded", "stale", "lost"}, topics : SUBSET ChosenTopics]]
    BY DEF OnboardingInv, OnboardingTypeOK
  <2> QED
    BY <1>1, <2>1
<1>3. CASE SaveOnboardingSeed(ChoiceOf[r])
  <2>1. ChoiceOf[r] \in Selections
    BY DEF ChoicesAreSound
  <2> QED
    BY <1>1, <1>2, <1>3, <2>1, SeedSaveKeeps
<1>4. CASE UNCHANGED <<seed, seedJob>>
  <2>1. UNCHANGED <<seed, builds>> /\ BundlesSound'
    BY <1>1, <1>4 DEF builds, OnboardingInv, BundlesSound
  <2> QED
    BY <1>1, <1>2, <2>1, RequestsKeep DEF OnboardingInv, OnboardingTypeOK
<1> QED
  BY <1>3, <1>4 DEF SeedOnboardingInterests

-----------------------------------------------------------------------------
(* Workers.                                                                *)

SameJobs(i, j) == \A x \in SeedJobs : /\ i[x] = "absent" <=> j[x] = "absent"
                                      /\ i[x] = "completed" <=> j[x] = "completed"

LEMMA SoundStays ==
  ASSUME OnboardingInv, NEW r, NEW j, SameJobs(seedJob, j), WorkerSound(r, seed, seedJob, cache)
  PROVE  WorkerSound(r, seed, j, cache)
<1>1. LatestBuilt(seed, j) <=> LatestBuilt(seed, seedJob)
  BY SeedIs DEF LatestBuilt, SameJobs
<1>2. r.step # "idle" => r.job \in SeedJobs /\ j[r.job] # "absent"
  BY DEF WorkerSound, SameJobs
<1>3. PastLock(r) => StartedSound(r, seed, j)
  BY <1>1 DEF WorkerSound, StartedSound
<1>4. r.step \in {"loaded", "resolved"} => LoadedSound(r, seed, j, cache)
  BY <1>1 DEF WorkerSound, LoadedSound
<1> QED
  BY <1>2, <1>3, <1>4 DEF WorkerSound

\* A worker goes on; jobs start and fail, and none is completed.
LEMMA WorkerKeeps ==
  ASSUME OnboardingInv, NEW w \in Workers, NEW r \in WorkerRow, worker' = [worker EXCEPT ![w] = r],
         UNCHANGED <<requests, seed, cache, wikiPages>>,
         seedJob' \in [SeedJobs -> SeedJobStatuses], SameJobs(seedJob, seedJob'),
         WorkerSound(r, seed, seedJob, cache),
         PastLock(r) => \A u \in Workers \ {w} : ~PastLock(worker[u])
  PROVE  OnboardingInv'
<1>1. /\ seed' = seed /\ cache' = cache /\ wikiPages' = wikiPages /\ context' = context /\ request' = request
      /\ report' = report /\ bundle' = bundle
  BY DEF requests
<1>2. worker \in [Workers -> WorkerRow]
  BY DEF OnboardingInv, OnboardingTypeOK, WorkerRow
<1>3. worker' \in [Workers -> WorkerRow] /\ worker'[w] = r /\ \A u \in Workers : u # w => worker'[u] = worker[u]
  BY <1>2
<1>4. OnboardingTypeOK'
  BY <1>1, <1>3 DEF OnboardingInv, OnboardingTypeOK, WorkerRow, SeedJobStatuses
<1>5. LatestBuilt(seed', seedJob') <=> LatestBuilt(seed, seedJob)
  BY <1>1, SeedIs DEF LatestBuilt, SameJobs
<1>6. LatestPages'
  BY <1>1, <1>5 DEF OnboardingInv, LatestPages
<1>7. OneMeaningPerKeyword' /\ CacheSound' /\ BundlesSound' /\ FirstPages'
  BY <1>1 DEF OnboardingInv, OneMeaningPerKeyword, CacheSound, BundlesSound, FirstPages
<1>8. JobsOfVersions'
  BY <1>1, SeedIs DEF OnboardingInv, JobsOfVersions, SameJobs
<1>9. OneBuilder'
  <2> SUFFICES ASSUME NEW u \in Workers, NEW v \in Workers, PastLock(worker'[u]), PastLock(worker'[v]) PROVE u = v
    BY DEF OneBuilder
  <2> QED
    BY <1>3 DEF OnboardingInv, OneBuilder
<1>10. BuildsSound'
  <2> SUFFICES ASSUME NEW u \in Workers PROVE WorkerSound(worker'[u], seed, seedJob', cache)
    BY <1>1 DEF BuildsSound
  <2>1. WorkerSound(worker'[u], seed, seedJob, cache)
    BY <1>3 DEF OnboardingInv, BuildsSound
  <2> QED
    BY <2>1, SoundStays
<1> QED
  BY <1>4, <1>6, <1>7, <1>8, <1>9, <1>10 DEF OnboardingInv

LEMMA IdleIs ==
  Idle \in WorkerRow /\ Idle.step = "idle" /\ ~PastLock(Idle) /\ \A s, j, c : WorkerSound(Idle, s, j, c)
<1>1. NoPages \in [Keywords -> Meanings \cup {None}]
  BY DEF NoPages
<1>2. Idle \in WorkerRow /\ Idle.step = "idle"
  BY <1>1 DEF Idle, WorkerRow
<1>3. ~PastLock(Idle)
  BY <1>2 DEF PastLock
<1> QED
  BY <1>2, <1>3 DEF WorkerSound

LEMMA WorkersAre ==
  ASSUME OnboardingInv, NEW w \in Workers
  PROVE  /\ worker \in [Workers -> WorkerRow] /\ worker[w] \in WorkerRow
         /\ WorkerSound(worker[w], seed, seedJob, cache)
         /\ seedJob \in [SeedJobs -> SeedJobStatuses]
BY DEF OnboardingInv, OnboardingTypeOK, WorkerRow, SeedJobStatuses, BuildsSound

LEMMA ClaimBuildKeeps ==
  ASSUME OnboardingInv, NEW w \in Workers, NEW j \in SeedJobs, ClaimBuild(w, j)
  PROVE  OnboardingInv'
<1> DEFINE r == [Idle EXCEPT !.step = "claimed", !.job = j]
<1>1. /\ seedJob[j] \in {"queued", "running"} /\ seedJob' = [seedJob EXCEPT ![j] = "running"]
      /\ worker' = [worker EXCEPT ![w] = r] /\ UNCHANGED <<requests, seed, cache, wikiPages>>
  BY DEF ClaimBuild
<1>2. r \in WorkerRow /\ r.step = "claimed" /\ r.job = j
  BY IdleIs DEF WorkerRow
<1>3. seedJob' \in [SeedJobs -> SeedJobStatuses] /\ SameJobs(seedJob, seedJob')
  BY <1>1, WorkersAre DEF SeedJobStatuses, SameJobs
<1> HIDE DEF r
<1>4. WorkerSound(r, seed, seedJob, cache) /\ ~PastLock(r)
  BY <1>1, <1>2 DEF WorkerSound, PastLock
<1> QED
  BY <1>1, <1>2, <1>3, <1>4, WorkerKeeps

LEMMA SameJobsRefl == ASSUME NEW j PROVE SameJobs(j, j)
BY DEF SameJobs

LEMMA StartBuildKeeps ==
  ASSUME OnboardingInv, NEW w \in Workers, StartBuild(w)
  PROVE  OnboardingInv'
<1> DEFINE o == worker[w]
           r == [o EXCEPT !.step = "started", !.full = IsRebuild(o.job)]
<1>1. /\ o.step = "claimed" /\ \A u \in Workers \ {w} : ~PastLock(worker[u])
      /\ UNCHANGED <<requests, seed, seedJob, cache, wikiPages>>
  BY DEF StartBuild, LockFree, PastLock
<1>2. worker \in [Workers -> WorkerRow] /\ o \in WorkerRow /\ WorkerSound(o, seed, seedJob, cache) /\ seedJob \in [SeedJobs -> SeedJobStatuses]
  BY WorkersAre
<1>3. worker' = [worker EXCEPT ![w] = r]
  BY <1>2 DEF StartBuild, WorkerRow
<1> HIDE DEF o
<1>4. r \in WorkerRow /\ r.step = "started" /\ r.job = o.job /\ (r.full <=> Len(seed) > 1)
  <2>1. IsRebuild(o.job) \in BOOLEAN /\ (IsRebuild(o.job) <=> Len(seed) > 1)
    BY DEF IsRebuild
  <2> QED
    BY <1>2, <2>1 DEF WorkerRow
<1> HIDE DEF r
<1>5. r.job \in SeedJobs /\ seedJob[r.job] # "absent"
  BY <1>1, <1>2, <1>4 DEF WorkerSound
<1>6. StartedSound(r, seed, seedJob)
  <2>1. PICK b \in Selections, n \in 1 .. MaxVersions : r.job = <<b, n>>
    BY <1>5 DEF SeedJobs, Events
  <2>2. n <= Len(seed) /\ Len(seed) \in Nat
    BY <1>5, <2>1, SeedIs DEF OnboardingInv, JobsOfVersions
  <2>3. r.job[2] = n
    BY <2>1
  <2>4. ~r.full => r.job[2] = 1
    BY <1>4, <2>2, <2>3
  <2>5. ~r.full => ~(Len(seed) > 1)
    BY <1>4
  <2> QED
    BY <1>4, <2>4, <2>5 DEF StartedSound
<1>7. WorkerSound(r, seed, seedJob, cache)
  BY <1>4, <1>5, <1>6 DEF WorkerSound
<1> QED
  BY <1>1, <1>2, <1>3, <1>4, <1>7, WorkerKeeps, SameJobsRefl

LEMMA FailKeeps ==
  ASSUME OnboardingInv, NEW w \in Workers, Fail(w)
  PROVE  OnboardingInv'
<1>1. UNCHANGED <<requests, seed, cache, wikiPages>> /\ worker' = [worker EXCEPT ![w] = Idle] /\ worker[w].step # "idle"
  BY DEF Fail
<1>2. PICK s \in {"queued", "running", "failed"} :
        seedJob' = [seedJob EXCEPT ![worker[w].job] = IF @ = "running" THEN s ELSE @]
  BY DEF Fail
<1>3. seedJob \in [SeedJobs -> SeedJobStatuses] /\ worker[w].job \in SeedJobs
  BY <1>1, WorkersAre DEF WorkerSound
<1>4. seedJob' \in [SeedJobs -> SeedJobStatuses] /\ SameJobs(seedJob, seedJob')
  BY <1>2, <1>3 DEF SeedJobStatuses, SameJobs
<1> QED
  BY <1>1, <1>4, IdleIs, WorkerKeeps

LEMMA KnownIs ==
  ASSUME ChoicesAreSound, OnboardingInv, NEW k \in Keywords, NEW s \in Signs
  PROVE  /\ Known(k, s) \in Meanings \cup {None}
         /\ Known(k, s) = None => cache[k][s].status # "active"
<1>1. /\ wikiPages[k] \in Meanings \cup {None}
      /\ cache[k][s].meaning \in Meanings \cup {None}
      /\ cache[k][s].status = "active" => cache[k][s].meaning # None
  BY DEF OnboardingInv, OnboardingTypeOK, CacheSound
<1>2. "official" # None /\ "official" \in Meanings
  BY DEF ChoicesAreSound, Meanings
<1>3. Existing(k) => wikiPages[k] # None
  BY DEF Existing
<1> QED
  BY <1>1, <1>2, <1>3 DEF Known, Cached

LEMMA SourceIs ==
  ASSUME ChoicesAreSound, OnboardingInv, NEW w \in Workers, PastLock(worker[w])
  PROVE  /\ Source(w) \in Selections
         /\ worker[w].full => Source(w) = seed[Len(seed)]
         /\ ~worker[w].full => Source(w) = seed[1]
<1>1. StartedSound(worker[w], seed, seedJob) /\ worker[w].job \in SeedJobs /\ seedJob[worker[w].job] # "absent"
  BY WorkersAre DEF WorkerSound, PastLock
<1>2. PICK b \in Selections, n \in 1 .. MaxVersions : worker[w].job = <<b, n>>
  BY <1>1 DEF SeedJobs, Events
<1>3. n <= Len(seed) /\ Len(seed) \in Nat
  BY <1>1, <1>2, SeedIs DEF OnboardingInv, JobsOfVersions
<1>4. Len(seed) \in 1 .. Len(seed) /\ 1 \in 1 .. Len(seed)
  BY <1>3
<1>5. seed[1] \in Selections /\ seed[Len(seed)] \in Selections
  BY <1>4, SeedIs
<1>6. ~worker[w].full => worker[w].job[2] = 1
  BY <1>1 DEF StartedSound
<1> QED
  BY <1>5, <1>6 DEF Source

LEMMA LoadKeeps ==
  ASSUME ChoicesAreSound, OnboardingInv, NEW w \in Workers, Load(w)
  PROVE  OnboardingInv'
<1> DEFINE o == worker[w]
           c == Source(w)
           ks == KeywordsOf[c]
           g == SignOf[c]
           found == [k \in Keywords |-> IF k \in ks THEN Known(k, g) ELSE None]
           asked == {[keyword |-> k, sign |-> g] : k \in {x \in ks : found[x] = None}}
           r == [o EXCEPT !.step = "loaded", !.found = found, !.asked = asked]
<1>1. /\ o.step = "started" /\ worker' = [worker EXCEPT ![w].step = "loaded", ![w].found = found, ![w].asked = asked]
      /\ UNCHANGED <<requests, seed, seedJob, cache, wikiPages>>
  BY DEF Load
<1>2. worker \in [Workers -> WorkerRow] /\ o \in WorkerRow /\ WorkerSound(o, seed, seedJob, cache) /\ seedJob \in [SeedJobs -> SeedJobStatuses]
  BY WorkersAre
<1>3. PastLock(o)
  BY <1>1 DEF PastLock
<1>4. c \in Selections /\ (o.full => c = seed[Len(seed)]) /\ (~o.full => c = seed[1])
  BY <1>3, SourceIs
<1> HIDE DEF c
<1>5. ks \in SUBSET Keywords /\ g \in Signs
  BY <1>4 DEF ChoicesAreSound
<1> HIDE DEF g
<1>6. /\ found \in [Keywords -> Meanings \cup {None}]
      /\ \A k \in Keywords : k \notin ks => found[k] = None
      /\ \A k \in ks : found[k] = None => cache[k][g].status # "active"
  BY <1>5, KnownIs
<1> HIDE DEF found
<1>7. /\ asked \in SUBSET [keyword : Keywords, sign : Signs]
      /\ \A a \in asked : a.keyword \in ks /\ a.sign = g /\ found[a.keyword] = None
      /\ \A k \in ks : found[k] = None => \E a \in asked : a.keyword = k
  <2>1. \A a \in asked : \E k \in ks : found[k] = None /\ a = [keyword |-> k, sign |-> g]
    OBVIOUS
  <2>2. \A k \in ks : found[k] = None => [keyword |-> k, sign |-> g] \in asked
    OBVIOUS
  <2> HIDE DEF asked, ks
  <2>3. \A a \in asked : a \in [keyword : Keywords, sign : Signs] /\ a.keyword \in ks /\ a.sign = g /\ found[a.keyword] = None
    BY <1>5, <2>1
  <2>4. \A k \in ks : found[k] = None => \E a \in asked : a.keyword = k
    <3> SUFFICES ASSUME NEW k \in ks, found[k] = None PROVE \E a \in asked : a.keyword = k
      OBVIOUS
    <3>1. [keyword |-> k, sign |-> g].keyword = k
      OBVIOUS
    <3> QED
      BY <2>2, <3>1
  <2> QED
    BY <2>3, <2>4
<1> HIDE DEF asked, ks
<1>8. worker' = [worker EXCEPT ![w] = r]
  BY <1>1, <1>2 DEF WorkerRow
<1>9. /\ r \in WorkerRow /\ r.step = "loaded" /\ r.job = o.job /\ r.full = o.full /\ r.found = found /\ r.asked = asked
  BY <1>2, <1>6, <1>7 DEF WorkerRow
<1> HIDE DEF r, o
<1>10. Building(r) = ks
  <2>0. r.found = found /\ r.asked = asked
    BY <1>9
  <2>1. \A k \in ks : r.found[k] # None \/ \E a \in r.asked : a.keyword = k
    BY <1>7, <2>0
  <2>2. \A k \in Keywords : r.found[k] # None => k \in ks
    BY <1>6, <1>9
  <2>3. \A a \in r.asked : a.keyword \in ks
    BY <1>7, <1>9
  <2> QED
    BY <1>5, <2>1, <2>2, <2>3 DEF Building
<1>11. StartedSound(r, seed, seedJob) /\ r.job \in SeedJobs /\ seedJob[r.job] # "absent"
  BY <1>1, <1>2, <1>3, <1>9 DEF WorkerSound, StartedSound
<1>12. LoadedSound(r, seed, seedJob, cache)
  <2>1. r.full => c = seed[Len(seed)]
    BY <1>4, <1>9
  <2>2. ~r.full => c = seed[1] /\ r.job[2] = 1
    BY <1>4, <1>9, <1>11 DEF StartedSound
  <2>3. \A a \in r.asked : cache[a.keyword][a.sign].status # "active"
    BY <1>6, <1>7, <1>9
  <2>4. r.job[2] = Len(seed) => Building(r) = KeywordsOf[seed[Len(seed)]]
    BY <1>10, <2>1, <2>2 DEF ks
  <2> QED
    BY <1>9, <1>10, <2>1, <2>2, <2>3, <2>4 DEF LoadedSound, ks
<1>13. WorkerSound(r, seed, seedJob, cache)
  BY <1>9, <1>11, <1>12 DEF WorkerSound
<1>14. \A u \in Workers \ {w} : ~PastLock(worker[u])
  BY <1>3 DEF OnboardingInv, OneBuilder, o
<1> QED
  BY <1>1, <1>2, <1>8, <1>9, <1>13, <1>14, WorkerKeeps, SameJobsRefl

LEMMA ResolveKeeps ==
  ASSUME ChoicesAreSound, OnboardingInv, NEW w \in Workers, Resolve(w)
  PROVE  OnboardingInv'
<1> DEFINE o == worker[w]
           ks == {a.keyword : a \in o.asked}
<1>1. PICK says \in Answers(ks) :
        worker' = [worker EXCEPT ![w].step = "resolved",
                     ![w].found = [k \in Keywords |->
                        IF k \in DOMAIN says THEN says[k]
                        ELSE IF k \in ks THEN "generic" ELSE @[k]]]
  BY DEF Resolve
<1> DEFINE found == [k \in Keywords |-> IF k \in DOMAIN says THEN says[k]
                                        ELSE IF k \in ks THEN "generic" ELSE o.found[k]]
           r == [o EXCEPT !.step = "resolved", !.found = found]
<1>2. o.step = "loaded" /\ UNCHANGED <<requests, seed, seedJob, cache, wikiPages>>
  BY DEF Resolve
<1>3. worker \in [Workers -> WorkerRow] /\ o \in WorkerRow /\ WorkerSound(o, seed, seedJob, cache) /\ seedJob \in [SeedJobs -> SeedJobStatuses]
  BY WorkersAre
<1>4. DOMAIN says \subseteq ks /\ \A k \in DOMAIN says : says[k] \in {"named", "renamed"}
  BY DEF Answers
<1> HIDE DEF ks
<1>5. /\ found \in [Keywords -> Meanings \cup {None}]
      /\ \A k \in Keywords : IF k \in ks THEN found[k] # None ELSE found[k] = o.found[k]
  <2>1. {"named", "renamed", "generic"} \subseteq Meanings /\ None \notin {"named", "renamed", "generic"}
    BY DEF Meanings, ChoicesAreSound
  <2>2. o.found \in [Keywords -> Meanings \cup {None}]
    BY <1>3 DEF WorkerRow
  <2> QED
    BY <1>4, <2>1, <2>2
<1>6. worker' = [worker EXCEPT ![w] = r]
  BY <1>1, <1>3 DEF WorkerRow
<1> HIDE DEF found
<1>7. /\ r \in WorkerRow /\ r.step = "resolved" /\ r.job = o.job /\ r.full = o.full /\ r.found = found /\ r.asked = o.asked
  BY <1>3, <1>5 DEF WorkerRow
<1> HIDE DEF r, o
<1>8. PastLock(o) /\ StartedSound(o, seed, seedJob) /\ LoadedSound(o, seed, seedJob, cache)
      /\ o.job \in SeedJobs /\ seedJob[o.job] # "absent"
  BY <1>2, <1>3 DEF WorkerSound, PastLock
<1>9. Building(r) = Building(o)
  <2>1. \A k \in Keywords : k \in ks <=> \E a \in o.asked : a.keyword = k
    BY DEF ks, o
  <2> QED
    BY <1>5, <1>7, <2>1 DEF Building
<1>10. \A a \in r.asked : r.found[a.keyword] # None
  <2>1. \A a \in o.asked : a.keyword \in Keywords /\ a.keyword \in ks
    BY <1>3 DEF WorkerRow, ks, o
  <2> QED
    BY <1>5, <1>7, <2>1
<1>11. StartedSound(r, seed, seedJob) /\ LoadedSound(r, seed, seedJob, cache)
  BY <1>7, <1>8, <1>9, <1>10 DEF StartedSound, LoadedSound
<1>12. WorkerSound(r, seed, seedJob, cache)
  BY <1>7, <1>8, <1>11 DEF WorkerSound
<1>13. \A u \in Workers \ {w} : ~PastLock(worker[u])
  BY <1>8 DEF OnboardingInv, OneBuilder, o
<1> QED
  BY <1>2, <1>3, <1>6, <1>7, <1>12, <1>13, WorkerKeeps, SameJobsRefl

\* The contexts a build saves take the place of others, and of none that is active with
\* their own signature.
LEMMA ContextsSaved ==
  ASSUME ChoicesAreSound, OnboardingInv, NEW w \in Workers, worker[w].step = "resolved", SaveCustomTopicContexts(w)
  PROVE  /\ cache' \in [Keywords -> [Signs -> [status : {"absent", "active", "superseded"}, meaning : Meanings \cup {None}]]]
         /\ OneMeaningPerKeyword' /\ CacheSound' /\ MeaningIsKept
<1> DEFINE o == worker[w]
           CacheRow == [status : {"absent", "active", "superseded"}, meaning : Meanings \cup {None}]
           asking(k) == CHOOSE a \in o.asked : a.keyword = k
<1>1. o \in WorkerRow /\ LoadedSound(o, seed, seedJob, cache)
  BY WorkersAre DEF WorkerSound
<1>2. /\ o.asked \in SUBSET [keyword : Keywords, sign : Signs] /\ o.found \in [Keywords -> Meanings \cup {None}]
      /\ \A a \in o.asked : cache[a.keyword][a.sign].status # "active" /\ o.found[a.keyword] # None
  BY <1>1 DEF WorkerRow, LoadedSound
<1>3. cache \in [Keywords -> [Signs -> CacheRow]]
  BY DEF OnboardingInv, OnboardingTypeOK
<1> HIDE DEF o
<1>4. ASSUME NEW k \in Keywords
      PROVE  IF \E a \in o.asked : a.keyword = k
             THEN /\ cache'[k] = Saved(asking(k), o.found[k]) /\ asking(k) \in o.asked /\ asking(k).keyword = k /\ asking(k).sign \in Signs
             ELSE cache'[k] = cache[k]
  <2>1. cache'[k] = IF \E a \in o.asked : a.keyword = k THEN Saved(asking(k), o.found[k]) ELSE cache[k]
    BY DEF SaveCustomTopicContexts, o
  <2>2. (\E a \in o.asked : a.keyword = k) => asking(k) \in o.asked /\ asking(k).keyword = k
    OBVIOUS
  <2> HIDE DEF asking
  <2> QED
    BY <1>2, <2>1, <2>2
<1> HIDE DEF asking
<1>5. ASSUME NEW k \in Keywords
      PROVE  /\ cache'[k] \in [Signs -> CacheRow]
             /\ \A s, t \in Signs :
                  cache'[k][s].status = "active" /\ cache'[k][t].status = "active" /\ LocaleOf[s] = LocaleOf[t] => s = t
             /\ \A s \in Signs : cache'[k][s].status = "active" => cache'[k][s].meaning # None
             /\ \A s \in Signs : cache[k][s].status = "active" /\ cache'[k][s].status = "active"
                                   => cache'[k][s].meaning = cache[k][s].meaning
  <2>1. cache[k] \in [Signs -> CacheRow]
    BY <1>3
  <2>2. /\ \A s, t \in Signs : cache[k][s].status = "active" /\ cache[k][t].status = "active" /\ LocaleOf[s] = LocaleOf[t] => s = t
        /\ \A s \in Signs : cache[k][s].status = "active" => cache[k][s].meaning # None
    BY DEF OnboardingInv, OneMeaningPerKeyword, CacheSound
  <2>3. CASE ~\E a \in o.asked : a.keyword = k
    <3>1. cache'[k] = cache[k]
      BY <1>4, <2>3
    <3> QED
      BY <2>1, <2>2, <3>1
  <2>4. CASE \E a \in o.asked : a.keyword = k
    <3> DEFINE a == asking(k)
               m == o.found[k]
               g == a.sign
    <3>1. cache'[k] = Saved(a, m) /\ a \in o.asked /\ a.keyword = k /\ g \in Signs
      BY <1>4, <2>4
    <3>2. m \in Meanings /\ m # None /\ cache[k][g].status # "active"
      BY <1>2, <3>1
    <3> HIDE DEF m
    <3>3. \A s \in Signs : cache'[k][s] =
            IF s = g THEN [status |-> "active", meaning |-> m]
            ELSE IF LocaleOf[s] = LocaleOf[g] /\ cache[k][s].status = "active"
            THEN [cache[k][s] EXCEPT !.status = "superseded"]
            ELSE cache[k][s]
      BY <3>1 DEF Saved
    <3>4. cache'[k] = [s \in Signs |-> cache'[k][s]]
      BY <3>1 DEF Saved
    <3> HIDE DEF a
    <3>5. ASSUME NEW s \in Signs PROVE cache'[k][s] \in CacheRow
      <4>1. cache[k][s] \in CacheRow /\ [cache[k][s] EXCEPT !.status = "superseded"] \in CacheRow
        BY <2>1
      <4>2. [status |-> "active", meaning |-> m] \in CacheRow
        BY <3>2
      <4> HIDE DEF CacheRow
      <4> QED
        BY <3>3, <4>1, <4>2
    <3>6. \A s \in Signs : s # g /\ cache'[k][s].status = "active" =>
                             cache'[k][s] = cache[k][s] /\ LocaleOf[s] # LocaleOf[g]
      BY <2>1, <3>3
    <3>7. cache'[k][g].status = "active" /\ cache'[k][g].meaning = m
      <4>1. cache'[k][g] = [status |-> "active", meaning |-> m]
        BY <3>1, <3>3
      <4> QED
        BY <4>1
    <3>8. cache'[k] \in [Signs -> CacheRow]
      BY <3>4, <3>5
    <3> QED
      BY <2>2, <3>1, <3>2, <3>6, <3>7, <3>8
  <2> QED
    BY <2>3, <2>4
<1>6. cache' = [k \in Keywords |-> cache'[k]]
  BY DEF SaveCustomTopicContexts
<1>7. cache' \in [Keywords -> [Signs -> CacheRow]]
  BY <1>5, <1>6
<1> QED
  BY <1>5, <1>7 DEF OneMeaningPerKeyword, CacheSound, MeaningIsKept

LEMMA PersistKeeps ==
  ASSUME ChoicesAreSound, OnboardingInv, NEW w \in Workers, Persist(w)
  PROVE  OnboardingInv' /\ MeaningIsKept
<1> DEFINE o == worker[w]
<1>1. /\ o.step = "resolved" /\ SaveCustomTopicContexts(w) /\ UNCHANGED <<requests, seed>>
      /\ wikiPages' = [k \in Keywords |-> IF o.full \/ o.found[k] # None THEN o.found[k] ELSE wikiPages[k]]
      /\ seedJob' = [seedJob EXCEPT ![o.job] = "completed"]
      /\ worker' = [worker EXCEPT ![w] = Idle]
  BY DEF Persist
<1>2. /\ cache' \in [Keywords -> [Signs -> [status : {"absent", "active", "superseded"}, meaning : Meanings \cup {None}]]]
      /\ OneMeaningPerKeyword' /\ CacheSound' /\ MeaningIsKept
  BY <1>1, ContextsSaved
<1>3. /\ worker \in [Workers -> WorkerRow] /\ o \in WorkerRow /\ seedJob \in [SeedJobs -> SeedJobStatuses]
      /\ WorkerSound(o, seed, seedJob, cache)
  BY WorkersAre
<1>4. /\ seed' = seed /\ context' = context /\ request' = request /\ report' = report /\ bundle' = bundle
  BY <1>1 DEF requests
<1> HIDE DEF o
<1>5. /\ o.job \in SeedJobs /\ seedJob[o.job] # "absent" /\ PastLock(o)
      /\ StartedSound(o, seed, seedJob) /\ LoadedSound(o, seed, seedJob, cache)
  BY <1>1, <1>3 DEF WorkerSound, PastLock
<1>6. PICK b \in Selections, n \in 1 .. MaxVersions : o.job = <<b, n>>
  BY <1>5 DEF SeedJobs, Events
<1>7. n \in Nat /\ n >= 1 /\ n <= Len(seed) /\ Len(seed) \in Nat /\ o.job[2] = n
  <2>1. n \in Nat /\ n >= 1
    BY DEF ChoicesAreSound
  <2>2. n <= Len(seed) /\ Len(seed) \in Nat /\ o.job[2] = n
    BY <1>5, <1>6, SeedIs DEF OnboardingInv, JobsOfVersions
  <2> QED
    BY <2>1, <2>2
<1>8. /\ seedJob' \in [SeedJobs -> SeedJobStatuses]
      /\ seedJob'[o.job] = "completed"
      /\ \A j \in SeedJobs : j # o.job => seedJob'[j] = seedJob[j]
  BY <1>1, <1>3, <1>5 DEF SeedJobStatuses
<1>9. /\ worker' \in [Workers -> WorkerRow] /\ worker'[w] = Idle
      /\ \A u \in Workers : u # w => worker'[u] = worker[u] /\ ~PastLock(worker[u])
  BY <1>1, <1>3, <1>5, IdleIs DEF OnboardingInv, OneBuilder, o
<1>10. /\ wikiPages \in [Keywords -> Meanings \cup {None}] /\ o.found \in [Keywords -> Meanings \cup {None}]
       /\ wikiPages' \in [Keywords -> Meanings \cup {None}]
       /\ \A k \in Keywords : wikiPages'[k] = IF o.full \/ o.found[k] # None THEN o.found[k] ELSE wikiPages[k]
  BY <1>1, <1>3 DEF OnboardingInv, OnboardingTypeOK, WorkerRow
\* What is asked is answered: the build has exactly the keywords of its source.
<1>11. \A k \in Keywords : o.found[k] # None <=> k \in Building(o)
  BY <1>1, <1>5 DEF Building, LoadedSound
<1>12. OnboardingTypeOK'
  BY <1>2, <1>4, <1>8, <1>9, <1>10 DEF OnboardingInv, OnboardingTypeOK, WorkerRow, SeedJobStatuses
<1>13. LatestBuilt(seed, seedJob') => n = Len(seed) \/ LatestBuilt(seed, seedJob)
  <2> SUFFICES ASSUME LatestBuilt(seed, seedJob'), n # Len(seed) PROVE LatestBuilt(seed, seedJob)
    OBVIOUS
  <2>1. PICK c \in Selections : seed # <<>> /\ seedJob'[<<c, Len(seed)>>] = "completed"
    BY DEF LatestBuilt
  <2>2. <<c, Len(seed)>> \in SeedJobs
    BY <2>1, SeedIs
  <2>3. <<c, Len(seed)>> # o.job
    BY <1>6
  <2> QED
    BY <1>8, <2>1, <2>2, <2>3 DEF LatestBuilt
<1>14. LatestPages'
  <2> SUFFICES ASSUME LatestBuilt(seed, seedJob'), NEW k \in Keywords
               PROVE  wikiPages'[k] # None <=> k \in KeywordsOf[seed[Len(seed)]]
    BY <1>4 DEF LatestPages
  <2>1. CASE o.full
    <3>1. Building(o) = KeywordsOf[seed[Len(seed)]]
      BY <1>5, <1>7, <1>13, <2>1 DEF LoadedSound
    <3> QED
      BY <1>10, <1>11, <2>1, <3>1
  <2>2. CASE ~o.full
    <3>1. n = 1 /\ (Len(seed) > 1 => ~LatestBuilt(seed, seedJob)) /\ Building(o) = KeywordsOf[seed[1]]
      BY <1>5, <1>7, <2>2 DEF StartedSound, LoadedSound
    <3>2. Len(seed) = 1
      <4>1. ~(Len(seed) > 1) \/ 1 = Len(seed)
        BY <1>13, <3>1
      <4>2. \A x \in Nat : 1 <= x /\ (~(x > 1) \/ 1 = x) => x = 1
        OBVIOUS
      <4>3. Len(seed) \in Nat /\ 1 <= Len(seed)
        BY <1>7, <3>1
      <4> QED
        BY <4>1, <4>2, <4>3
    <3>3. wikiPages[k] # None => k \in KeywordsOf[seed[1]]
      BY <3>2 DEF OnboardingInv, FirstPages
    <3> QED
      BY <1>10, <1>11, <2>2, <3>1, <3>2, <3>3
  <2> QED
    BY <2>1, <2>2
<1>15. FirstPages'
  <2> SUFFICES ASSUME Len(seed) <= 1, NEW k \in Keywords, wikiPages'[k] # None
               PROVE  seed # <<>> /\ k \in KeywordsOf[seed[1]]
    BY <1>4 DEF FirstPages
  <2>1. ~o.full /\ Len(seed) = 1
    <3>1. o.full => Len(seed) > 1
      BY <1>5 DEF StartedSound
    <3>2. Len(seed) = 1
      <4>1. \A x, y \in Nat : y >= 1 /\ y <= x /\ x <= 1 => x = 1
        OBVIOUS
      <4>2. n \in Nat /\ Len(seed) \in Nat /\ n >= 1 /\ n <= Len(seed) /\ Len(seed) <= 1
        BY <1>7
      <4> QED
        BY <4>1, <4>2
    <3>3. Len(seed) \in Nat
      BY <1>7
    <3> HIDE DEF o
    <3> QED
      BY <3>1, <3>2, <3>3
  <2>2. Building(o) = KeywordsOf[seed[1]]
    BY <1>5, <2>1 DEF LoadedSound
  <2>3. wikiPages[k] # None => k \in KeywordsOf[seed[1]]
    BY <2>1 DEF OnboardingInv, FirstPages
  <2>4. seed # <<>>
    BY <2>1
  <2> QED
    BY <1>10, <1>11, <2>1, <2>2, <2>3, <2>4
<1>16. JobsOfVersions'
  <2> SUFFICES ASSUME NEW c \in Selections, NEW m \in 1 .. MaxVersions, seedJob'[<<c, m>>] # "absent"
               PROVE  m <= Len(seed)
    BY <1>4 DEF JobsOfVersions
  <2>1. <<c, m>> \in SeedJobs
    BY DEF SeedJobs, Events
  <2>2. seedJob[<<c, m>>] # "absent"
    BY <1>5, <1>8, <2>1
  <2> QED
    BY <2>2 DEF OnboardingInv, JobsOfVersions
<1>17. BundlesSound'
  BY <1>4 DEF OnboardingInv, BundlesSound
<1>18. OneBuilder'
  <2> SUFFICES ASSUME NEW u \in Workers, NEW v \in Workers, PastLock(worker'[u]), PastLock(worker'[v]) PROVE u = v
    BY DEF OneBuilder
  <2> QED
    BY <1>9, IdleIs
<1>19. BuildsSound'
  <2> SUFFICES ASSUME NEW u \in Workers PROVE WorkerSound(worker'[u], seed, seedJob', cache')
    BY <1>4 DEF BuildsSound
  <2>1. CASE u = w
    BY <1>9, <2>1, IdleIs
  <2>2. CASE u # w
    <3>1. worker'[u] = worker[u] /\ ~PastLock(worker[u]) /\ WorkerSound(worker[u], seed, seedJob, cache)
      BY <1>9, <2>2, WorkersAre
    <3>2. worker[u].step # "idle" => worker[u].job \in SeedJobs /\ seedJob'[worker[u].job] # "absent"
      BY <1>8, <3>1 DEF WorkerSound
    <3> QED
      BY <3>1, <3>2 DEF WorkerSound, PastLock
  <2> QED
    BY <2>1, <2>2
<1> QED
  BY <1>2, <1>12, <1>14, <1>15, <1>16, <1>17, <1>18, <1>19 DEF OnboardingInv

\* A bundle that was accepted has its job, and the context stays.
LEMMA BundlesStay ==
  ASSUME OnboardingInv, NEW i \in Interests, SubmitGeneration(i) \/ Recalculate(i)
  PROVE  AcceptedStaysAccepted
<1> SUFFICES ASSUME NEW x \in Interests, bundle[x].answer = "accepted" PROVE bundle'[x].answer = "accepted"
  BY DEF AcceptedStaysAccepted
<1>1. bundle \in [Interests -> [job : BOOLEAN, active : BOOLEAN, answer : {"none", "accepted", "conflict"}]]
  BY DEF OnboardingInv, OnboardingTypeOK
<1>2. bundle[x].job = TRUE /\ context # 0
  BY <1>1 DEF OnboardingInv, BundlesSound
<1>3. CASE Recalculate(i)
  BY <1>1, <1>3 DEF Recalculate
<1>4. CASE SubmitGeneration(i)
  <2> DEFINE accepted == context # 0 /\ AcceptedBundle(i)
             row == [bundle[i] EXCEPT !.job = @ \/ accepted, !.answer = IF accepted THEN "accepted" ELSE "conflict"]
  <2>1. bundle' = [bundle EXCEPT ![i] = row]
    BY <1>1, <1>4 DEF SubmitGeneration
  <2>2. x = i => accepted
    BY <1>2 DEF AcceptedBundle
  <2>3. accepted => row.answer = "accepted"
    BY <1>1
  <2> HIDE DEF accepted, row
  <2>4. x # i => bundle'[x] = bundle[x]
    BY <1>1, <2>1
  <2>5. x = i => bundle'[x] = row
    BY <1>1, <2>1
  <2> QED
    BY <2>2, <2>3, <2>4, <2>5
<1> QED
  BY <1>3, <1>4

LEMMA OnboardingStarts ==
  ASSUME ChoicesAreSound, OnboardingInit
  PROVE  OnboardingInv
<1>1. /\ context = 0 /\ seed = <<>> /\ wikiPages = NoPages
      /\ request = [r \in Requests |-> [step |-> "none", topics |-> {}]]
      /\ seedJob = [j \in SeedJobs |-> "absent"]
      /\ worker = [w \in Workers |-> Idle]
      /\ cache = [k \in Keywords |-> [s \in Signs |-> [status |-> "absent", meaning |-> None]]]
      /\ report = [t \in ChosenTopics |-> 0]
      /\ bundle = [i \in Interests |-> [job |-> FALSE, active |-> TRUE, answer |-> "none"]]
  BY DEF OnboardingInit
<1>2. seed \in Seq(Selections) /\ Len(seed) <= MaxVersions
  BY <1>1 DEF ChoicesAreSound
<1>3. wikiPages \in [Keywords -> Meanings \cup {None}] /\ \A k \in Keywords : wikiPages[k] = None
  BY <1>1 DEF NoPages
<1>4. worker \in [Workers -> WorkerRow] /\ \A w \in Workers : worker[w] = Idle
  BY <1>1, IdleIs
<1>5. OnboardingTypeOK
  BY <1>1, <1>2, <1>3, <1>4 DEF OnboardingTypeOK, WorkerRow
<1>6. BuildsSound /\ OneBuilder
  BY <1>4, IdleIs DEF BuildsSound, OneBuilder
<1>7. FirstPages /\ LatestPages
  BY <1>1, <1>3 DEF FirstPages, LatestPages, LatestBuilt
<1>8. JobsOfVersions
  <2> SUFFICES ASSUME NEW c \in Selections, NEW n \in 1 .. MaxVersions PROVE seedJob[<<c, n>>] = "absent"
    BY DEF JobsOfVersions
  <2> QED
    BY <1>1 DEF SeedJobs, Events
<1>9. OneMeaningPerKeyword /\ CacheSound
  <2>1. \A k \in Keywords, s \in Signs : cache[k][s].status = "absent"
    BY <1>1
  <2> QED
    BY <2>1 DEF OneMeaningPerKeyword, CacheSound
<1>10. BundlesSound
  BY <1>1 DEF BundlesSound
<1> QED
  BY <1>5, <1>6, <1>7, <1>8, <1>9, <1>10 DEF OnboardingInv

LEMMA OnboardingSteps ==
  ASSUME ChoicesAreSound, OnboardingInv, OnboardingNext
  PROVE  OnboardingInv' /\ MeaningIsKept /\ AcceptedStaysAccepted
<1>1. ASSUME cache' = cache PROVE MeaningIsKept
  BY <1>1 DEF MeaningIsKept
<1>2. ASSUME bundle' = bundle PROVE AcceptedStaysAccepted
  BY <1>2 DEF AcceptedStaysAccepted
<1>3. ASSUME NEW r \in Requests, UpsertUserContext(r)
      PROVE  OnboardingInv' /\ MeaningIsKept /\ AcceptedStaysAccepted
  <2>1. cache' = cache /\ bundle' = bundle
    BY <1>3 DEF UpsertUserContext, builds
  <2> QED
    BY <1>1, <1>2, <1>3, <2>1, ContextKeeps
<1>4. ASSUME NEW r \in Requests, SeedOnboardingInterests(r)
      PROVE  OnboardingInv' /\ MeaningIsKept /\ AcceptedStaysAccepted
  <2>1. cache' = cache /\ bundle' = bundle
    BY <1>4 DEF SeedOnboardingInterests
  <2> QED
    BY <1>1, <1>2, <1>4, <2>1, SeedKeeps
<1>5. ASSUME NEW r \in Requests, Lose(r)
      PROVE  OnboardingInv' /\ MeaningIsKept /\ AcceptedStaysAccepted
  <2>1. cache' = cache /\ bundle' = bundle
    BY <1>5 DEF Lose, builds
  <2> QED
    BY <1>1, <1>2, <1>5, <2>1, LoseKeeps
<1>6. ASSUME NEW r \in Requests, NEW t \in ChosenTopics, EnqueueInterestReports(r, t)
      PROVE  OnboardingInv' /\ MeaningIsKept /\ AcceptedStaysAccepted
  <2>1. cache' = cache /\ bundle' = bundle
    BY <1>6 DEF EnqueueInterestReports, builds
  <2> QED
    BY <1>1, <1>2, <1>6, <2>1, ReportsKeep
<1>7. ASSUME NEW i \in Interests, SubmitGeneration(i) \/ Recalculate(i)
      PROVE  OnboardingInv' /\ MeaningIsKept /\ AcceptedStaysAccepted
  <2>1. cache' = cache
    BY <1>7 DEF SubmitGeneration, Recalculate, builds
  <2> QED
    BY <1>1, <1>7, <2>1, BundleKeeps, BundlesStay
<1>8. ASSUME NEW w \in Workers, NEW j \in SeedJobs, ClaimBuild(w, j)
      PROVE  OnboardingInv' /\ MeaningIsKept /\ AcceptedStaysAccepted
  <2>1. cache' = cache /\ bundle' = bundle
    BY <1>8 DEF ClaimBuild, requests
  <2> QED
    BY <1>1, <1>2, <1>8, <2>1, ClaimBuildKeeps
<1>9. ASSUME NEW w \in Workers, StartBuild(w)
      PROVE  OnboardingInv' /\ MeaningIsKept /\ AcceptedStaysAccepted
  <2>1. cache' = cache /\ bundle' = bundle
    BY <1>9 DEF StartBuild, requests
  <2> QED
    BY <1>1, <1>2, <1>9, <2>1, StartBuildKeeps
<1>10. ASSUME NEW w \in Workers, Load(w)
       PROVE  OnboardingInv' /\ MeaningIsKept /\ AcceptedStaysAccepted
  <2>1. cache' = cache /\ bundle' = bundle
    BY <1>10 DEF Load, requests
  <2> QED
    BY <1>1, <1>2, <1>10, <2>1, LoadKeeps
<1>11. ASSUME NEW w \in Workers, Resolve(w)
       PROVE  OnboardingInv' /\ MeaningIsKept /\ AcceptedStaysAccepted
  <2>1. cache' = cache /\ bundle' = bundle
    BY <1>11 DEF Resolve, requests
  <2> QED
    BY <1>1, <1>2, <1>11, <2>1, ResolveKeeps
<1>12. ASSUME NEW w \in Workers, Persist(w)
       PROVE  OnboardingInv' /\ MeaningIsKept /\ AcceptedStaysAccepted
  <2>1. bundle' = bundle
    BY <1>12 DEF Persist, requests
  <2> QED
    BY <1>2, <1>12, <2>1, PersistKeeps
<1>13. ASSUME NEW w \in Workers, Fail(w)
       PROVE  OnboardingInv' /\ MeaningIsKept /\ AcceptedStaysAccepted
  <2>1. cache' = cache /\ bundle' = bundle
    BY <1>13 DEF Fail, requests
  <2> QED
    BY <1>1, <1>2, <1>13, <2>1, FailKeeps
<1> QED
  BY <1>3, <1>4, <1>5, <1>6, <1>7, <1>8, <1>9, <1>10, <1>11, <1>12, <1>13 DEF OnboardingNext

LEMMA OnboardingStutters ==
  ASSUME OnboardingInv, UNCHANGED onboardingVars
  PROVE  OnboardingInv' /\ MeaningIsKept /\ AcceptedStaysAccepted
<1>1. UNCHANGED <<seed, builds>> /\ context' = context /\ request' = request /\ report' = report /\ bundle' = bundle
  BY DEF onboardingVars, builds
<1>2. MeaningIsKept /\ AcceptedStaysAccepted
  BY <1>1 DEF builds, MeaningIsKept, AcceptedStaysAccepted
<1>3. BundlesSound'
  BY <1>1 DEF OnboardingInv, BundlesSound
<1> QED
  BY <1>1, <1>2, <1>3, RequestsKeep DEF OnboardingInv, OnboardingTypeOK

\* What workers remember of the seed and the wiki is what the pages, the versions and the
\* contexts are when they write, though the choice and the taxonomy change meanwhile
\* (agent/graph.py:706-721, agent/wiki_builder/features/onboarding_contexts.py:283-293).
THEOREM OnboardingInvariant ==
  ASSUME ChoicesAreSound
  PROVE  OnboardingSpec => []OnboardingInv
<1>1. OnboardingInit => OnboardingInv
  BY OnboardingStarts
<1>2. OnboardingInv /\ [OnboardingNext]_onboardingVars => OnboardingInv'
  BY OnboardingSteps, OnboardingStutters
<1> QED
  BY <1>1, <1>2, PTL DEF OnboardingSpec

\* Once the latest seed is built the wiki has its keywords and no others, whatever builds
\* of earlier versions fail, are retried or claimed again; a keyword has one active
\* context in a locale (agent/graph.py:706-721,
\* persistence/features/onboarding_contexts.py:190-208).
THEOREM SeedAlwaysFollowed ==
  ASSUME ChoicesAreSound
  PROVE  OnboardingSpec => []SeedIsFollowed
<1>1. OnboardingInv => SeedIsFollowed
  <2> SUFFICES ASSUME OnboardingInv PROVE SeedIsFollowed
    OBVIOUS
  <2>1. OnboardingTypeOK /\ OneMeaningPerKeyword
    BY DEF OnboardingInv
  <2>2. LatestSeedIsInWiki
    <3> SUFFICES ASSUME LatestBuilt(seed, seedJob)
                 PROVE  {k \in Keywords : wikiPages[k] # None} = KeywordsOf[seed[Len(seed)]]
      BY DEF LatestSeedIsInWiki, LatestBuilt
    <3>1. \A k \in Keywords : wikiPages[k] # None <=> k \in KeywordsOf[seed[Len(seed)]]
      BY DEF OnboardingInv, LatestPages
    <3>2. seed # <<>> /\ Len(seed) \in Nat /\ DOMAIN seed = 1 .. Len(seed) /\ seed \in Seq(Selections)
      BY SeedIs DEF LatestBuilt
    <3>3. seed[Len(seed)] \in Selections
      BY <3>2, SeedIs
    <3>4. KeywordsOf[seed[Len(seed)]] \in SUBSET Keywords
      BY <3>3 DEF ChoicesAreSound
    <3> QED
      BY <3>1, <3>4
  <2> QED
    BY <2>1, <2>2 DEF SeedIsFollowed
<1> QED
  BY <1>1, OnboardingInvariant, PTL

\* No build says otherwise of a keyword whose context is active, and a report request
\* that was accepted is never answered otherwise
\* (agent/wiki_builder/features/onboarding_contexts.py:283-293,
\* generation_runtime.py:598-622).
THEOREM AnswersAlwaysKept ==
  ASSUME ChoicesAreSound
  PROVE  OnboardingSpec => AnswersAreKept
<1>1. OnboardingInv /\ [OnboardingNext]_onboardingVars => [MeaningIsKept /\ AcceptedStaysAccepted]_onboardingVars
  BY OnboardingSteps, OnboardingStutters
<1> QED
  BY <1>1, OnboardingInvariant, PTL DEF OnboardingSpec, AnswersAreKept

-----------------------------------------------------------------------------
(* The change history: what a graph carries from node to node.             *)

Conns == {ConnOf[r] : r \in Runs}
Pcs == {"prepare", "diff", "compose", "impact", "promote", "check", "store", "done", "failed"}
Results == {"none", "ok", "bad", "failed"}
ProblemRow == [worker : {"diff", "compose", "impact"}, fact : Findings \cup {Nil}, rework : BOOLEAN]
GraphRow == [pc : Pcs, in : BOOLEAN, index : Nat, base : BOOLEAN, seen : SUBSET Nat, searched : BOOLEAN,
             diff : SUBSET Findings, diffs : Nat, compose : Results, composes : Nat,
             impact : Results, impacts : Nat, checked : SUBSET Findings, validated : BOOLEAN,
             valid : SUBSET Findings, problems : SUBSET ProblemRow, flags : SUBSET ProblemRow,
             stored : BOOLEAN, nodes : Nat]
FactRow == [topic : {TopicOf[r] : r \in Runs}, key : {f.key : f \in FactsFound},
            value : {f.value : f \in FactsFound}, verdict : {"new", "updated"},
            supersedes : Nat \cup {Nil}, active : BOOLEAN, by : Runs]

\* Nodes that a graph has run when its d-th diff is called, and after it has called the
\* writers: a call has two nodes, and each but the first of a diff a check of its own.
Attempts == MaxRetries + 1
NodesBefore(d) == 3 + 8 * Attempts * (d - 1)
NodesOf(g) == NodesBefore(g.diffs) + 4 * g.composes + (IF g.impacts > 0 THEN 4 * g.impacts - 2 ELSE 0)

WithinBudget(g) ==
  /\ g.diffs <= Attempts /\ g.composes <= Attempts /\ g.impacts <= Attempts
  /\ g.nodes <= RecursionLimit
  /\ g.pc = "prepare" => g.nodes = 1 /\ g.diffs = 0 /\ g.composes = 0 /\ g.impacts = 0
  /\ g.pc = "diff" => g.diffs < Attempts /\ g.composes = 0 /\ g.impacts = 0 /\ g.nodes <= NodesBefore(g.diffs + 1)
  /\ g.pc \in {"compose", "impact", "promote", "check", "store"} => g.diffs >= 1 /\ g.nodes <= NodesOf(g) + 2
  /\ g.pc \in {"promote", "check"} \/ (g.pc = "impact" /\ g.impacts = 0) => g.nodes <= NodesOf(g)
  /\ g.pc = "compose" => g.composes < Attempts
  /\ g.pc = "impact" => g.impacts < Attempts

\* What the supervisor has decided.
Decided(g) ==
  /\ g.impacts = 0 => g.impact = "none"
  /\ g.validated => g.pc \in {"store", "done"}
  /\ g.pc \in {"promote", "check"} => g.diff # {} /\ ~NeedsCompose(g) /\ ~NeedsImpact(g)
  /\ g.pc = "store" => g.validated /\ g.flags = g.problems
  /\ g.stored => g.pc = "done"

\* A fact that was found is in F, or a problem says so.
In(F, f) == \E c \in F : c.key = f.key /\ c.value = f.value /\ c.verdict # "duplicate"
Told(P, f) == \E p \in P : p.fact # Nil /\ p.fact.key = f.key /\ p.fact.value = f.value
KeptOf(r, fs, f) == \E i \in DOMAIN fs : fs[i].by = r /\ fs[i].key = f.key /\ fs[i].value = f.value

Carried(g) ==
  /\ IsFiniteSet(g.diff) /\ IsFiniteSet(g.checked) /\ IsFiniteSet(g.valid)
  /\ g.pc = "check" => \A f \in g.diff : f.verdict = "duplicate" \/ In(g.checked, f)
  /\ g.validated => \A f \in g.diff : f.verdict = "duplicate" \/ In(g.valid, f) \/ Told(g.problems, f)

\* An update that passed the check says otherwise than the fact it was checked against.
Differs(r, fs, i, v) == i \in DOMAIN fs /\ fs[i].topic = TopicOf[r] /\ Says[fs[i].value] # Says[v]
Checked(r, g, fs) ==
  g.validated => \A f \in g.valid : f.verdict = "updated" => Differs(r, fs, f.updates, f.value)
Traced(r, g, fs) ==
  g.stored => \A f \in g.diff : f.verdict = "duplicate" \/ Told(g.flags, f) \/ KeptOf(r, fs, f)

GraphSound(r, g, fs) ==
  WithinBudget(g) /\ Decided(g) /\ Carried(g) /\ Checked(r, g, fs) /\ Traced(r, g, fs)

FactsSound ==
  /\ facts \in Seq(FactRow)
  /\ \A i \in DOMAIN facts : facts[i].supersedes \in 1 .. (i - 1) \cup {Nil}
  /\ UpdatesAreReal

InTransaction(g, c) == {r \in Runs : ConnOf[r] = c /\ g[r].in}
DepthsAre == depth = [c \in Conns |-> Cardinality(InTransaction(graph, c))]

HistoryInv ==
  /\ graph \in [Runs -> GraphRow] /\ DepthsAre /\ FactsSound
  /\ \A r \in Runs : GraphSound(r, graph[r], facts)

-----------------------------------------------------------------------------
(* Nodes.                                                                  *)

LEMMA AttemptsAre ==
  ASSUME RunsAreSound
  PROVE  /\ MaxRetries \in Nat /\ RecursionLimit \in Nat /\ Attempts \in Nat
         /\ Attempts = MaxRetries + 1 /\ Attempts >= 1
         /\ \A d \in Nat : NodesBefore(d) \in Int /\ NodesBefore(d + 1) = NodesBefore(d) + 8 * Attempts
         /\ NodesBefore(1) = 3
         /\ \A d \in Nat : d <= Attempts => NodesBefore(d + 1) + 2 <= RecursionLimit
<1>1. /\ MaxRetries \in Nat /\ RecursionLimit \in Nat /\ Attempts \in Nat /\ Attempts = MaxRetries + 1
      /\ 5 + 8 * Attempts * Attempts <= RecursionLimit
  <2>1. /\ MaxRetries \in Nat /\ RecursionLimit \in Nat
        /\ 5 + 8 * (MaxRetries + 1) * (MaxRetries + 1) <= RecursionLimit
    BY DEF RunsAreSound
  <2>2. Attempts = MaxRetries + 1
    BY DEF Attempts
  <2> HIDE DEF Attempts
  <2> QED
    BY <2>1, <2>2
<1> HIDE DEF Attempts
<1>2. \A x, y, z \in Nat : y <= z => x * y \in Nat /\ x * y <= x * z
  <2> SUFFICES ASSUME NEW x \in Nat, NEW y \in Nat, NEW z \in Nat, y <= z PROVE x * y \in Nat /\ x * y <= x * z
    OBVIOUS
  <2>1. x * (z - y) >= 0 /\ x * y >= 0
    OBVIOUS
  <2>2. x * z = x * (z - y) + x * y
    OBVIOUS
  <2> QED
    BY <2>1, <2>2
<1>3. \A x \in Nat : \A d \in Nat : x * (d - 1) \in Int /\ x * d = x * (d - 1) + x
  OBVIOUS
<1> DEFINE A == 8 * Attempts
<1>4. A \in Nat /\ 5 + A * Attempts <= RecursionLimit
  BY <1>1
<1>5. \A d : NodesBefore(d) = 3 + A * (d - 1)
  BY DEF NodesBefore
<1> HIDE DEF A
<1>6. ASSUME NEW d \in Nat
      PROVE  NodesBefore(d) \in Int /\ NodesBefore(d + 1) = NodesBefore(d) + A
  <2>1. (d + 1) - 1 = d
    OBVIOUS
  <2>2. NodesBefore(d + 1) = 3 + A * d /\ NodesBefore(d) = 3 + A * (d - 1)
    BY <1>5, <2>1
  <2> QED
    BY <1>3, <1>4, <2>2
<1>7. ASSUME NEW d \in Nat, d <= Attempts
      PROVE  NodesBefore(d + 1) + 2 <= RecursionLimit
  <2>1. (d + 1) - 1 = d
    OBVIOUS
  <2>2. NodesBefore(d + 1) = 3 + A * d
    BY <1>5, <2>1
  <2>3. A * d \in Nat /\ A * d <= A * Attempts /\ A * Attempts \in Nat
    BY <1>1, <1>2, <1>4, <1>7
  <2> QED
    BY <1>1, <1>4, <2>2, <2>3
<1>8. NodesBefore(1) = 3
  BY <1>4, <1>5
<1> QED
  BY <1>1, <1>6, <1>7, <1>8 DEF A

\* What the writers of one diff may cost is less than what the next one has.
LEMMA NodesBound ==
  ASSUME RunsAreSound, NEW g \in GraphRow, g.diffs >= 1, g.diffs <= Attempts,
         g.composes <= Attempts, g.impacts <= Attempts
  PROVE  /\ NodesOf(g) \in Int
         /\ NodesOf(g) + 2 <= NodesBefore(g.diffs + 1) /\ NodesOf(g) + 4 <= RecursionLimit
<1>1. g.diffs \in Nat /\ g.composes \in Nat /\ g.impacts \in Nat
  BY DEF GraphRow
<1> DEFINE d == g.diffs
           n == IF g.impacts > 0 THEN 4 * g.impacts - 2 ELSE 0
<1>2. n \in Int /\ n <= 4 * Attempts - 2
  BY <1>1, AttemptsAre
<1>3. NodesOf(g) = NodesBefore(d) + 4 * g.composes + n
  BY DEF NodesOf
<1> HIDE DEF n, d
<1>4. /\ NodesBefore(d) \in Int /\ NodesBefore(d + 1) = NodesBefore(d) + 8 * Attempts
      /\ NodesBefore(d + 1) + 2 <= RecursionLimit /\ RecursionLimit \in Nat /\ Attempts \in Nat
  BY <1>1, AttemptsAre DEF d
<1>5. NodesOf(g) \in Int /\ NodesOf(g) + 2 <= NodesBefore(d + 1)
  BY <1>1, <1>2, <1>3, <1>4
<1> QED
  BY <1>4, <1>5 DEF d

-----------------------------------------------------------------------------
(* The supervisor.                                                         *)

Decides(g, s) ==
  LET same == /\ s.compose = g.compose /\ s.composes = g.composes /\ s.impact = g.impact
              /\ s.impacts = g.impacts
      written == g.diffs > 0 /\ g.diff # {} /\ ~NeedsCompose(g) /\ ~NeedsImpact(g)
  IN \/ s.pc = "diff" /\ g.diffs = 0 /\ s.validated = g.validated /\ same
     \/ s.pc = "failed" /\ g.diffs > 0 /\ g.diff = {} /\ s.validated = g.validated /\ same
     \/ s.pc = "compose" /\ g.diffs > 0 /\ g.diff # {} /\ NeedsCompose(g) /\ s.validated = g.validated /\ same
     \/ s.pc = "impact" /\ g.diffs > 0 /\ g.diff # {} /\ ~NeedsCompose(g) /\ NeedsImpact(g)
        /\ s.validated = g.validated /\ same
     \/ s.pc = "promote" /\ written /\ s.validated = g.validated /\ ~g.validated /\ same
     \/ s.pc = "diff" /\ written /\ g.validated /\ g.diffs <= MaxRetries /\ ~s.validated
        /\ s.compose = "none" /\ s.composes = 0 /\ s.impact = "none" /\ s.impacts = 0
     \/ s.pc = "compose" /\ written /\ g.validated /\ g.composes <= MaxRetries /\ ~s.validated /\ same
     \/ s.pc = "impact" /\ written /\ g.validated /\ Reworks(g, "impact", g.impacts) /\ ~s.validated /\ same
     \/ s.pc = "store" /\ written /\ g.validated /\ s.validated = g.validated /\ s.flags = g.problems /\ same

LEMMA SupervisedIs ==
  ASSUME NEW g \in GraphRow
  PROVE  LET s == Supervised(g)
         IN /\ s \in GraphRow /\ s.nodes = g.nodes + 2 /\ s.in = g.in /\ s.diff = g.diff /\ s.diffs = g.diffs
            /\ s.checked = g.checked /\ s.valid = g.valid /\ s.problems = g.problems /\ s.stored = g.stored
            /\ Decides(g, s)
<1> DEFINE r == [g EXCEPT !.nodes = @ + 2]
           s == Supervised(g)
           Same(x) == /\ x.nodes = g.nodes + 2 /\ x.in = g.in /\ x.diff = g.diff /\ x.diffs = g.diffs
                      /\ x.checked = g.checked /\ x.valid = g.valid /\ x.problems = g.problems /\ x.stored = g.stored
           Writes(x) == x.compose = g.compose /\ x.composes = g.composes /\ x.impact = g.impact /\ x.impacts = g.impacts
<1>1. r \in GraphRow /\ Same(r) /\ Writes(r) /\ r.validated = g.validated /\ r.flags = g.flags
  BY DEF GraphRow
<1>2. /\ NeedsCompose(r) <=> NeedsCompose(g)
      /\ NeedsImpact(r) <=> NeedsImpact(g)
      /\ \A w, n : Reworks(r, w, n) <=> Reworks(g, w, n)
  BY <1>1 DEF NeedsCompose, NeedsImpact, Reworks, FailedWorkers
<1>3. g.diffs \in Nat /\ g.validated \in BOOLEAN
  BY DEF GraphRow
<1>4. s = IF r.diffs = 0 THEN [r EXCEPT !.pc = "diff"]
          ELSE IF r.diff = {} THEN [r EXCEPT !.pc = "failed"]
          ELSE IF NeedsCompose(r) THEN [r EXCEPT !.pc = "compose"]
          ELSE IF NeedsImpact(r) THEN [r EXCEPT !.pc = "impact"]
          ELSE IF ~r.validated THEN [r EXCEPT !.pc = "promote"]
          ELSE IF Reworks(r, "diff", r.diffs)
            THEN [r EXCEPT !.pc = "diff", !.compose = "none", !.composes = 0, !.impact = "none",
                           !.impacts = 0, !.validated = FALSE, !.searched = FALSE, !.seen = {}]
          ELSE IF Reworks(r, "compose", r.composes) THEN [r EXCEPT !.pc = "compose", !.validated = FALSE]
          ELSE IF Reworks(r, "impact", r.impacts) THEN [r EXCEPT !.pc = "impact", !.validated = FALSE]
          ELSE [r EXCEPT !.pc = "store", !.flags = Flags(r)]
  BY DEF Supervised
<1> HIDE DEF r
<1>5. \A p \in Pcs : LET x == [r EXCEPT !.pc = p]
                     IN x \in GraphRow /\ Same(x) /\ Writes(x) /\ x.pc = p /\ x.validated = g.validated
  BY <1>1 DEF GraphRow
<1>6. \A p \in Pcs : LET x == [r EXCEPT !.pc = p, !.validated = FALSE]
                     IN x \in GraphRow /\ Same(x) /\ Writes(x) /\ x.pc = p /\ ~x.validated
  BY <1>1 DEF GraphRow
<1>7. LET x == [r EXCEPT !.pc = "diff", !.compose = "none", !.composes = 0, !.impact = "none",
                         !.impacts = 0, !.validated = FALSE, !.searched = FALSE, !.seen = {}]
      IN /\ x \in GraphRow /\ Same(x) /\ x.pc = "diff" /\ x.compose = "none" /\ x.composes = 0
         /\ x.impact = "none" /\ x.impacts = 0 /\ ~x.validated
  BY <1>1 DEF GraphRow, Pcs, Results
<1>8. LET x == [r EXCEPT !.pc = "store", !.flags = Flags(r)]
      IN x \in GraphRow /\ Same(x) /\ Writes(x) /\ x.pc = "store" /\ x.validated = g.validated /\ x.flags = g.problems
  BY <1>1 DEF GraphRow, Pcs, Flags
<1> DEFINE written == g.diffs # 0 /\ g.diff # {} /\ ~NeedsCompose(g) /\ ~NeedsImpact(g)
<1>9. SUFFICES s \in GraphRow /\ Same(s) /\ Decides(g, s)
  OBVIOUS
<1> HIDE DEF s
<1>10. CASE g.diffs = 0
  <2>1. s = [r EXCEPT !.pc = "diff"]
    BY <1>1, <1>2, <1>3, <1>4, <1>10
  <2>2. s \in GraphRow /\ Same(s) /\ Writes(s) /\ s.pc = "diff" /\ s.validated = g.validated
    BY <1>5, <2>1 DEF Pcs
  <2> QED
    BY <1>3, <1>10, <2>2 DEF Decides
<1>11. CASE g.diffs # 0 /\ g.diff = {}
  <2>1. s = [r EXCEPT !.pc = "failed"]
    BY <1>1, <1>2, <1>3, <1>4, <1>11
  <2>2. s \in GraphRow /\ Same(s) /\ Writes(s) /\ s.pc = "failed" /\ s.validated = g.validated
    BY <1>5, <2>1 DEF Pcs
  <2> QED
    BY <1>3, <1>11, <2>2 DEF Decides
<1>12. CASE g.diffs # 0 /\ g.diff # {} /\ NeedsCompose(g)
  <2>1. s = [r EXCEPT !.pc = "compose"]
    BY <1>1, <1>2, <1>3, <1>4, <1>12
  <2>2. s \in GraphRow /\ Same(s) /\ Writes(s) /\ s.pc = "compose" /\ s.validated = g.validated
    BY <1>5, <2>1 DEF Pcs
  <2> QED
    BY <1>3, <1>12, <2>2 DEF Decides
<1>13. CASE g.diffs # 0 /\ g.diff # {} /\ ~NeedsCompose(g) /\ NeedsImpact(g)
  <2>1. s = [r EXCEPT !.pc = "impact"]
    BY <1>1, <1>2, <1>3, <1>4, <1>13
  <2>2. s \in GraphRow /\ Same(s) /\ Writes(s) /\ s.pc = "impact" /\ s.validated = g.validated
    BY <1>5, <2>1 DEF Pcs
  <2> QED
    BY <1>3, <1>13, <2>2 DEF Decides
<1>14. CASE written /\ ~g.validated
  <2>1. s = [r EXCEPT !.pc = "promote"]
    BY <1>1, <1>2, <1>3, <1>4, <1>14
  <2>2. s \in GraphRow /\ Same(s) /\ Writes(s) /\ s.pc = "promote" /\ s.validated = g.validated
    BY <1>5, <2>1 DEF Pcs
  <2> QED
    BY <1>3, <1>14, <2>2 DEF Decides
<1>15. CASE written /\ g.validated /\ Reworks(g, "diff", g.diffs)
  <2>1. s = [r EXCEPT !.pc = "diff", !.compose = "none", !.composes = 0, !.impact = "none",
                      !.impacts = 0, !.validated = FALSE, !.searched = FALSE, !.seen = {}]
    BY <1>1, <1>2, <1>3, <1>4, <1>15
  <2>2. /\ s \in GraphRow /\ Same(s) /\ s.pc = "diff" /\ s.compose = "none" /\ s.composes = 0
        /\ s.impact = "none" /\ s.impacts = 0 /\ ~s.validated
    BY <1>7, <2>1
  <2>3. g.diffs <= MaxRetries
    BY <1>15 DEF Reworks
  <2>4. s.pc = "diff" /\ g.diffs > 0 /\ written /\ g.validated /\ g.diffs <= MaxRetries /\ ~s.validated
        /\ s.compose = "none" /\ s.composes = 0 /\ s.impact = "none" /\ s.impacts = 0
    BY <1>3, <1>15, <2>2, <2>3
  <2>5. Decides(g, s)
    BY <2>4 DEF Decides
  <2> QED
    BY <2>2, <2>5
<1>16. CASE written /\ g.validated /\ ~Reworks(g, "diff", g.diffs) /\ Reworks(g, "compose", g.composes)
  <2>1. s = [r EXCEPT !.pc = "compose", !.validated = FALSE]
    BY <1>1, <1>2, <1>3, <1>4, <1>16
  <2>2. s \in GraphRow /\ Same(s) /\ Writes(s) /\ s.pc = "compose" /\ ~s.validated
    BY <1>6, <2>1 DEF Pcs
  <2>3. g.composes <= MaxRetries
    BY <1>16 DEF Reworks
  <2>4. s.pc = "compose" /\ g.diffs > 0 /\ written /\ g.validated /\ g.composes <= MaxRetries /\ ~s.validated /\ Writes(s)
    BY <1>3, <1>16, <2>2, <2>3
  <2>5. Decides(g, s)
    BY <2>4 DEF Decides
  <2> QED
    BY <2>2, <2>5
<1>17. CASE written /\ g.validated /\ ~Reworks(g, "diff", g.diffs) /\ ~Reworks(g, "compose", g.composes) /\ Reworks(g, "impact", g.impacts)
  <2>1. s = [r EXCEPT !.pc = "impact", !.validated = FALSE]
    BY <1>1, <1>2, <1>3, <1>4, <1>17
  <2>2. s \in GraphRow /\ Same(s) /\ Writes(s) /\ s.pc = "impact" /\ ~s.validated
    BY <1>6, <2>1 DEF Pcs
  <2>4. s.pc = "impact" /\ g.diffs > 0 /\ written /\ g.validated /\ Reworks(g, "impact", g.impacts) /\ ~s.validated /\ Writes(s)
    BY <1>3, <1>17, <2>2
  <2>5. Decides(g, s)
    BY <2>4 DEF Decides
  <2> QED
    BY <2>2, <2>5
<1>18. CASE written /\ g.validated /\ ~Reworks(g, "diff", g.diffs) /\ ~Reworks(g, "compose", g.composes) /\ ~Reworks(g, "impact", g.impacts)
  <2>1. s = [r EXCEPT !.pc = "store", !.flags = Flags(r)]
    BY <1>1, <1>2, <1>3, <1>4, <1>18
  <2>2. s \in GraphRow /\ Same(s) /\ Writes(s) /\ s.pc = "store" /\ s.validated = g.validated /\ s.flags = g.problems
    BY <1>8, <2>1
  <2> QED
    BY <1>3, <1>18, <2>2 DEF Decides
<1> QED
  BY <1>10, <1>11, <1>12, <1>13, <1>14, <1>15, <1>16, <1>17, <1>18

\* What a node leaves to the supervisor.
Ready(r, g, fs) ==
  /\ ~g.stored /\ (g.impacts = 0 => g.impact = "none")
  /\ IsFiniteSet(g.diff) /\ IsFiniteSet(g.checked) /\ IsFiniteSet(g.valid)
  /\ g.diffs <= Attempts /\ g.composes <= Attempts /\ g.impacts <= Attempts
  /\ g.diffs = 0 => g.composes = 0 /\ g.impacts = 0 /\ g.nodes = 1
  /\ g.diffs >= 1 => g.nodes <= NodesOf(g)
  /\ g.diffs >= 1 /\ ~g.validated /\ g.composes > 0 => g.nodes + 2 <= NodesOf(g)
  /\ g.validated =>
       /\ g.diffs >= 1 /\ g.diff # {} /\ ~NeedsCompose(g) /\ ~NeedsImpact(g)
       /\ "impact" \in FailedWorkers(g) => g.impacts > 0
       /\ \A f \in g.diff : f.verdict = "duplicate" \/ In(g.valid, f) \/ Told(g.problems, f)
  /\ Checked(r, g, fs)

LEMMA NeedsSame ==
  ASSUME NEW g, NEW s, s.compose = g.compose, s.composes = g.composes, s.impact = g.impact,
         s.impacts = g.impacts, s.diff = g.diff
  PROVE  /\ NeedsCompose(s) <=> NeedsCompose(g)
         /\ NeedsImpact(s) <=> NeedsImpact(g)
         /\ s.diffs = g.diffs => NodesOf(s) = NodesOf(g)
BY DEF NeedsCompose, NeedsImpact, NodesOf

LEMMA SupervisedSound ==
  ASSUME RunsAreSound, NEW r \in Runs, NEW g \in GraphRow, NEW fs, Ready(r, g, fs)
  PROVE  Supervised(g) \in GraphRow /\ Supervised(g).in = g.in /\ GraphSound(r, Supervised(g), fs)
<1> DEFINE s == Supervised(g)
<1>1. /\ s \in GraphRow /\ s.nodes = g.nodes + 2 /\ s.in = g.in /\ s.diff = g.diff /\ s.diffs = g.diffs
      /\ s.checked = g.checked /\ s.valid = g.valid /\ s.problems = g.problems /\ s.stored = g.stored
      /\ Decides(g, s)
  BY SupervisedIs
<1>2. SUFFICES GraphSound(r, s, fs)
  BY <1>1
<1> HIDE DEF s
<1>3. /\ g.diffs \in Nat /\ g.composes \in Nat /\ g.impacts \in Nat /\ g.nodes \in Nat
      /\ g.validated \in BOOLEAN /\ s.validated \in BOOLEAN
      /\ s.composes \in Nat /\ s.impacts \in Nat /\ s.nodes \in Nat
  BY <1>1 DEF GraphRow
<1>4. s.pc \in {"diff", "failed", "compose", "impact", "promote", "store"} /\ ~s.stored
  BY <1>1 DEF Decides, Ready
<1>5. s.validated => g.validated /\ s.pc = "store" /\ s.flags = g.problems
  <2>1. g.validated => g.diffs # 0 /\ g.diff # {} /\ ~NeedsCompose(g) /\ ~NeedsImpact(g)
    BY <1>3 DEF Ready
  <2>2. s.validated => g.validated
    BY <1>1 DEF Decides
  <2>3. s.validated /\ g.diffs # 0 /\ g.diff # {} /\ ~NeedsCompose(g) /\ ~NeedsImpact(g) /\ g.validated
          => s.pc = "store" /\ s.flags = g.problems
    BY <1>1 DEF Decides
  <2> QED
    BY <2>1, <2>2, <2>3
<1>6. Carried(s)
  BY <1>1, <1>4, <1>5 DEF Carried, Ready
<1>7. Checked(r, s, fs) /\ Traced(r, s, fs)
  BY <1>1, <1>4, <1>5 DEF Checked, Traced, Ready
<1> DEFINE same == s.compose = g.compose /\ s.composes = g.composes /\ s.impact = g.impact /\ s.impacts = g.impacts
<1>8. \/ s.pc = "diff" /\ g.diffs = 0 /\ same
      \/ s.pc = "failed" /\ g.diffs > 0 /\ g.diff = {} /\ same
      \/ s.pc = "compose" /\ g.diffs > 0 /\ g.composes <= MaxRetries /\ same
      \/ s.pc = "impact" /\ g.diffs > 0 /\ ~NeedsCompose(g) /\ ~g.validated /\ g.impacts <= MaxRetries /\ same
      \/ s.pc = "promote" /\ g.diffs > 0 /\ g.diff # {} /\ ~NeedsCompose(g) /\ ~NeedsImpact(g) /\ ~g.validated /\ same
      \/ s.pc = "diff" /\ g.diffs > 0 /\ g.diffs <= MaxRetries /\ s.compose = "none" /\ s.composes = 0
         /\ s.impact = "none" /\ s.impacts = 0
      \/ s.pc = "impact" /\ g.diffs > 0 /\ g.impacts > 0 /\ g.impacts <= MaxRetries /\ same
      \/ s.pc = "store" /\ g.diffs > 0 /\ g.validated /\ s.validated /\ s.flags = g.problems /\ same
  <2>1. MaxRetries >= 0
    BY AttemptsAre
  <2>2. NeedsCompose(g) => g.composes <= MaxRetries
    BY <1>3, <2>1 DEF NeedsCompose
  <2>3. NeedsImpact(g) => g.impacts <= MaxRetries
    BY <1>3, <2>1 DEF NeedsImpact
  <2>4. Reworks(g, "impact", g.impacts) => "impact" \in FailedWorkers(g) /\ g.impacts <= MaxRetries
    BY DEF Reworks
  <2>5. NeedsImpact(g) => ~g.validated
    BY DEF Ready
  <2>6. "impact" \in FailedWorkers(g) /\ g.validated => g.impacts > 0
    BY DEF Ready
  <2> QED
    BY <1>1, <2>2, <2>3, <2>4, <2>5, <2>6 DEF Decides
<1>9. Decided(s)
  <2>1. s.impacts = 0 => s.impact = "none"
    BY <1>8 DEF Ready
  <2>2. s.pc = "promote" => s.diff # {} /\ ~NeedsCompose(s) /\ ~NeedsImpact(s)
    BY <1>1, <1>8, NeedsSame
  <2>3. s.pc = "store" => s.validated /\ s.flags = s.problems
    BY <1>1, <1>8
  <2> QED
    BY <1>4, <1>5, <2>1, <2>2, <2>3 DEF Decided
<1>10. ~NeedsCompose(g) => g.composes > 0
  BY <1>3 DEF NeedsCompose
<1>11. /\ MaxRetries \in Nat /\ Attempts = MaxRetries + 1 /\ NodesBefore(1) = 3 /\ RecursionLimit \in Nat
       /\ NodesBefore(1) + 2 <= RecursionLimit
  <2>1. NodesBefore(0 + 1) + 2 <= RecursionLimit
    BY AttemptsAre
  <2> QED
    BY <2>1, AttemptsAre
<1>12. /\ g.diffs <= Attempts /\ g.composes <= Attempts /\ g.impacts <= Attempts
       /\ g.diffs = 0 => g.composes = 0 /\ g.impacts = 0 /\ g.nodes = 1
       /\ g.diffs >= 1 => g.nodes <= NodesOf(g)
       /\ g.diffs >= 1 /\ ~g.validated /\ g.composes > 0 => g.nodes + 2 <= NodesOf(g)
  BY DEF Ready
<1>13. g.diffs >= 1 => NodesOf(g) \in Int /\ NodesOf(g) + 2 <= NodesBefore(g.diffs + 1) /\ NodesOf(g) + 4 <= RecursionLimit
  BY <1>12, NodesBound
<1>14. same => NodesOf(s) = NodesOf(g)
  BY <1>1, NeedsSame
<1>15. g.diffs >= 1 => s.nodes <= NodesOf(g) + 2 /\ s.nodes <= RecursionLimit /\ s.nodes <= NodesBefore(g.diffs + 1)
  <2> SUFFICES ASSUME g.diffs >= 1
               PROVE  s.nodes <= NodesOf(g) + 2 /\ s.nodes <= RecursionLimit /\ s.nodes <= NodesBefore(g.diffs + 1)
    OBVIOUS
  <2>1. NodesBefore(g.diffs + 1) \in Int
    BY <1>3, AttemptsAre
  <2> QED
    BY <1>1, <1>3, <1>11, <1>12, <1>13, <2>1
<1>16. WithinBudget(s)
  <2>1. CASE g.diffs = 0
    <3>1. s.pc = "diff" /\ s.composes = 0 /\ s.impacts = 0 /\ s.diffs = 0 /\ s.nodes = 3
      BY <1>1, <1>3, <1>8, <1>12, <2>1
    <3>2. NodesBefore(s.diffs + 1) = 3
      <4>1. s.diffs + 1 = 1
        BY <3>1
      <4> QED
        BY <1>11, <4>1
    <3> QED
      BY <1>11, <3>1, <3>2 DEF WithinBudget
  <2>2. CASE g.diffs >= 1
    <3>1. s.pc = "failed" => s.composes <= Attempts /\ s.impacts <= Attempts
      BY <1>8, <1>12
    <3>2. s.pc = "compose" => s.composes < Attempts /\ s.impacts <= Attempts /\ NodesOf(s) = NodesOf(g)
      BY <1>3, <1>8, <1>11, <1>12, <1>14
    <3>3. s.pc = "impact" => /\ s.composes <= Attempts /\ s.impacts < Attempts /\ NodesOf(s) = NodesOf(g)
                             /\ s.impacts = 0 => s.nodes <= NodesOf(g)
      <4> SUFFICES ASSUME s.pc = "impact"
                   PROVE  /\ s.composes <= Attempts /\ s.impacts < Attempts /\ NodesOf(s) = NodesOf(g)
                          /\ s.impacts = 0 => s.nodes <= NodesOf(g)
        OBVIOUS
      <4>1. same /\ g.impacts <= MaxRetries /\ (g.impacts > 0 \/ (~NeedsCompose(g) /\ ~g.validated))
        BY <1>8
      <4> QED
        BY <1>1, <1>3, <1>10, <1>11, <1>12, <1>13, <1>14, <2>2, <4>1
    <3>4. s.pc = "promote" => /\ s.composes <= Attempts /\ s.impacts <= Attempts /\ NodesOf(s) = NodesOf(g)
                              /\ s.nodes <= NodesOf(g)
      BY <1>1, <1>3, <1>8, <1>10, <1>12, <1>13, <1>14, <2>2
    <3>5. s.pc = "diff" => g.diffs <= MaxRetries /\ s.composes = 0 /\ s.impacts = 0
      BY <1>8, <2>2
    <3>6. s.pc = "store" => s.composes <= Attempts /\ s.impacts <= Attempts /\ NodesOf(s) = NodesOf(g)
      BY <1>8, <1>12, <1>14
    <3>7. s.diffs = g.diffs /\ s.nodes <= NodesOf(g) + 2 /\ s.nodes <= RecursionLimit /\ s.nodes <= NodesBefore(s.diffs + 1)
      BY <1>1, <1>15, <2>2
    <3>8. CASE s.pc \in {"failed", "diff"}
      BY <1>3, <1>11, <1>12, <2>2, <3>1, <3>5, <3>7, <3>8 DEF WithinBudget
    <3>9. CASE s.pc \in {"compose", "impact"}
      BY <1>3, <1>11, <1>12, <2>2, <3>2, <3>3, <3>7, <3>9 DEF WithinBudget
    <3>10. CASE s.pc \in {"promote", "store"}
      BY <1>3, <1>11, <1>12, <2>2, <3>4, <3>6, <3>7, <3>10 DEF WithinBudget
    <3> QED
      BY <1>4, <3>8, <3>9, <3>10
  <2> QED
    BY <1>3, <2>1, <2>2
<1> QED
  BY <1>6, <1>7, <1>9, <1>16 DEF GraphSound

-----------------------------------------------------------------------------
(* A step of one graph.                                                    *)

LEMMA GraphsAre ==
  ASSUME RunsAreSound, HistoryInv, NEW r \in Runs
  PROVE  /\ graph[r] \in GraphRow /\ GraphSound(r, graph[r], facts)
         /\ DOMAIN facts = 1 .. Len(facts) /\ Len(facts) \in Nat /\ DOMAIN facts \subseteq Nat
         /\ ConnOf[r] \in Conns /\ depth[ConnOf[r]] \in Nat
<1>1. graph[r] \in GraphRow /\ GraphSound(r, graph[r], facts)
  BY DEF HistoryInv
<1>2. DOMAIN facts = 1 .. Len(facts) /\ Len(facts) \in Nat
  BY DEF HistoryInv, FactsSound
<1>3. ConnOf[r] \in Conns
  BY DEF Conns
<1>4. IsFiniteSet(InTransaction(graph, ConnOf[r]))
  BY FS_Subset DEF RunsAreSound, InTransaction
<1>5. Cardinality(InTransaction(graph, ConnOf[r])) \in Nat
  BY <1>4, FS_CardinalityType
<1>6. depth[ConnOf[r]] \in Nat
  BY <1>3, <1>5 DEF HistoryInv, DepthsAre
<1> QED
  BY <1>1, <1>2, <1>3, <1>6

LEMMA DepthsStay ==
  ASSUME RunsAreSound, HistoryInv, NEW r \in Runs, NEW g \in GraphRow, graph' = [graph EXCEPT ![r] = g],
         \/ (g.in <=> graph[r].in) /\ depth' = depth
         \/ ~graph[r].in /\ g.in /\ depth' = [depth EXCEPT ![ConnOf[r]] = @ + 1]
         \/ graph[r].in /\ ~g.in /\ depth' = [depth EXCEPT ![ConnOf[r]] = @ - 1]
  PROVE  DepthsAre'
<1> DEFINE k == ConnOf[r]
           S == InTransaction(graph, k)
           T == InTransaction(graph', k)
<1>1. graph \in [Runs -> GraphRow] /\ depth = [c \in Conns |-> Cardinality(InTransaction(graph, c))]
  BY DEF HistoryInv, DepthsAre
<1>2. k \in Conns /\ depth[k] = Cardinality(S)
  BY <1>1 DEF Conns
<1>3. IsFiniteSet(S)
  BY FS_Subset DEF RunsAreSound, InTransaction
<1>4. graph'[r] = g /\ \A u \in Runs : u # r => graph'[u] = graph[u]
  BY <1>1
<1>5. \A c \in Conns : c # k => InTransaction(graph', c) = InTransaction(graph, c)
  BY <1>4 DEF InTransaction
<1>6. /\ (g.in <=> graph[r].in) => T = S
      /\ ~graph[r].in /\ g.in => T = S \cup {r} /\ r \notin S
      /\ graph[r].in /\ ~g.in => T = S \ {r} /\ r \in S
  BY <1>4 DEF InTransaction
<1> HIDE DEF S, T, k
<1>7. /\ ~graph[r].in /\ g.in => Cardinality(T) = Cardinality(S) + 1
      /\ graph[r].in /\ ~g.in => Cardinality(T) = Cardinality(S) - 1
  BY <1>3, <1>6, FS_AddElement, FS_RemoveElement
<1>8. depth' = [c \in Conns |-> IF c = k THEN Cardinality(T) ELSE depth[c]]
  <2>1. CASE (g.in <=> graph[r].in) /\ depth' = depth
    BY <1>1, <1>2, <1>6, <2>1
  <2>2. CASE ~graph[r].in /\ g.in /\ depth' = [depth EXCEPT ![k] = @ + 1]
    BY <1>1, <1>2, <1>7, <2>2
  <2>3. CASE graph[r].in /\ ~g.in /\ depth' = [depth EXCEPT ![k] = @ - 1]
    BY <1>1, <1>2, <1>7, <2>3
  <2> QED
    BY <2>1, <2>2, <2>3 DEF k
<1>9. \A c \in Conns : (IF c = k THEN Cardinality(T) ELSE depth[c]) = Cardinality(InTransaction(graph', c))
  BY <1>1, <1>5 DEF T
<1> QED
  BY <1>8, <1>9 DEF DepthsAre

\* A graph goes on, and the facts stay.
LEMMA GraphKeeps ==
  ASSUME HistoryInv, NEW r \in Runs, NEW g \in GraphRow, graph' = [graph EXCEPT ![r] = g],
         facts' = facts, GraphSound(r, g, facts), DepthsAre'
  PROVE  HistoryInv'
<1>1. graph' \in [Runs -> GraphRow] /\ graph'[r] = g /\ \A u \in Runs : u # r => graph'[u] = graph[u]
  BY DEF HistoryInv
<1>2. \A u \in Runs : GraphSound(u, graph'[u], facts)
  BY <1>1 DEF HistoryInv
<1>3. FactsSound'
  BY DEF HistoryInv, FactsSound, UpdatesAreReal
<1> QED
  BY <1>1, <1>2, <1>3 DEF HistoryInv

LEMMA LeaveKeeps ==
  ASSUME RunsAreSound, HistoryInv, NEW r \in Runs, Leave(r), NEW g \in GraphRow, ~g.in,
         graph' = [graph EXCEPT ![r] = g]
  PROVE  DepthsAre'
<1>1. graph[r].in \in BOOLEAN
  BY DEF HistoryInv, GraphRow
<1>2. CASE Shares(r)
  BY <1>1, <1>2, DepthsStay DEF Leave
<1>3. CASE ~Shares(r)
  BY <1>1, <1>3, DepthsStay DEF Leave
<1> QED
  BY <1>2, <1>3

\* What else a graph carries does not matter.
Agree(g, s) ==
  /\ s.pc = g.pc /\ s.diff = g.diff /\ s.diffs = g.diffs /\ s.compose = g.compose /\ s.composes = g.composes
  /\ s.impact = g.impact /\ s.impacts = g.impacts /\ s.checked = g.checked /\ s.validated = g.validated
  /\ s.valid = g.valid /\ s.problems = g.problems /\ s.flags = g.flags /\ s.stored = g.stored /\ s.nodes = g.nodes

LEMMA AgreeSound ==
  ASSUME NEW r, NEW g, NEW s, NEW fs, Agree(g, s), GraphSound(r, g, fs)
  PROVE  GraphSound(r, s, fs)
<1>1. WithinBudget(s)
  <2>1. NodesOf(s) = NodesOf(g)
    BY DEF Agree, NodesOf
  <2> QED
    BY <2>1 DEF Agree, GraphSound, WithinBudget
<1>2. Decided(s)
  <2>1. (NeedsCompose(s) <=> NeedsCompose(g)) /\ (NeedsImpact(s) <=> NeedsImpact(g))
    BY DEF Agree, NeedsCompose, NeedsImpact
  <2> QED
    BY <2>1 DEF Agree, GraphSound, Decided
<1>3. Carried(s) /\ Checked(r, s, fs) /\ Traced(r, s, fs)
  BY DEF Agree, GraphSound, Carried, Checked, Traced
<1> QED
  BY <1>1, <1>2, <1>3 DEF GraphSound

LEMMA EnterKeeps ==
  ASSUME RunsAreSound, HistoryInv, NEW r \in Runs, Enter(r)
  PROVE  HistoryInv'
<1> DEFINE g == [graph[r] EXCEPT !.in = TRUE, !.index = depth[ConnOf[r]]]
<1>1. ~graph[r].in /\ depth' = [depth EXCEPT ![ConnOf[r]] = @ + 1] /\ facts' = facts
  BY DEF Enter
<1>2. graph \in [Runs -> GraphRow] /\ depth[ConnOf[r]] \in Nat
  BY GraphsAre DEF HistoryInv
<1>3. graph' = [graph EXCEPT ![r] = g]
  BY <1>2 DEF Enter, GraphRow
<1>4. g \in GraphRow /\ g.in /\ Agree(graph[r], g)
  BY <1>2 DEF GraphRow, Agree
<1> HIDE DEF g
<1>5. GraphSound(r, g, facts)
  BY <1>4, GraphsAre, AgreeSound
<1> QED
  BY <1>1, <1>3, <1>4, <1>5, DepthsStay, GraphKeeps

LEMMA LeftIs ==
  ASSUME RunsAreSound, HistoryInv, NEW r \in Runs
  PROVE  Left(r) \in GraphRow /\ ~Left(r).in /\ Agree(graph[r], Left(r)) /\ GraphSound(r, Left(r), facts)
<1>1. Left(r) \in GraphRow /\ ~Left(r).in /\ Agree(graph[r], Left(r))
  BY GraphsAre DEF Left, GraphRow, Agree
<1> QED
  BY <1>1, GraphsAre, AgreeSound

LEMMA RefusedKeeps ==
  ASSUME RunsAreSound, HistoryInv, NEW r \in Runs, Refused(r)
  PROVE  HistoryInv'
<1> DEFINE l == Left(r)
           g == [l EXCEPT !.pc = "failed"]
<1>1. Leave(r) /\ facts' = facts /\ graph' = [graph EXCEPT ![r] = g] /\ graph[r].pc \in {"prepare", "promote", "check"}
  BY DEF Refused
<1>2. l \in GraphRow /\ ~l.in /\ l.pc = graph[r].pc /\ GraphSound(r, l, facts)
  BY LeftIs DEF Agree
<1> HIDE DEF l
<1>3. /\ g \in GraphRow /\ ~g.in /\ g.pc = "failed" /\ g.diff = l.diff /\ g.diffs = l.diffs /\ g.composes = l.composes
      /\ g.impacts = l.impacts /\ g.impact = l.impact /\ g.checked = l.checked /\ g.valid = l.valid
      /\ g.validated = l.validated /\ g.stored = l.stored /\ g.nodes = l.nodes
  BY <1>2 DEF GraphRow, Pcs
<1> HIDE DEF g
<1>4. ~l.validated /\ ~l.stored
  BY <1>1, <1>2 DEF GraphSound, Decided
<1>5. WithinBudget(g)
  BY <1>2, <1>3 DEF GraphSound, WithinBudget
<1>6. Decided(g) /\ Carried(g) /\ Checked(r, g, facts) /\ Traced(r, g, facts)
  BY <1>2, <1>3, <1>4 DEF GraphSound, Decided, Carried, Checked, Traced
<1>7. GraphSound(r, g, facts)
  BY <1>5, <1>6 DEF GraphSound
<1> QED
  BY <1>1, <1>3, <1>7, LeaveKeeps, GraphKeeps

LEMMA SearchKeeps ==
  ASSUME RunsAreSound, HistoryInv, NEW r \in Runs, Search(r)
  PROVE  HistoryInv'
<1> DEFINE l == Left(r)
           seen == IF InOrder(r) THEN ActiveOf(TopicOf[r]) ELSE {}
           g == [l EXCEPT !.searched = TRUE, !.seen = seen]
<1>1. Leave(r) /\ facts' = facts /\ graph' = [graph EXCEPT ![r] = g]
  BY DEF Search
<1>2. l \in GraphRow /\ ~l.in /\ GraphSound(r, l, facts)
  BY LeftIs
<1>3. seen \in SUBSET Nat
  BY GraphsAre DEF ActiveOf
<1> HIDE DEF l, seen
<1>4. g \in GraphRow /\ ~g.in /\ Agree(l, g)
  BY <1>2, <1>3 DEF GraphRow, Agree
<1> HIDE DEF g
<1>5. GraphSound(r, g, facts)
  BY <1>2, <1>4, AgreeSound
<1> QED
  BY <1>1, <1>4, <1>5, LeaveKeeps, GraphKeeps

LEMMA GraphPrepareKeeps ==
  ASSUME RunsAreSound, HistoryInv, NEW r \in Runs, Prepare(r)
  PROVE  HistoryInv'
<1> DEFINE l == Left(r)
           h == [l EXCEPT !.base = ActiveOf(TopicOf[r]) # {}]
<1>1. Leave(r) /\ facts' = facts /\ graph' = [graph EXCEPT ![r] = Supervised(h)] /\ graph[r].pc = "prepare"
  BY DEF Prepare
<1>2. l \in GraphRow /\ ~l.in /\ l.pc = graph[r].pc /\ GraphSound(r, l, facts)
  BY LeftIs DEF Agree
<1> HIDE DEF l
<1>3. h \in GraphRow /\ ~h.in /\ Agree(l, h)
  BY <1>2 DEF GraphRow, Agree
<1> HIDE DEF h
<1>4. GraphSound(r, h, facts) /\ h.pc = "prepare"
  BY <1>1, <1>2, <1>3, AgreeSound DEF Agree
<1>5. ~h.validated /\ ~h.stored
  BY <1>4 DEF GraphSound, Decided
<1>6. h.diffs = 0 /\ h.composes = 0 /\ h.impacts = 0 /\ h.nodes = 1
  BY <1>4 DEF GraphSound, WithinBudget
<1>7. Ready(r, h, facts)
  BY <1>4, <1>5, <1>6 DEF GraphSound, Ready, Carried, Decided, WithinBudget, Checked
<1>8. Supervised(h) \in GraphRow /\ ~Supervised(h).in /\ GraphSound(r, Supervised(h), facts)
  BY <1>3, <1>7, SupervisedSound
<1> QED
  BY <1>1, <1>8, LeaveKeeps, GraphKeeps


-----------------------------------------------------------------------------
(* The diff and the writers.                                               *)

\* A set made from the members of a finite set is finite.
LEMMA MadeFinite ==
  ASSUME NEW F, IsFiniteSet(F), NEW e, e = [x \in F |-> e[x]]
  PROVE  IsFiniteSet({e[x] : x \in F})
<1> DEFINE D == {e[x] : x \in F}
<1>1. e \in Surjection(F, D)
  BY DEF Surjection
<1> QED
  BY <1>1, FS_Surjection

LEMMA IdsAre ==
  ASSUME RunsAreSound, NEW seen \in SUBSET Nat, NEW a \in Said(seen)
  PROVE  a[1] \in {"new", "updated", "duplicate"} /\ a[2] \in Nat \cup {Nil}
<1>1. PICK w \in Replies : a \in {w[1]} \X Ids(w[2], seen)
  BY DEF Said
<1>2. w[1] \in {"new", "updated", "duplicate"} /\ w[2] \in {"none", "made up", "seen"}
  BY DEF RunsAreSound
<1>3. Ids("none", seen) = {Nil} /\ Ids("made up", seen) = {0} /\ Ids("seen", seen) = seen
  BY DEF Ids, Bogus
<1>4. Ids(w[2], seen) \subseteq Nat \cup {Nil}
  <2>1. CASE w[2] = "none"
    BY <1>3, <2>1
  <2>2. CASE w[2] = "made up"
    <3>1. Ids(w[2], seen) = {0}
      BY <1>3, <2>2
    <3>2. 0 \in Nat
      OBVIOUS
    <3> QED
      BY <3>1, <3>2
  <2>3. CASE w[2] = "seen"
    BY <1>3, <2>3
  <2> QED
    BY <1>2, <2>1, <2>2, <2>3
<1> QED
  BY <1>1, <1>2, <1>4

LEMMA VerdictsAre ==
  ASSUME RunsAreSound, NEW r \in Runs, NEW seen \in SUBSET Nat,
         NEW F \in Found[r] \cup {{}}, NEW D \in Verdicts(F, seen)
  PROVE  D \in SUBSET Findings /\ IsFiniteSet(D)
<1>1. PICK s \in [F -> Said(seen)] :
        D = {[key |-> f.key, value |-> f.value, drift |-> f.drift, verdict |-> s[f][1], updates |-> s[f][2]] : f \in F}
  BY DEF Verdicts
<1>2. IsFiniteSet(F)
  BY FS_EmptySet DEF RunsAreSound
<1>3. \A f \in F : f \in FactsFound
  BY DEF FactsFound
<1>4. ASSUME NEW f \in F
      PROVE  [key |-> f.key, value |-> f.value, drift |-> f.drift, verdict |-> s[f][1], updates |-> s[f][2]] \in Findings
  <2>1. f \in FactsFound /\ s[f] \in Said(seen)
    BY <1>3
  <2>2. s[f][1] \in {"new", "updated", "duplicate"} /\ s[f][2] \in Nat \cup {Nil}
    BY <2>1, IdsAre
  <2> QED
    BY <2>1, <2>2 DEF Findings
<1> DEFINE e == [f \in F |-> [key |-> f.key, value |-> f.value, drift |-> f.drift, verdict |-> s[f][1], updates |-> s[f][2]]]
<1>5. e = [f \in F |-> e[f]] /\ D = {e[f] : f \in F}
  BY <1>1
<1> HIDE DEF e
<1>6. IsFiniteSet(D)
  BY <1>2, <1>5, MadeFinite
<1> QED
  BY <1>1, <1>4, <1>6

LEMMA DiffKeeps ==
  ASSUME RunsAreSound, HistoryInv, NEW r \in Runs, Diff(r)
  PROVE  HistoryInv'
<1> DEFINE g == graph[r]
<1>1. g \in GraphRow /\ GraphSound(r, g, facts)
  BY GraphsAre
<1>2. PICK F \in Found[r] \cup {{}} : \E D \in Verdicts(F, g.seen) :
        graph' = [graph EXCEPT ![r] = Supervised([g EXCEPT !.diff = D, !.diffs = @ + 1])]
  BY DEF Diff
<1>3. PICK D \in Verdicts(F, g.seen) : graph' = [graph EXCEPT ![r] = Supervised([g EXCEPT !.diff = D, !.diffs = @ + 1])]
  BY <1>2
<1>4. g.pc = "diff" /\ depth' = depth /\ facts' = facts
  BY DEF Diff
<1>5. D \in SUBSET Findings /\ IsFiniteSet(D)
  <2>1. g.seen \in SUBSET Nat
    BY <1>1 DEF GraphRow
  <2> QED
    BY <2>1, VerdictsAre
<1> DEFINE n == g.diffs + 1
           h == [g EXCEPT !.diff = D, !.diffs = @ + 1]
<1> HIDE DEF g
<1>a. n \in Nat /\ h = [g EXCEPT !.diff = D, !.diffs = n]
  BY <1>1 DEF GraphRow
<1> HIDE DEF n
<1>6. /\ h \in GraphRow /\ h.in = g.in /\ h.diff = D /\ h.diffs = n /\ h.composes = g.composes
      /\ h.impacts = g.impacts /\ h.impact = g.impact /\ h.checked = g.checked /\ h.valid = g.valid
      /\ h.validated = g.validated /\ h.stored = g.stored /\ h.nodes = g.nodes
  BY <1>1, <1>5, <1>a DEF GraphRow
<1>7. graph' = [graph EXCEPT ![r] = Supervised(h)]
  BY <1>3
<1> HIDE DEF h
<1>8. ~h.validated /\ ~h.stored /\ (h.impacts = 0 => h.impact = "none")
  BY <1>1, <1>4, <1>6 DEF GraphSound, Decided
<1>9. IsFiniteSet(h.diff) /\ IsFiniteSet(h.checked) /\ IsFiniteSet(h.valid)
  BY <1>1, <1>5, <1>6 DEF GraphSound, Carried
<1>10. g.diffs < Attempts /\ h.composes = 0 /\ h.impacts = 0 /\ h.nodes <= NodesBefore(h.diffs)
  BY <1>1, <1>4, <1>6 DEF GraphSound, WithinBudget, n
<1>11. h.diffs >= 1 /\ h.diffs <= Attempts /\ Attempts \in Nat
  BY <1>1, <1>6, <1>10, AttemptsAre DEF GraphRow, n
<1>12. NodesOf(h) = NodesBefore(h.diffs)
  <2>1. NodesBefore(h.diffs) \in Int
    BY <1>6, AttemptsAre DEF GraphRow
  <2> QED
    BY <1>10, <2>1 DEF NodesOf
<1>13. Ready(r, h, facts)
  BY <1>8, <1>9, <1>10, <1>11, <1>12 DEF Ready, Checked
<1>14. Supervised(h) \in GraphRow /\ Supervised(h).in = g.in /\ GraphSound(r, Supervised(h), facts)
  BY <1>6, <1>13, SupervisedSound
<1>15. DepthsAre'
  BY <1>4, <1>7, <1>14, DepthsStay DEF g
<1> QED
  BY <1>4, <1>7, <1>14, <1>15, GraphKeeps

LEMMA ComposeKeeps ==
  ASSUME RunsAreSound, HistoryInv, NEW r \in Runs, Compose(r)
  PROVE  HistoryInv'
<1> DEFINE g == graph[r]
<1>1. g \in GraphRow /\ GraphSound(r, g, facts)
  BY GraphsAre
<1>2. PICK o \in Outcomes[r] : graph' = [graph EXCEPT ![r] = Supervised([g EXCEPT !.compose = o, !.composes = @ + 1])]
  BY DEF Compose
<1>3. g.pc = "compose" /\ depth' = depth /\ facts' = facts
  BY DEF Compose
<1>4. o \in Results
  BY DEF RunsAreSound, Results
<1> DEFINE n == g.composes + 1
           h == [g EXCEPT !.compose = o, !.composes = @ + 1]
<1> HIDE DEF g
<1>a. n \in Nat /\ h = [g EXCEPT !.compose = o, !.composes = n]
  BY <1>1 DEF GraphRow
<1> HIDE DEF n
<1>5. /\ h \in GraphRow /\ h.in = g.in /\ h.diff = g.diff /\ h.diffs = g.diffs /\ h.composes = n
      /\ h.impacts = g.impacts /\ h.impact = g.impact /\ h.checked = g.checked /\ h.valid = g.valid
      /\ h.validated = g.validated /\ h.stored = g.stored /\ h.nodes = g.nodes
  BY <1>1, <1>4, <1>a DEF GraphRow
<1>6. graph' = [graph EXCEPT ![r] = Supervised(h)]
  BY <1>2
<1> HIDE DEF h
<1>7. ~h.validated /\ ~h.stored /\ (h.impacts = 0 => h.impact = "none")
  BY <1>1, <1>3, <1>5 DEF GraphSound, Decided
<1>8. IsFiniteSet(h.diff) /\ IsFiniteSet(h.checked) /\ IsFiniteSet(h.valid)
  BY <1>1, <1>5 DEF GraphSound, Carried
<1>9. /\ g.diffs <= Attempts /\ g.composes < Attempts /\ g.impacts <= Attempts
      /\ g.diffs >= 1 /\ g.nodes <= NodesOf(g) + 2
  BY <1>1, <1>3 DEF GraphSound, WithinBudget
<1>10. /\ g.diffs \in Nat /\ g.composes \in Nat /\ g.impacts \in Nat /\ g.nodes \in Nat /\ Attempts \in Nat
       /\ NodesBefore(g.diffs) \in Int
  BY <1>1, AttemptsAre DEF GraphRow
<1>11. NodesOf(h) = NodesOf(g) + 4 /\ NodesOf(g) \in Int
  BY <1>5, <1>10 DEF NodesOf, n
<1>12. /\ h.diffs <= Attempts /\ h.composes <= Attempts /\ h.impacts <= Attempts
       /\ h.diffs >= 1 /\ h.nodes + 2 <= NodesOf(h) /\ h.nodes <= NodesOf(h)
  BY <1>5, <1>9, <1>10, <1>11 DEF n
<1>13. Ready(r, h, facts)
  BY <1>7, <1>8, <1>12 DEF Ready, Checked
<1>14. Supervised(h) \in GraphRow /\ Supervised(h).in = g.in /\ GraphSound(r, Supervised(h), facts)
  BY <1>5, <1>13, SupervisedSound
<1>15. DepthsAre'
  BY <1>3, <1>6, <1>14, DepthsStay DEF g
<1> QED
  BY <1>3, <1>6, <1>14, <1>15, GraphKeeps

LEMMA ImpactKeeps ==
  ASSUME RunsAreSound, HistoryInv, NEW r \in Runs, Impact(r)
  PROVE  HistoryInv'
<1> DEFINE g == graph[r]
<1>1. g \in GraphRow /\ GraphSound(r, g, facts)
  BY GraphsAre
<1>2. PICK o \in Outcomes[r] : graph' = [graph EXCEPT ![r] = Supervised([g EXCEPT !.impact = o, !.impacts = @ + 1])]
  BY DEF Impact
<1>3. g.pc = "impact" /\ depth' = depth /\ facts' = facts
  BY DEF Impact
<1>4. o \in Results
  BY DEF RunsAreSound, Results
<1> DEFINE n == g.impacts + 1
           h == [g EXCEPT !.impact = o, !.impacts = @ + 1]
<1> HIDE DEF g
<1>a. n \in Nat /\ h = [g EXCEPT !.impact = o, !.impacts = n]
  BY <1>1 DEF GraphRow
<1> HIDE DEF n
<1>5. /\ h \in GraphRow /\ h.in = g.in /\ h.diff = g.diff /\ h.diffs = g.diffs /\ h.composes = g.composes
      /\ h.impacts = n /\ h.checked = g.checked /\ h.valid = g.valid
      /\ h.validated = g.validated /\ h.stored = g.stored /\ h.nodes = g.nodes
  BY <1>1, <1>4, <1>a DEF GraphRow
<1>6. graph' = [graph EXCEPT ![r] = Supervised(h)]
  BY <1>2
<1> HIDE DEF h
<1>7. ~h.validated /\ ~h.stored
  BY <1>1, <1>3, <1>5 DEF GraphSound, Decided
<1>8. IsFiniteSet(h.diff) /\ IsFiniteSet(h.checked) /\ IsFiniteSet(h.valid)
  BY <1>1, <1>5 DEF GraphSound, Carried
<1>9. /\ g.diffs <= Attempts /\ g.composes <= Attempts /\ g.impacts < Attempts
      /\ g.diffs >= 1 /\ g.nodes <= NodesOf(g) + 2
      /\ g.impacts = 0 => g.nodes <= NodesOf(g)
  BY <1>1, <1>3 DEF GraphSound, WithinBudget
<1>10. /\ g.diffs \in Nat /\ g.composes \in Nat /\ g.impacts \in Nat /\ g.nodes \in Nat /\ Attempts \in Nat
       /\ NodesBefore(g.diffs) \in Int
  BY <1>1, AttemptsAre DEF GraphRow
<1>11. NodesOf(h) = NodesOf(g) + (IF g.impacts = 0 THEN 2 ELSE 4) /\ NodesOf(g) \in Int
  BY <1>5, <1>10 DEF NodesOf, n
<1>12. /\ h.diffs <= Attempts /\ h.composes <= Attempts /\ h.impacts <= Attempts /\ h.impacts # 0
       /\ h.diffs >= 1 /\ h.nodes + 2 <= NodesOf(h) /\ h.nodes <= NodesOf(h)
  BY <1>5, <1>9, <1>10, <1>11 DEF n
<1>13. Ready(r, h, facts)
  BY <1>7, <1>8, <1>12 DEF Ready, Checked
<1>14. Supervised(h) \in GraphRow /\ Supervised(h).in = g.in /\ GraphSound(r, Supervised(h), facts)
  BY <1>5, <1>13, SupervisedSound
<1>15. DepthsAre'
  BY <1>3, <1>6, <1>14, DepthsStay DEF g
<1> QED
  BY <1>3, <1>6, <1>14, <1>15, GraphKeeps

-----------------------------------------------------------------------------
(* The promotion and the check.                                            *)

LEMMA LeastIs == ASSUME NEW T \in SUBSET Nat, T # {} PROVE \E x \in T : \A y \in T : x <= y
<1>1. \E x \in T : \A y \in T : ~ (<<y, x>> \in OpToRel(<, Nat))
  BY NatLessThanWellFounded, WFMin
<1>2. PICK x \in T : \A y \in T : ~ (<<y, x>> \in OpToRel(<, Nat))
  BY <1>1
<1>3. ASSUME NEW y \in T PROVE x <= y
  <2>1. x \in Nat /\ y \in Nat /\ ~ (y < x)
    BY <1>2 DEF OpToRel
  <2> QED
    BY <2>1
<1> QED
  BY <1>3

LEMMA Greatest == ASSUME NEW n \in Nat, NEW T, T \subseteq 1 .. n, T # {} PROVE \E x \in T : \A y \in T : y <= x
<1> DEFINE S == {k \in Nat : \A y \in T : y <= k}
<1>1. \A y \in T : y \in Nat /\ y <= n /\ y >= 1
  OBVIOUS
<1>2. S \in SUBSET Nat /\ n \in S
  BY <1>1
<1>3. PICK m \in S : \A k \in S : m <= k
  BY <1>2, LeastIs
<1>4. ASSUME m \notin T
      PROVE  FALSE
  <2>1. m \in Nat /\ \A y \in T : y < m
    BY <1>1, <1>4
  <2>2. m >= 1
    <3>1. PICK y \in T : y \in Nat /\ y >= 1
      BY <1>1
    <3>2. y < m
      BY <2>1
    <3> QED
      BY <2>1, <3>1, <3>2
  <2>3. m - 1 \in Nat /\ \A y \in T : y <= m - 1
    BY <1>1, <2>1, <2>2
  <2>4. m - 1 \in S
    BY <2>3
  <2>5. m <= m - 1
    BY <1>3, <2>4
  <2> QED
    BY <2>1, <2>5
<1> QED
  BY <1>3, <1>4

LEMMA BaseIs ==
  ASSUME RunsAreSound, HistoryInv, NEW topic, NEW key, BaseOf(topic, key) # Nil
  PROVE  BaseOf(topic, key) \in Nat
<1> DEFINE I == {i \in ActiveOf(topic) : facts[i].key = key}
<1>1. DOMAIN facts = 1 .. Len(facts) /\ Len(facts) \in Nat
  BY DEF HistoryInv, FactsSound
<1>2. I \in SUBSET (1 .. Len(facts))
  BY <1>1 DEF ActiveOf
<1>3. BaseOf(topic, key) = IF I = {} THEN Nil ELSE CHOOSE i \in I : \A k \in I : k <= i
  BY DEF BaseOf
<1> HIDE DEF I
<1>4. I # {} /\ \E i \in I : \A k \in I : k <= i
  BY <1>1, <1>2, <1>3, Greatest
<1>5. BaseOf(topic, key) \in I
  BY <1>3, <1>4
<1>6. BaseOf(topic, key) \in 1 .. Len(facts)
  BY <1>2, <1>5
<1> QED
  BY <1>1, <1>6

LEMMA PromotedIs ==
  ASSUME RunsAreSound, HistoryInv, NEW topic, NEW f \in Findings
  PROVE  LET p == PromotedFact(f, topic)
         IN  /\ p \in Findings /\ p.key = f.key /\ p.value = f.value
             /\ f.verdict # "duplicate" => p.verdict # "duplicate"
<1> DEFINE b == BaseOf(topic, f.key)
<1>1. CASE f.verdict = "new" /\ f.updates = Nil /\ b # Nil
  <2>1. b \in Nat
    BY <1>1, BaseIs
  <2>2. PromotedFact(f, topic) = [f EXCEPT !.verdict = "updated", !.updates = b]
    BY <1>1 DEF PromotedFact
  <2> HIDE DEF b
  <2> QED
    BY <2>1, <2>2 DEF Findings
<1>2. CASE ~(f.verdict = "new" /\ f.updates = Nil /\ b # Nil)
  BY <1>2 DEF PromotedFact
<1> QED
  BY <1>1, <1>2

LEMMA PromoteKeeps ==
  ASSUME RunsAreSound, HistoryInv, NEW r \in Runs, Promote(r)
  PROVE  HistoryInv'
<1> DEFINE l == Left(r)
           t == TopicOf[r]
           C == {PromotedFact(f, t) : f \in graph[r].diff}
           h == [l EXCEPT !.pc = "check", !.checked = C]
<1>1. Leave(r) /\ facts' = facts /\ graph' = [graph EXCEPT ![r] = h] /\ graph[r].pc = "promote"
  BY DEF Promote
<1>2. /\ l \in GraphRow /\ ~l.in /\ l.pc = "promote" /\ l.diff = graph[r].diff /\ GraphSound(r, l, facts)
      /\ l.diff \subseteq Findings
  BY <1>1, LeftIs DEF Agree, GraphRow
<1> HIDE DEF l
<1>3. \A f \in l.diff : LET p == PromotedFact(f, t)
                        IN  /\ p \in C /\ p \in Findings /\ p.key = f.key /\ p.value = f.value
                            /\ f.verdict # "duplicate" => p.verdict # "duplicate"
  BY <1>2, PromotedIs
<1>4. C \in SUBSET Findings
  BY <1>2, <1>3
<1>5. IsFiniteSet(C)
  <2> DEFINE e == [f \in l.diff |-> PromotedFact(f, t)]
  <2>1. e = [f \in l.diff |-> e[f]] /\ C = {e[f] : f \in l.diff}
    BY <1>2
  <2>2. IsFiniteSet(l.diff)
    BY <1>2 DEF GraphSound, Carried
  <2> HIDE DEF e, C
  <2> QED
    BY <2>1, <2>2, MadeFinite
<1> HIDE DEF C
<1>6. /\ h \in GraphRow /\ ~h.in /\ h.pc = "check" /\ h.diff = l.diff /\ h.diffs = l.diffs /\ h.composes = l.composes
      /\ h.compose = l.compose /\ h.impacts = l.impacts /\ h.impact = l.impact /\ h.checked = C /\ h.valid = l.valid
      /\ h.validated = l.validated /\ h.stored = l.stored /\ h.nodes = l.nodes
  BY <1>2, <1>4 DEF GraphRow, Pcs
<1> HIDE DEF h
<1>7. ~l.validated /\ ~l.stored
  BY <1>2 DEF GraphSound, Decided
<1>8. WithinBudget(h)
  <2>1. NodesOf(h) = NodesOf(l)
    BY <1>6, NeedsSame
  <2> QED
    BY <1>2, <1>6, <2>1 DEF GraphSound, WithinBudget
<1>9. Decided(h)
  <2>1. (NeedsCompose(h) <=> NeedsCompose(l)) /\ (NeedsImpact(h) <=> NeedsImpact(l))
    BY <1>6, NeedsSame
  <2> QED
    BY <1>2, <1>6, <1>7, <2>1 DEF GraphSound, Decided
<1>10. Carried(h)
  <2>1. \A f \in h.diff : f.verdict = "duplicate" \/ In(h.checked, f)
    BY <1>3, <1>6 DEF In
  <2> QED
    BY <1>2, <1>5, <1>6, <1>7, <2>1 DEF GraphSound, Carried
<1>11. GraphSound(r, h, facts)
  BY <1>6, <1>7, <1>8, <1>9, <1>10 DEF GraphSound, Checked, Traced
<1> QED
  BY <1>1, <1>6, <1>11, LeaveKeeps, GraphKeeps

LEMMA ProblemsAre ==
  ASSUME RunsAreSound, NEW g \in GraphRow, NEW F \in SUBSET Findings, NEW K,
         NEW P, P = Problems(g, F, K)
  PROVE  /\ P \in SUBSET ProblemRow
         /\ \A p \in P : p.worker = "impact" => g.impact = "bad"
         /\ \A c \in F \ Valid(F, K) : Told(P, c)
<1>1. Unknown(F, K) \subseteq F /\ Restated(F, K) \subseteq F /\ Valid(F, K) \subseteq F
  BY DEF Unknown, Restated, Valid
<1>2. \A w \in {"diff", "compose", "impact"} : \A f \in Findings \cup {Nil} : \A b \in BOOLEAN :
        /\ Problem(w, f, b) \in ProblemRow /\ Problem(w, f, b).worker = w /\ Problem(w, f, b).fact = f
  BY DEF Problem, ProblemRow
<1>3. P = UNION {{Problem("diff", f, TRUE) : f \in Unknown(F, K)}, {Problem("diff", f, FALSE) : f \in Restated(F, K)},
                 {Problem("diff", f, TRUE) : f \in {h \in Valid(F, K) : h.drift}},
                 IF g.compose = "bad" THEN {Problem("compose", Nil, TRUE)} ELSE {},
                 IF g.impact = "bad" THEN {Problem("impact", Nil, TRUE)} ELSE {}}
  BY DEF Problems
<1>4. \A p \in P : \/ \E f \in F : p = Problem("diff", f, TRUE) \/ p = Problem("diff", f, FALSE)
                   \/ p = Problem("compose", Nil, TRUE)
                   \/ p = Problem("impact", Nil, TRUE) /\ g.impact = "bad"
  BY <1>1, <1>3
<1>5. ASSUME NEW p \in P
      PROVE  p \in ProblemRow /\ (p.worker = "impact" => g.impact = "bad")
  <2>1. CASE \E f \in F : p = Problem("diff", f, TRUE) \/ p = Problem("diff", f, FALSE)
    <3>1. PICK f \in Findings : p = Problem("diff", f, TRUE) \/ p = Problem("diff", f, FALSE)
      BY <2>1
    <3>2. \E b \in BOOLEAN : p = Problem("diff", f, b)
      BY <3>1
    <3>3. PICK b \in BOOLEAN : p = Problem("diff", f, b)
      BY <3>2
    <3>4. p \in ProblemRow /\ p.worker = "diff"
      BY <1>2, <3>3
    <3> QED
      BY <3>4
  <2>2. CASE p = Problem("compose", Nil, TRUE)
    <3>1. p \in ProblemRow /\ p.worker = "compose"
      BY <1>2, <2>2
    <3> QED
      BY <3>1
  <2>3. CASE p = Problem("impact", Nil, TRUE) /\ g.impact = "bad"
    BY <1>2, <2>3
  <2> QED
    BY <1>4, <2>1, <2>2, <2>3
<1>6. ASSUME NEW c \in F \ Valid(F, K)
      PROVE  Told(P, c)
  <2>1. c \in Findings /\ c # Nil
    BY DEF RunsAreSound
  <2>2. c \in Unknown(F, K) \/ c \in Restated(F, K)
    BY DEF Valid
  <2>3. Problem("diff", c, TRUE) \in P \/ Problem("diff", c, FALSE) \in P
    BY <1>3, <2>2
  <2>4. PICK b \in BOOLEAN : Problem("diff", c, b) \in P
    BY <2>3
  <2>5. Problem("diff", c, b).fact = c
    BY <1>2, <2>1
  <2> QED
    BY <2>1, <2>4, <2>5 DEF Told
<1> QED
  BY <1>5, <1>6

LEMMA CheckKeeps ==
  ASSUME RunsAreSound, HistoryInv, NEW r \in Runs, Check(r)
  PROVE  HistoryInv'
<1> DEFINE g == graph[r]
           l == Left(r)
           F == g.checked
           K == KnownIds(TopicOf[r], IdsOf(F))
           V == Valid(F, K)
           P == Problems(g, F, K)
           h == [l EXCEPT !.valid = V, !.validated = TRUE, !.problems = P]
<1>1. Leave(r) /\ facts' = facts /\ graph' = [graph EXCEPT ![r] = Supervised(h)] /\ g.pc = "check"
  BY DEF Check
<1>2. g \in GraphRow /\ l \in GraphRow /\ ~l.in /\ Agree(g, l) /\ GraphSound(r, l, facts)
  BY GraphsAre, LeftIs
<1>3. F \in SUBSET Findings /\ F = l.checked /\ V \subseteq F
  BY <1>2 DEF GraphRow, Agree, Valid
<1>4. \A f \in V : f.verdict = "updated" => Differs(r, facts, f.updates, f.value)
  <2> SUFFICES ASSUME NEW f \in V, f.verdict = "updated"
               PROVE  Differs(r, facts, f.updates, f.value)
    OBVIOUS
  <2>1. f \in F /\ f \notin Unknown(F, K) /\ f \notin Restated(F, K)
    BY DEF Valid
  <2>2. f.updates \in K /\ Says[facts[f.updates].value] # Says[f.value]
    BY <2>1 DEF Unknown, Restated
  <2> QED
    BY <2>2 DEF KnownIds, Differs
<1> HIDE DEF g, l, F, K, V, P
<1>5. /\ P \in SUBSET ProblemRow
      /\ \A p \in P : p.worker = "impact" => g.impact = "bad"
      /\ \A c \in F \ V : Told(P, c)
  BY <1>2, <1>3, ProblemsAre DEF P, V
<1>6. /\ h \in GraphRow /\ ~h.in /\ h.pc = "check" /\ h.diff = l.diff /\ h.diffs = l.diffs /\ h.composes = l.composes
      /\ h.compose = l.compose /\ h.impacts = l.impacts /\ h.impact = l.impact /\ h.checked = F /\ h.valid = V
      /\ h.validated /\ h.problems = P /\ h.stored = l.stored /\ h.nodes = l.nodes
  BY <1>1, <1>2, <1>3, <1>5 DEF GraphRow, Agree
<1> HIDE DEF h
<1>7. l.pc = "check" /\ g.impact = l.impact
  BY <1>1, <1>2 DEF Agree
<1>8. /\ ~h.stored /\ (h.impacts = 0 => h.impact = "none") /\ h.diff # {} /\ ~NeedsCompose(h) /\ ~NeedsImpact(h)
  <2>1. (NeedsCompose(h) <=> NeedsCompose(l)) /\ (NeedsImpact(h) <=> NeedsImpact(l))
    BY <1>6, NeedsSame
  <2> QED
    BY <1>2, <1>6, <1>7, <2>1 DEF GraphSound, Decided
<1>9. /\ h.diffs <= Attempts /\ h.composes <= Attempts /\ h.impacts <= Attempts
      /\ h.diffs >= 1 /\ h.nodes <= NodesOf(h)
  <2>1. NodesOf(h) = NodesOf(l)
    BY <1>6, NeedsSame
  <2> QED
    BY <1>2, <1>6, <1>7, <2>1 DEF GraphSound, WithinBudget
<1>10. IsFiniteSet(h.diff) /\ IsFiniteSet(h.checked) /\ IsFiniteSet(h.valid)
  <2>1. IsFiniteSet(l.diff) /\ IsFiniteSet(F)
    BY <1>2, <1>3 DEF GraphSound, Carried
  <2> QED
    BY <1>3, <1>6, <2>1, FS_Subset
<1>11. \A f \in h.diff : f.verdict = "duplicate" \/ In(h.valid, f) \/ Told(h.problems, f)
  <2> SUFFICES ASSUME NEW f \in h.diff, f.verdict # "duplicate"
               PROVE  In(V, f) \/ Told(P, f)
    BY <1>6
  <2>1. In(F, f)
    BY <1>2, <1>3, <1>6, <1>7 DEF GraphSound, Carried
  <2>2. PICK c \in F : c.key = f.key /\ c.value = f.value /\ c.verdict # "duplicate"
    BY <2>1 DEF In
  <2>3. CASE c \in V
    BY <2>2, <2>3 DEF In
  <2>4. CASE c \notin V
    BY <1>5, <2>2, <2>4 DEF Told
  <2> QED
    BY <2>3, <2>4
<1>12. "impact" \in FailedWorkers(h) => h.impacts > 0
  <2> SUFFICES ASSUME "impact" \in FailedWorkers(h)
               PROVE  h.impacts > 0
    OBVIOUS
  <2>1. PICK p \in P : p.worker = "impact"
    BY <1>6 DEF FailedWorkers
  <2>2. h.impact = "bad"
    BY <1>5, <1>6, <1>7, <2>1
  <2> QED
    BY <1>6, <1>8, <2>2 DEF GraphRow
<1>13. Checked(r, h, facts)
  BY <1>4, <1>6 DEF Checked
<1>14. Ready(r, h, facts)
  <2>1. h.diffs # 0
    BY <1>9
  <2> QED
    BY <1>6, <1>8, <1>9, <1>10, <1>11, <1>12, <1>13, <2>1 DEF Ready
<1>15. Supervised(h) \in GraphRow /\ ~Supervised(h).in /\ GraphSound(r, Supervised(h), facts)
  BY <1>6, <1>14, SupervisedSound
<1> QED
  BY <1>1, <1>15, LeaveKeeps, GraphKeeps

-----------------------------------------------------------------------------
(* The store.                                                              *)

LEMMA SetToSeqIs ==
  ASSUME NEW S, IsFiniteSet(S)
  PROVE  /\ SetToSeq(S) \in Seq(S)
         /\ \A x \in S : \E k \in DOMAIN SetToSeq(S) : SetToSeq(S)[k] = x
<1> DEFINE n == Cardinality(S)
           q == SetToSeq(S)
<1>1. n \in Nat /\ ExistsBijection(1 .. n, S)
  BY FS_CardinalityType
<1>2. \E f \in [1 .. n -> S] : IsInjective(f)
  BY <1>1 DEF ExistsBijection, Bijection, Injection
<1>3. q \in [1 .. n -> S] /\ IsInjective(q)
  BY <1>2 DEF SetToSeq
<1>4. q \in Injection(1 .. n, S)
  BY <1>3 DEF Injection
<1>5. Cardinality(1 .. n) = n
  BY <1>1, FS_Interval
<1> HIDE DEF q
<1>6. q \in Surjection(1 .. n, S)
  BY <1>4, <1>5, FS_Injection
<1>7. \A x \in S : \E k \in 1 .. n : q[k] = x
  BY <1>6 DEF Surjection
<1> HIDE DEF n
<1>8. q \in Seq(S) /\ DOMAIN q = 1 .. n
  BY <1>1, <1>3
<1> QED
  BY <1>7, <1>8 DEF q

LEMMA RowsAre ==
  ASSUME RunsAreSound, HistoryInv, NEW r \in Runs
  PROVE  LET V == Highlights(graph[r].valid)
         IN  /\ V \subseteq Findings
             /\ \A f \in V : Row(r, f) \in FactRow
             /\ Rows(r) \in Seq(FactRow)
             /\ \A k \in DOMAIN Rows(r) : \E f \in V : Rows(r)[k] = Row(r, f)
             /\ \A f \in V : \E k \in DOMAIN Rows(r) : Rows(r)[k] = Row(r, f)
<1> DEFINE V == Highlights(graph[r].valid)
           S == {Row(r, f) : f \in V}
<1>1. V \subseteq Findings /\ \A f \in V : f.verdict # "duplicate"
  BY GraphsAre DEF GraphRow, Highlights
<1>2. IsFiniteSet(V)
  <2>1. V \subseteq graph[r].valid /\ IsFiniteSet(graph[r].valid)
    BY GraphsAre DEF GraphSound, Carried, Highlights
  <2> QED
    BY <2>1, FS_Subset
<1> HIDE DEF V
<1>3. ASSUME NEW f \in V
      PROVE  Row(r, f) \in FactRow
  <2>1. /\ f.key \in {x.key : x \in FactsFound} /\ f.value \in {x.value : x \in FactsFound}
        /\ f.verdict \in {"new", "updated"} /\ f.updates \in Nat \cup {Nil}
    BY <1>1 DEF Findings
  <2>2. TopicOf[r] \in {TopicOf[u] : u \in Runs}
    OBVIOUS
  <2> QED
    BY <2>1, <2>2 DEF Row, FactRow
<1> DEFINE e == [f \in V |-> Row(r, f)]
<1>4. e = [f \in V |-> e[f]] /\ S = {e[f] : f \in V}
  OBVIOUS
<1> HIDE DEF e, S
<1>5. IsFiniteSet(S)
  BY <1>2, <1>4, MadeFinite
<1>6. Rows(r) = SetToSeq(S)
  BY DEF Rows, S, V
<1>7. Rows(r) \in Seq(S) /\ \A x \in S : \E k \in DOMAIN Rows(r) : Rows(r)[k] = x
  BY <1>5, <1>6, SetToSeqIs
<1>8. S \subseteq FactRow
  BY <1>3 DEF S
<1>9. \A k \in DOMAIN Rows(r) : Rows(r)[k] \in S
  BY <1>7
<1>10. Rows(r) \in Seq(FactRow)
  BY <1>7, <1>8
<1> QED
  BY <1>1, <1>3, <1>7, <1>9, <1>10 DEF V, S

\* Facts are added, and what a fact says stays.
Grows(fs, gs) ==
  \A i \in DOMAIN fs :
    /\ i \in DOMAIN gs /\ gs[i].topic = fs[i].topic /\ gs[i].key = fs[i].key /\ gs[i].value = fs[i].value
    /\ gs[i].by = fs[i].by /\ gs[i].verdict = fs[i].verdict /\ gs[i].supersedes = fs[i].supersedes

LEMMA GrowsSound ==
  ASSUME NEW r, NEW g, NEW fs, NEW gs, Grows(fs, gs), GraphSound(r, g, fs)
  PROVE  GraphSound(r, g, gs)
<1>1. \A i, v : Differs(r, fs, i, v) => Differs(r, gs, i, v)
  BY DEF Grows, Differs
<1>2. \A f : KeptOf(r, fs, f) => KeptOf(r, gs, f)
  BY DEF Grows, KeptOf
<1> QED
  BY <1>1, <1>2 DEF GraphSound, Checked, Traced

LEMMA SupersedingIs ==
  ASSUME RunsAreSound, HistoryInv, NEW r \in Runs
  PROVE  LET rows == Rows(r)
             fs == Superseding(r, rows)
         IN /\ fs \in Seq(FactRow) /\ Grows(facts, fs)
            /\ \A i \in DOMAIN facts :
                 fs[i].active = facts[i].active \/ \E k \in DOMAIN rows : rows[k].supersedes = i
            /\ \A k \in DOMAIN rows : Len(facts) + k \in DOMAIN fs /\ fs[Len(facts) + k] = rows[k]
            /\ \A i \in DOMAIN fs : i \in DOMAIN facts \/ \E k \in DOMAIN rows : i = Len(facts) + k
<1> DEFINE rows == Rows(r)
           fs == Superseding(r, rows)
<1>0. rows \in Seq(FactRow)
  BY RowsAre
<1> HIDE DEF rows
<1> DEFINE ids == {rows[k].supersedes : k \in DOMAIN rows}
           old == [i \in DOMAIN facts |->
                     IF i \in ids /\ Norm[facts[i].topic] = Norm[TopicOf[r]] THEN [facts[i] EXCEPT !.active = FALSE]
                     ELSE facts[i]]
<1>1. facts \in Seq(FactRow) /\ Len(facts) \in Nat /\ DOMAIN facts = 1 .. Len(facts)
  BY DEF HistoryInv, FactsSound
<1>2. fs = old \o rows
  BY DEF Superseding
<1> HIDE DEF fs
<1>3. ASSUME NEW i \in DOMAIN facts
      PROVE  /\ old[i] \in FactRow /\ old[i].topic = facts[i].topic /\ old[i].key = facts[i].key
             /\ old[i].value = facts[i].value /\ old[i].by = facts[i].by /\ old[i].verdict = facts[i].verdict
             /\ old[i].supersedes = facts[i].supersedes
             /\ old[i].active = facts[i].active \/ i \in ids
  <2>1. facts[i] \in FactRow
    BY <1>1
  <2>2. old[i] = facts[i] \/ (i \in ids /\ old[i] = [facts[i] EXCEPT !.active = FALSE])
    OBVIOUS
  <2> HIDE DEF old, ids
  <2> QED
    BY <2>1, <2>2 DEF FactRow
<1>4. old \in Seq(FactRow) /\ Len(old) = Len(facts)
  <2>1. DOMAIN old = 1 .. Len(facts)
    BY <1>1
  <2>2. old = [i \in 1 .. Len(facts) |-> old[i]]
    BY <1>1
  <2> HIDE DEF old
  <2>3. old \in [1 .. Len(facts) -> FactRow]
    BY <1>1, <1>3, <2>2
  <2> QED
    BY <1>1, <2>1, <2>3
<1> HIDE DEF old
<1>5. Len(rows) \in Nat /\ DOMAIN rows = 1 .. Len(rows)
  BY <1>0
<1>6. /\ fs \in Seq(FactRow) /\ Len(fs) = Len(facts) + Len(rows)
      /\ \A i \in 1 .. Len(facts) + Len(rows) : fs[i] = IF i <= Len(facts) THEN old[i] ELSE rows[i - Len(facts)]
  <2>1. /\ old \o rows \in Seq(FactRow) /\ Len(old \o rows) = Len(old) + Len(rows)
        /\ \A i \in 1 .. Len(old) + Len(rows) : (old \o rows)[i] = IF i <= Len(old) THEN old[i] ELSE rows[i - Len(old)]
    BY <1>0, <1>4, ConcatProperties
  <2> QED
    BY <1>2, <1>4, <2>1
<1>7. DOMAIN fs = 1 .. Len(facts) + Len(rows)
  BY <1>6
<1>8. \A i \in DOMAIN facts : i \in DOMAIN fs /\ fs[i] = old[i]
  BY <1>1, <1>5, <1>6, <1>7
<1>9. Grows(facts, fs)
  BY <1>3, <1>8 DEF Grows
<1>10. ASSUME NEW k \in DOMAIN rows
       PROVE  Len(facts) + k \in DOMAIN fs /\ fs[Len(facts) + k] = rows[k]
  <2>1. k \in Nat /\ k >= 1 /\ k <= Len(rows)
    BY <1>5
  <2>2. Len(facts) + k \in 1 .. Len(facts) + Len(rows) /\ ~(Len(facts) + k <= Len(facts)) /\ (Len(facts) + k) - Len(facts) = k
    BY <1>1, <1>5, <2>1
  <2> QED
    BY <1>6, <1>7, <2>2
<1>11. ASSUME NEW i \in DOMAIN fs, i \notin DOMAIN facts
       PROVE  \E k \in DOMAIN rows : i = Len(facts) + k
  <2>1. i \in Nat /\ i > Len(facts) /\ i <= Len(facts) + Len(rows)
    BY <1>1, <1>5, <1>7, <1>11
  <2>2. i - Len(facts) \in DOMAIN rows /\ i = Len(facts) + (i - Len(facts))
    BY <1>1, <1>5, <2>1
  <2> QED
    BY <2>2
<1>12. \A i \in DOMAIN facts : fs[i].active = facts[i].active \/ \E k \in DOMAIN rows : rows[k].supersedes = i
  BY <1>3, <1>8 DEF ids
<1> QED
  BY <1>6, <1>9, <1>10, <1>11, <1>12 DEF fs, rows

\* What a checked run stores leaves the facts sound, whatever was stored since its check.
LEMMA StoredFacts ==
  ASSUME RunsAreSound, HistoryInv, NEW r \in Runs, graph[r].validated, Refers(Rows(r)),
         facts' = Superseding(r, Rows(r))
  PROVE  /\ FactsSound' /\ Grows(facts, facts')
         /\ \A c \in Highlights(graph[r].valid) : KeptOf(r, facts', c)
<1> DEFINE rows == Rows(r)
           V == Highlights(graph[r].valid)
           n == Len(facts)
<1>1. /\ V \subseteq Findings /\ rows \in Seq(FactRow)
      /\ \A f \in V : Row(r, f) \in FactRow
      /\ \A k \in DOMAIN rows : \E f \in V : rows[k] = Row(r, f)
      /\ \A f \in V : \E k \in DOMAIN rows : rows[k] = Row(r, f)
  BY RowsAre
<1>2. /\ facts' \in Seq(FactRow) /\ Grows(facts, facts')
      /\ \A i \in DOMAIN facts :
           facts'[i].active = facts[i].active \/ \E k \in DOMAIN rows : rows[k].supersedes = i
      /\ \A k \in DOMAIN rows : n + k \in DOMAIN facts' /\ facts'[n + k] = rows[k]
      /\ \A i \in DOMAIN facts' : i \in DOMAIN facts \/ \E k \in DOMAIN rows : i = n + k
  BY <1>1, SupersedingIs
<1>3. /\ n \in Nat /\ DOMAIN facts = 1 .. n /\ FactsSound
  BY DEF HistoryInv, FactsSound
<1>4. \A k \in DOMAIN rows : rows[k].supersedes \in DOMAIN facts \cup {Nil}
  BY DEF Refers
<1>5. \A f \in V : f.verdict = "updated" => Differs(r, facts, f.updates, f.value)
  BY GraphsAre DEF GraphSound, Checked, Highlights
<1> HIDE DEF rows, V
<1>6. \A f \in V : /\ Row(r, f).topic = TopicOf[r] /\ Row(r, f).key = f.key /\ Row(r, f).value = f.value
                   /\ Row(r, f).verdict = f.verdict /\ Row(r, f).supersedes = f.updates
                   /\ Row(r, f).active /\ Row(r, f).by = r
  BY DEF Row
<1>7. \A c \in V : KeptOf(r, facts', c)
  <2> SUFFICES ASSUME NEW c \in V PROVE KeptOf(r, facts', c)
    OBVIOUS
  <2>1. PICK k \in DOMAIN rows : rows[k] = Row(r, c)
    BY <1>1
  <2> QED
    BY <1>2, <1>6, <2>1 DEF KeptOf
<1>8. ASSUME NEW i \in DOMAIN facts
      PROVE  /\ i \in Nat /\ facts'[i].supersedes \in 1 .. (i - 1) \cup {Nil}
             /\ facts'[i].verdict = "updated" =>
                  /\ facts'[i].supersedes # Nil
                  /\ LET b == facts'[facts'[i].supersedes]
                     IN b.topic = facts'[i].topic /\ Says[b.value] # Says[facts'[i].value]
             /\ ~facts'[i].active => \E k \in DOMAIN facts' : facts'[k].supersedes = i
  <2>1. /\ i \in Nat /\ facts[i].supersedes \in 1 .. (i - 1) \cup {Nil}
        /\ facts'[i].topic = facts[i].topic /\ facts'[i].value = facts[i].value
        /\ facts'[i].verdict = facts[i].verdict /\ facts'[i].supersedes = facts[i].supersedes
    BY <1>2, <1>3 DEF Grows, FactsSound
  <2>2. ASSUME facts'[i].verdict = "updated"
        PROVE  /\ facts'[i].supersedes # Nil
               /\ LET b == facts'[facts'[i].supersedes]
                  IN b.topic = facts'[i].topic /\ Says[b.value] # Says[facts'[i].value]
    <3> DEFINE s == facts[i].supersedes
    <3>1. s # Nil /\ facts[s].topic = facts[i].topic /\ Says[facts[s].value] # Says[facts[i].value]
      BY <1>3, <2>1, <2>2 DEF FactsSound, UpdatesAreReal
    <3>2. s \in DOMAIN facts
      BY <1>3, <2>1, <3>1
    <3>3. facts'[s].topic = facts[s].topic /\ facts'[s].value = facts[s].value
      BY <1>2, <3>2 DEF Grows
    <3> QED
      BY <2>1, <3>1, <3>3
  <2>3. ASSUME ~facts'[i].active
        PROVE  \E k \in DOMAIN facts' : facts'[k].supersedes = i
    <3>1. CASE \E k \in DOMAIN rows : rows[k].supersedes = i
      BY <1>2, <3>1
    <3>2. CASE facts'[i].active = facts[i].active
      <4>1. PICK k \in DOMAIN facts : facts[k].supersedes = i
        BY <1>3, <2>3, <3>2 DEF FactsSound, UpdatesAreReal
      <4> QED
        BY <1>2, <4>1 DEF Grows
    <3> QED
      BY <1>2, <3>1, <3>2
  <2> QED
    BY <2>1, <2>2, <2>3
<1>9. ASSUME NEW k \in DOMAIN rows
      PROVE  LET i == n + k
             IN  /\ i \in Nat /\ facts'[i].supersedes \in 1 .. (i - 1) \cup {Nil}
                 /\ facts'[i].verdict = "updated" =>
                      /\ facts'[i].supersedes # Nil
                      /\ LET b == facts'[facts'[i].supersedes]
                         IN b.topic = facts'[i].topic /\ Says[b.value] # Says[facts'[i].value]
                 /\ facts'[i].active
  <2>1. PICK f \in V : rows[k] = Row(r, f)
    BY <1>1
  <2>2. k \in Nat /\ k >= 1
    BY <1>1
  <2> DEFINE i == n + k
  <2>3. i \in Nat /\ 1 .. n \subseteq 1 .. (i - 1)
    BY <1>3, <2>2
  <2>4. /\ facts'[i] = rows[k] /\ facts'[i].topic = TopicOf[r] /\ facts'[i].value = f.value /\ facts'[i].verdict = f.verdict
        /\ facts'[i].supersedes = f.updates /\ facts'[i].active
    BY <1>2, <1>6, <2>1
  <2> HIDE DEF i
  <2>5. facts'[i].supersedes \in 1 .. (i - 1) \cup {Nil}
    BY <1>3, <1>4, <2>3, <2>4
  <2>6. ASSUME f.verdict = "updated"
        PROVE  f.updates # Nil /\ facts'[f.updates].topic = TopicOf[r] /\ Says[facts'[f.updates].value] # Says[f.value]
    <3>1. f.updates \in DOMAIN facts /\ facts[f.updates].topic = TopicOf[r] /\ Says[facts[f.updates].value] # Says[f.value]
      BY <1>5, <2>6 DEF Differs
    <3>2. f.updates # Nil
      <4>1. Nil \notin Nat
        BY DEF RunsAreSound
      <4>2. f.updates \in Nat
        BY <1>3, <3>1
      <4> QED
        BY <4>1, <4>2
    <3> QED
      BY <1>2, <3>1, <3>2 DEF Grows
  <2> QED
    BY <2>3, <2>4, <2>5, <2>6 DEF i
<1>10. FactsSound'
  <2>1. \A i \in DOMAIN facts' :
          /\ facts'[i].supersedes \in 1 .. (i - 1) \cup {Nil}
          /\ facts'[i].verdict = "updated" =>
               /\ facts'[i].supersedes # Nil
               /\ LET b == facts'[facts'[i].supersedes]
                  IN b.topic = facts'[i].topic /\ Says[b.value] # Says[facts'[i].value]
          /\ ~facts'[i].active => \E k \in DOMAIN facts' : facts'[k].supersedes = i
    BY <1>2, <1>8, <1>9
  <2>2. UpdatesAreReal'
    BY <2>1 DEF UpdatesAreReal
  <2> QED
    BY <1>2, <2>1, <2>2 DEF FactsSound
<1> QED
  BY <1>2, <1>7, <1>10 DEF V

LEMMA StoreKeeps ==
  ASSUME RunsAreSound, HistoryInv, NEW r \in Runs, Store(r)
  PROVE  HistoryInv'
<1> DEFINE l == Left(r)
           H(b) == [l EXCEPT !.pc = "done", !.stored = b, !.nodes = @ + 2]
<1>1. Leave(r) /\ graph[r].pc = "store"
  BY DEF Store
<1>2. l \in GraphRow /\ ~l.in /\ l.pc = "store" /\ l.valid = graph[r].valid /\ GraphSound(r, l, facts)
  BY <1>1, LeftIs DEF Agree
<1>3. l.validated /\ l.flags = l.problems /\ ~l.stored /\ graph[r].validated
  BY <1>1, <1>2, GraphsAre DEF GraphSound, Decided
<1>4. \/ /\ Refers(Rows(r)) /\ facts' = Superseding(r, Rows(r))
         /\ graph' = [graph EXCEPT ![r] = [l EXCEPT !.pc = "done", !.stored = TRUE, !.nodes = @ + 2]]
      \/ /\ facts' = facts \/ (Refers(Rows(r)) /\ facts' = Superseding(r, Rows(r)))
         /\ graph' = [graph EXCEPT ![r] = [l EXCEPT !.pc = "done", !.nodes = @ + 2]]
  BY DEF Store
<1>5. facts' = facts \/ (Refers(Rows(r)) /\ facts' = Superseding(r, Rows(r)))
  BY <1>4
<1>6. FactsSound' /\ Grows(facts, facts')
  <2>1. CASE facts' = facts
    <3>1. FactsSound
      BY DEF HistoryInv
    <3> QED
      BY <2>1, <3>1 DEF FactsSound, UpdatesAreReal, Grows
  <2>2. CASE Refers(Rows(r)) /\ facts' = Superseding(r, Rows(r))
    BY <1>3, <2>2, StoredFacts
  <2> QED
    BY <1>5, <2>1, <2>2
<1>7. facts' = facts \/ \A c \in Highlights(l.valid) : KeptOf(r, facts', c)
  BY <1>2, <1>3, <1>5, StoredFacts
<1>8. GraphSound(r, l, facts')
  <2>1. \A fs, gs : Grows(fs, gs) /\ GraphSound(r, l, fs) => GraphSound(r, l, gs)
    BY GrowsSound
  <2> QED
    BY <1>2, <1>6, <2>1
<1>9. l.nodes + 2 <= RecursionLimit /\ l.nodes + 2 \in Nat
  <2>1. l.diffs >= 1 /\ l.diffs <= Attempts /\ l.composes <= Attempts /\ l.impacts <= Attempts /\ l.nodes <= NodesOf(l) + 2
    BY <1>2 DEF GraphSound, WithinBudget
  <2>2. NodesOf(l) \in Int /\ NodesOf(l) + 4 <= RecursionLimit /\ l.nodes \in Nat /\ RecursionLimit \in Nat
    BY <1>2, <2>1, NodesBound DEF GraphRow, RunsAreSound
  <2> QED
    BY <2>1, <2>2
<1>10. \E b \in BOOLEAN :
         /\ graph' = [graph EXCEPT ![r] = H(b)]
         /\ b => Refers(Rows(r)) /\ facts' = Superseding(r, Rows(r))
  <2>1. CASE /\ Refers(Rows(r)) /\ facts' = Superseding(r, Rows(r))
             /\ graph' = [graph EXCEPT ![r] = [l EXCEPT !.pc = "done", !.stored = TRUE, !.nodes = @ + 2]]
    BY <2>1
  <2>2. CASE graph' = [graph EXCEPT ![r] = [l EXCEPT !.pc = "done", !.nodes = @ + 2]]
    <3> HIDE DEF l
    <3>1. [l EXCEPT !.pc = "done", !.nodes = @ + 2] = H(FALSE)
      BY <1>2, <1>3 DEF GraphRow
    <3> HIDE DEF H
    <3> QED
      BY <2>2, <3>1
  <2> QED
    BY <1>4, <2>1, <2>2
<1>11. PICK b \in BOOLEAN :
         /\ graph' = [graph EXCEPT ![r] = H(b)]
         /\ b => Refers(Rows(r)) /\ facts' = Superseding(r, Rows(r))
  BY <1>10
<1>12. b => \A c \in Highlights(l.valid) : KeptOf(r, facts', c)
  BY <1>2, <1>3, <1>11, StoredFacts
<1> DEFINE h == H(b)
           m == l.nodes + 2
<1>13. graph' = [graph EXCEPT ![r] = h]
  BY <1>11
<1> HIDE DEF l
<1>14. h = [l EXCEPT !.pc = "done", !.stored = b, !.nodes = m]
  BY <1>2 DEF GraphRow
<1> HIDE DEF m, h
<1>15. /\ h \in GraphRow /\ ~h.in /\ h.pc = "done" /\ h.diff = l.diff /\ h.diffs = l.diffs /\ h.composes = l.composes
       /\ h.compose = l.compose /\ h.impacts = l.impacts /\ h.impact = l.impact /\ h.checked = l.checked
       /\ h.valid = l.valid /\ h.validated = l.validated /\ h.problems = l.problems /\ h.flags = l.flags
       /\ (h.stored <=> b) /\ h.nodes = m
  <2>1. m \in Nat
    BY <1>9 DEF m
  <2> QED
    BY <1>2, <1>14, <2>1 DEF GraphRow, Pcs
<1>16. WithinBudget(h)
  <2>1. m <= RecursionLimit
    BY <1>9 DEF m
  <2> QED
    BY <1>8, <1>15, <2>1 DEF GraphSound, WithinBudget
<1>17. Decided(h) /\ Carried(h) /\ Checked(r, h, facts')
  BY <1>8, <1>15 DEF GraphSound, Decided, Carried, Checked
<1>18. Traced(r, h, facts')
  <2> SUFFICES ASSUME h.stored, NEW f \in h.diff, f.verdict # "duplicate"
               PROVE  Told(h.flags, f) \/ KeptOf(r, facts', f)
    BY DEF Traced
  <2>1. In(l.valid, f) \/ Told(l.problems, f)
    BY <1>3, <1>8, <1>15 DEF GraphSound, Carried
  <2>2. CASE Told(l.problems, f)
    BY <1>3, <1>15, <2>2
  <2>3. CASE In(l.valid, f)
    <3>1. PICK c \in l.valid : c.key = f.key /\ c.value = f.value /\ c.verdict # "duplicate"
      BY <2>3 DEF In
    <3>2. KeptOf(r, facts', c)
      BY <1>12, <1>15, <3>1 DEF Highlights
    <3> QED
      BY <3>1, <3>2 DEF KeptOf
  <2> QED
    BY <2>1, <2>2, <2>3
<1>19. GraphSound(r, h, facts')
  BY <1>16, <1>17, <1>18 DEF GraphSound
<1>20. graph' \in [Runs -> GraphRow] /\ graph'[r] = h /\ \A u \in Runs : u # r => graph'[u] = graph[u]
  BY <1>13, <1>15 DEF HistoryInv
<1>21. ASSUME NEW u \in Runs
       PROVE  GraphSound(u, graph'[u], facts')
  <2>1. CASE u = r
    BY <1>19, <1>20, <2>1
  <2>2. CASE u # r
    <3>1. \A g, fs, gs : Grows(fs, gs) /\ GraphSound(u, g, fs) => GraphSound(u, g, gs)
      BY GrowsSound
    <3>2. GraphSound(u, graph[u], facts)
      BY GraphsAre
    <3> QED
      BY <1>6, <1>20, <2>2, <3>1, <3>2
  <2> QED
    BY <2>1, <2>2
<1>22. DepthsAre'
  BY <1>1, <1>13, <1>15, LeaveKeeps
<1> QED
  BY <1>6, <1>20, <1>21, <1>22 DEF HistoryInv

-----------------------------------------------------------------------------
(* The invariant, and what follows of it.                                  *)

LEMMA HistoryStarts == ASSUME RunsAreSound, HistoryInit PROVE HistoryInv
<1>1. PICK S \in Plans : graph = [r \in Runs |-> IF r \in S THEN NewGraph ELSE [NewGraph EXCEPT !.pc = "done"]]
  BY DEF HistoryInit
<1>2. /\ facts = <<>> /\ depth = [c \in Conns |-> 0]
  BY DEF HistoryInit, Conns
<1>3. IsFiniteSet({}) /\ Cardinality({}) = 0
  BY FS_EmptySet
<1>4. /\ RecursionLimit \in Nat /\ RecursionLimit >= 1 /\ Attempts \in Nat /\ Attempts >= 1
  <2>1. NodesBefore(0 + 1) + 2 <= RecursionLimit /\ NodesBefore(0 + 1) = 3
    BY AttemptsAre
  <2> QED
    BY <2>1, AttemptsAre
<1>5. ASSUME NEW p \in {"prepare", "done"}
      PROVE  LET g == [NewGraph EXCEPT !.pc = p]
             IN  g \in GraphRow /\ ~g.in /\ \A r \in Runs : GraphSound(r, g, facts)
  <2> DEFINE g == [NewGraph EXCEPT !.pc = p]
  <2>1. g \in GraphRow /\ ~g.in /\ g.pc = p /\ g.diffs = 0 /\ g.composes = 0 /\ g.impacts = 0 /\ g.nodes = 1
        /\ g.impact = "none" /\ ~g.validated /\ ~g.stored /\ g.diff = {} /\ g.checked = {} /\ g.valid = {}
    BY DEF NewGraph, GraphRow, Pcs, Results
  <2> HIDE DEF g
  <2>2. WithinBudget(g)
    BY <1>4, <2>1 DEF WithinBudget
  <2>3. Decided(g) /\ Carried(g)
    BY <1>3, <2>1 DEF Decided, Carried
  <2>4. \A r \in Runs : GraphSound(r, g, facts)
    BY <2>1, <2>2, <2>3 DEF GraphSound, Checked, Traced
  <2> QED
    BY <2>1, <2>4 DEF g
<1>6. NewGraph = [NewGraph EXCEPT !.pc = "prepare"]
  BY DEF NewGraph
<1>7. \A r \in Runs : \E p \in {"prepare", "done"} : graph[r] = [NewGraph EXCEPT !.pc = p]
  BY <1>1, <1>6
<1>8. \A r \in Runs : graph[r] \in GraphRow /\ ~graph[r].in /\ GraphSound(r, graph[r], facts)
  BY <1>5, <1>7
<1>9. graph \in [Runs -> GraphRow]
  BY <1>1, <1>8
<1>10. DepthsAre
  <2>1. \A c \in Conns : InTransaction(graph, c) = {}
    BY <1>8 DEF InTransaction
  <2> QED
    BY <1>2, <1>3, <2>1 DEF DepthsAre
<1>11. FactsSound
  BY <1>2 DEF FactsSound, UpdatesAreReal
<1> QED
  BY <1>8, <1>9, <1>10, <1>11 DEF HistoryInv

LEMMA HistoryStutters == ASSUME HistoryInv, UNCHANGED historyVars PROVE HistoryInv'
<1>1. facts' = facts /\ depth' = depth /\ graph' = graph
  BY DEF historyVars
<1> QED
  BY <1>1 DEF HistoryInv, FactsSound, UpdatesAreReal, DepthsAre

LEMMA HistorySteps == ASSUME RunsAreSound, HistoryInv, NEW r \in Runs, GraphStep(r) PROVE HistoryInv'
<1>1. CASE Enter(r)
  BY <1>1, EnterKeeps
<1>2. CASE Refused(r)
  BY <1>2, RefusedKeeps
<1>3. CASE Prepare(r)
  BY <1>3, GraphPrepareKeeps
<1>4. CASE Search(r)
  BY <1>4, SearchKeeps
<1>5. CASE Diff(r)
  BY <1>5, DiffKeeps
<1>6. CASE Compose(r)
  BY <1>6, ComposeKeeps
<1>7. CASE Impact(r)
  BY <1>7, ImpactKeeps
<1>8. CASE Promote(r)
  BY <1>8, PromoteKeeps
<1>9. CASE Check(r)
  BY <1>9, CheckKeeps
<1>10. CASE Store(r)
  BY <1>10, StoreKeeps
<1> QED
  BY <1>1, <1>2, <1>3, <1>4, <1>5, <1>6, <1>7, <1>8, <1>9, <1>10 DEF GraphStep

\* What a graph carries between its nodes, the invariant that the claims below rest on:
\* graph.py keeps it from supervisor to supervisor, whatever the other topics of the report
\* do on the same connection, and change_history_facts.py keeps it of the rows.
THEOREM HistoryInvariant == ASSUME RunsAreSound PROVE HistorySpec => []HistoryInv
<1>1. HistoryInit => HistoryInv
  BY HistoryStarts
<1>2. HistoryInv /\ [HistoryNext]_historyVars => HistoryInv'
  BY HistoryStutters, HistorySteps DEF HistoryNext
<1> QED
  BY <1>1, <1>2, PTL DEF HistorySpec

LEMMA HistoryFollows == ASSUME RunsAreSound, HistoryInv PROVE HistoryIsTrue
<1>1. HistoryTypeOK
  <2>1. \A i \in DOMAIN facts :
          /\ facts[i].verdict \in {"new", "updated"} /\ facts[i].active \in BOOLEAN
          /\ facts[i].supersedes \in 1 .. (i - 1) \cup {Nil}
    <3>1. \A i \in DOMAIN facts : facts[i] \in FactRow
      BY DEF HistoryInv, FactsSound
    <3> QED
      BY <3>1 DEF HistoryInv, FactsSound, FactRow
  <2>2. \A c \in DOMAIN depth : depth[c] = Cardinality({r \in Runs : ConnOf[r] = c /\ graph[r].in})
    BY DEF HistoryInv, DepthsAre, InTransaction
  <2>3. \A r \in Runs : graph[r].pc \in Pcs /\ graph[r].diffs \in Nat /\ graph[r].in \in BOOLEAN
    BY GraphsAre DEF GraphRow
  <2> QED
    BY <2>1, <2>2, <2>3 DEF HistoryTypeOK, Pcs
<1>2. WithinRecursionLimit
  BY GraphsAre DEF WithinRecursionLimit, GraphSound, WithinBudget
<1>3. NothingDroppedSilently
  <2>1. \A r \in Runs : Traced(r, graph[r], facts)
    BY GraphsAre DEF GraphSound
  <2> QED
    BY <2>1 DEF NothingDroppedSilently, Traced, Told, KeptOf
<1>4. UpdatesAreReal
  BY DEF HistoryInv, FactsSound
<1> QED
  BY <1>1, <1>2, <1>3, <1>4 DEF HistoryIsTrue

\* The change history is true, of however many runs, topics and connections: the retries and
\* reworks of chg_001 stay within the recursion limit (graph.py, _supervisor), a stored run
\* has stored, known or flagged all it found, and an update replaces a fact of its topic that
\* says otherwise (validation.py, persist_change_facts).
THEOREM HistoryAlwaysTrue == ASSUME RunsAreSound PROVE HistorySpec => []HistoryIsTrue
<1>1. HistoryInv => HistoryIsTrue
  BY HistoryFollows
<1> QED
  BY <1>1, HistoryInvariant, PTL

-----------------------------------------------------------------------------
(* Assistant.                                                              *)

AskFields == DOMAIN Unasked
Texts == {Keyword} \cup Suggestions
Attempting == {"collect", "dates", "embed", "scores", "history"}
Written == {"route", "write", "done"}
Judged == Written \cup {"record", "reformulate"}
AskSteps == {"plan", "cold", "failed"} \cup Attempting \cup Judged

\* The first query, and every one that is tried again, is one that was not tried.
TriedSound(x) ==
  /\ x.query \in Texts /\ x.tried \in Seq(Texts) /\ IsInjective(x.tried)
  /\ Len(x.tried) <= MaxReformulations + 1
  /\ x.at = "plan" => x.tried = <<>>
  /\ x.at \in {"cold", "record", "route"} \cup Attempting =>
       x.query \notin Range(x.tried) /\ Len(x.tried) <= MaxReformulations
  /\ x.at = "reformulate" =>
       Len(x.tried) <= MaxReformulations /\ ~x.unembedded /\ x.failures # Sources

\* Clusters are made of what the filters left, or there are none.
FilterSound(x) ==
  /\ x.at \in {"dates", "embed"} => x.clusters = <<>> /\ ~x.unembedded
  /\ x.at \in {"scores", "history"} \cup Judged =>
       /\ x.kept = _basic_filter(x.docs, x.seen, x.now)
       /\ \/ /\ x.kept # <<>> /\ ~x.unembedded
             /\ x.clusters = greedy_clusters(similarity_cutoff(x.kept))
          \/ x.clusters = <<>> /\ (x.kept # <<>> => x.unembedded)

\* What a request publishes, of the history that it found.
OfToday(x) ==
  publish_cutoff(x.clusters, x.cold,
    Survivors(x.clusters, x.cold, x.seen, load_recent_report_items(x.judged, x.now)))

JudgeSound(x) ==
  /\ x.at \in Judged => (x.mode = "daily" <=> OfToday(x) # {})
  /\ x.at \in Judged /\ x.mode = "daily" => x.items = OfToday(x)
  /\ x.at = "record" => x.mode = "daily"

CallTyped(x) ==
  /\ x = [f \in AskFields |-> x[f]]
  /\ x.at \in AskSteps /\ x.now \in Nat /\ x.known \in [Urls -> Int]

Asked(x) == CallTyped(x) /\ TriedSound(x) /\ FilterSound(x) /\ JudgeSound(x)

\* A row of an earlier day of the last week, as the attempt found it when it started.
Recent(x, e) == x.known[e] \in (x.now - Lookback) .. (x.now - 1) /\ x.known[e] >= 0

\* Until it has judged, the rows that an attempt started from are as they were.
HistoryKept(r) ==
  ask[r].at \in Attempting =>
    \A e \in Urls : Recent(ask[r], e) /\ ~Rewritten(r, e) => reported[store(r)][e] = ask[r].known[e]

PublishesNews(r) ==
  ask[r].at = "record" =>
    \A d \in ask[r].items, e \in Urls : Recent(ask[r], e) /\ ~Rewritten(r, e) => Alike(d, e) # 3

AskTyped ==
  /\ day \in Nat
  /\ chosen \in [Range(Process) -> Stores \cup {""}]
  /\ reported \in [Stores -> [Urls -> Int]]
  /\ ask = [r \in Calls |-> ask[r]]

AskInv ==
  /\ AskTyped
  /\ \A r \in Calls :
       /\ Asked(ask[r])
       /\ ask[r].at \notin {"plan", "cold"} => store(r) # ""
       /\ HistoryKept(r) /\ PublishesNews(r)

LEMMA FieldsAre ==
  AskFields = {"at", "now", "query", "tried", "cold", "known", "docs", "seen", "judged", "kept",
               "filtered", "failures", "unembedded", "clusters", "rejected", "mode", "items", "outcome"}
  BY DEF AskFields, Unasked

\* A step of a request changes the fields it names.
LEMMA ServedIs ==
  ASSUME AskInv, NEW r \in Calls, NEW c, DOMAIN c \subseteq AskFields, To(r, c)
  PROVE  /\ ask' = [q \in Calls |-> ask'[q]]
         /\ \A q \in Calls : q # r => ask'[q] = ask[q]
         /\ ask'[r] = [f \in AskFields |-> ask'[r][f]]
         /\ \A f \in AskFields : ask'[r][f] = IF f \in DOMAIN c THEN c[f] ELSE ask[r][f]
<1>1. ask = [q \in Calls |-> ask[q]] /\ DOMAIN ask[r] = AskFields
  <2>1. ask[r] = [f \in AskFields |-> ask[r][f]]
    BY DEF AskInv, Asked, CallTyped
  <2> HIDE DEF AskFields
  <2>2. DOMAIN ask[r] = AskFields
    BY <2>1
  <2> QED
    BY <2>2 DEF AskInv, AskTyped
<1> DEFINE y == [f \in AskFields |-> IF f \in DOMAIN c THEN c[f] ELSE ask[r][f]]
<1>2. ask' = [ask EXCEPT ![r] = y]
  BY <1>1 DEF To
<1>3. y = [f \in AskFields |-> y[f]]
  OBVIOUS
<1>4. \A f \in AskFields : y[f] = IF f \in DOMAIN c THEN c[f] ELSE ask[r][f]
  OBVIOUS
<1> HIDE DEF y
<1>5. ask' = [q \in Calls |-> ask'[q]] /\ (\A q \in Calls : q # r => ask'[q] = ask[q]) /\ ask'[r] = y
  BY <1>1, <1>2
<1> QED
  BY <1>3, <1>4, <1>5

\* What a request has written stays in view of the others.
LEMMA RewrittenStays ==
  ASSUME AskInv, AskingIsSound, NEW r \in Calls,
         \A q \in Calls : q # r => ask'[q] = ask[q],
         \A q \in Calls : store(q) # "" => (store(q))' = store(q),
         ask[r].at \in Written /\ ask[r].mode = "daily" =>
           /\ ask'[r].at \in Written /\ ask'[r].mode = "daily"
           /\ ask'[r].items = ask[r].items /\ ask'[r].now = ask[r].now,
         NEW q \in Calls, store(q) # "", ask'[q].known = ask[q].known,
         NEW e \in Urls, Rewritten(q, e)
  PROVE  Rewritten(q, e)'
<1>1. PICK z \in Records \ {q} :
        /\ store(z) = store(q) /\ ask[z].mode = "daily" /\ ask[z].at \in {"route", "write", "done"}
        /\ \/ e \in ask[z].items /\ ask[z].now # ask[q].known[e]
           \/ ask[z].now > ask[q].known[e] + Lookback
  BY DEF Rewritten
<1> z \in Calls
  BY DEF AskingIsSound
<1>2. (store(z))' = (store(q))'
  BY <1>1
<1>3. /\ ask'[z].mode = "daily" /\ ask'[z].at \in {"route", "write", "done"}
      /\ ask'[z].items = ask[z].items /\ ask'[z].now = ask[z].now
  BY <1>1 DEF Written
<1> QED
  BY <1>1, <1>2, <1>3 DEF Rewritten

\* What a step of a request must show when it leaves the stores as they are.
LEMMA QuietStep ==
  ASSUME AskInv, AskingIsSound, NEW r \in Calls, day' = day, chosen' = chosen, reported' = reported,
         ask' = [q \in Calls |-> ask'[q]], \A q \in Calls : q # r => ask'[q] = ask[q],
         Asked(ask'[r]),
         ask[r].at \in Written /\ ask[r].mode = "daily" =>
           /\ ask'[r].at \in Written /\ ask'[r].mode = "daily"
           /\ ask'[r].items = ask[r].items /\ ask'[r].now = ask[r].now,
         ask'[r].at \notin {"plan", "cold"} => ask[r].at \notin {"plan", "cold"},
         ask'[r].at \in Attempting =>
           /\ ask[r].at \in Attempting
           /\ ask'[r].known = ask[r].known /\ ask'[r].now = ask[r].now,
         PublishesNews(r)'
  PROVE  AskInv'
<1>1. AskTyped'
  BY DEF AskInv, AskTyped
<1>2. \A q \in Calls : (store(q))' = store(q)
  BY DEF store
<1>3. ASSUME NEW q \in Calls PROVE Asked(ask[q])' /\ (ask'[q].at \notin {"plan", "cold"} => (store(q))' # "")
  <2>1. CASE q = r
    BY <1>2, <2>1 DEF AskInv
  <2>2. CASE q # r
    BY <1>2, <2>2 DEF AskInv
  <2> QED
    BY <2>1, <2>2
<1>4. ASSUME NEW q \in Calls PROVE HistoryKept(q)'
  <2> SUFFICES ASSUME ask'[q].at \in Attempting, NEW e \in Urls, Recent(ask'[q], e), ~(Rewritten(q, e)')
               PROVE  (reported[store(q)][e])' = ask'[q].known[e]
    BY DEF HistoryKept
  <2>1. ask[q].at \in Attempting /\ ask'[q].known = ask[q].known /\ ask'[q].now = ask[q].now
    OBVIOUS
  <2>2. store(q) # ""
    BY <2>1 DEF AskInv, Attempting
  <2>3. ~Rewritten(q, e)
    BY <1>2, <2>1, <2>2, RewrittenStays
  <2>4. Recent(ask[q], e)
    BY <2>1 DEF Recent
  <2> QED
    BY <1>2, <2>1, <2>3, <2>4 DEF AskInv, HistoryKept
<1>5. ASSUME NEW q \in Calls PROVE PublishesNews(q)'
  <2>1. CASE q = r
    BY <2>1
  <2>2. CASE q # r
    <3> SUFFICES ASSUME ask'[q].at = "record", NEW d \in ask'[q].items, NEW e \in Urls,
                        Recent(ask'[q], e), ~(Rewritten(q, e)')
                 PROVE  Alike(d, e) # 3
      BY DEF PublishesNews
    <3>1. ask'[q] = ask[q]
      BY <2>2
    <3>2. store(q) # ""
      BY <3>1 DEF AskInv
    <3>3. ~Rewritten(q, e)
      BY <1>2, <3>1, <3>2, RewrittenStays
    <3> QED
      BY <3>1, <3>3 DEF AskInv, PublishesNews
  <2> QED
    BY <2>1, <2>2
<1> QED
  BY <1>1, <1>3, <1>4, <1>5 DEF AskInv

LEMMA PlanKeeps == ASSUME AskInv, AskingIsSound, NEW r \in Calls, _plan(r) PROVE AskInv'
<1> DEFINE c == [at |-> "cold", query |-> Keyword]
           x == ask[r]
           y == ask'[r]
<1>1. x.at = "plan" /\ To(r, c) /\ UNCHANGED <<day, chosen, collected, reported>>
  BY DEF _plan
<1>2. DOMAIN c = {"at", "query"} /\ c["at"] = "cold" /\ c["query"] = Keyword
  OBVIOUS
<1> HIDE DEF c
<1>3. /\ ask' = [q \in Calls |-> ask'[q]] /\ (\A q \in Calls : q # r => ask'[q] = ask[q])
      /\ y = [f \in AskFields |-> y[f]]
      /\ \A f \in AskFields : y[f] = IF f \in DOMAIN c THEN c[f] ELSE x[f]
  BY <1>1, <1>2, ServedIs, FieldsAre
<1>4. y.at = "cold" /\ y.query = Keyword /\ y.now = x.now /\ y.known = x.known /\ y.tried = x.tried
  BY <1>2, <1>3, FieldsAre
<1>5. CallTyped(y)
  BY <1>3, <1>4 DEF AskInv, Asked, CallTyped, AskSteps
<1>6. TriedSound(y)
  <2>1. x.tried = <<>> /\ x.tried \in Seq(Texts) /\ IsInjective(x.tried) /\ Len(x.tried) <= MaxReformulations + 1
    BY <1>1 DEF AskInv, Asked, TriedSound
  <2>2. Keyword \notin Range(<<>>) /\ Len(<<>>) <= MaxReformulations
    <3>1. Len(<<>>) = 0 /\ DOMAIN <<>> = {}
      OBVIOUS
    <3>2. Keyword \notin Range(<<>>)
      BY <3>1 DEF Range
    <3>3. MaxReformulations \in Nat
      BY DEF AskingIsSound
    <3>4. Len(<<>>) <= MaxReformulations
      BY <3>1, <3>3
    <3> QED
      BY <3>2, <3>4
  <2> QED
    BY <1>4, <2>1, <2>2 DEF TriedSound, Texts
<1>7. FilterSound(y) /\ JudgeSound(y)
  BY <1>4 DEF FilterSound, JudgeSound, Judged, Written
<1>8. PublishesNews(r)'
  BY <1>4 DEF PublishesNews
<1> QED
  BY <1>1, <1>3, <1>4, <1>5, <1>6, <1>7, <1>8, QuietStep DEF Asked, Attempting, Written

LEMMA AskCollectKeeps == ASSUME AskInv, AskingIsSound, NEW r \in Calls, Collect(r) PROVE AskInv'
<1>0. PICK answers \in _collect_sources(ask[r].query) :
        To(r, [at |-> "dates", docs |-> collect_documents(ask[r].query, answers),
               failures |-> {s \in Sources : ~answers[s]},
               unembedded |-> FALSE, kept |-> <<>>, filtered |-> 0, clusters |-> <<>>,
               rejected |-> 0, items |-> {}, mode |-> "", outcome |-> ""])
  BY DEF Collect
<1> DEFINE c == [at |-> "dates", docs |-> collect_documents(ask[r].query, answers),
                 failures |-> {s \in Sources : ~answers[s]},
                 unembedded |-> FALSE, kept |-> <<>>, filtered |-> 0, clusters |-> <<>>,
                 rejected |-> 0, items |-> {}, mode |-> "", outcome |-> ""]
           x == ask[r]
           y == ask'[r]
<1>1. x.at = "collect" /\ To(r, c) /\ UNCHANGED <<day, chosen, collected, reported>>
  BY <1>0 DEF Collect
<1>2. /\ DOMAIN c = {"at", "docs", "failures", "unembedded", "kept", "filtered", "clusters", "rejected",
                     "items", "mode", "outcome"}
      /\ c["at"] = "dates" /\ c["unembedded"] = FALSE /\ c["clusters"] = <<>>
  OBVIOUS
<1> HIDE DEF c
<1>3. /\ ask' = [q \in Calls |-> ask'[q]] /\ (\A q \in Calls : q # r => ask'[q] = ask[q])
      /\ y = [f \in AskFields |-> y[f]]
      /\ \A f \in AskFields : y[f] = IF f \in DOMAIN c THEN c[f] ELSE x[f]
  BY <1>1, <1>2, ServedIs, FieldsAre
<1>4. /\ y.at = "dates" /\ ~y.unembedded /\ y.clusters = <<>> /\ y.query = x.query
      /\ y.now = x.now /\ y.known = x.known /\ y.tried = x.tried
  BY <1>2, <1>3, FieldsAre
<1>5. CallTyped(y)
  BY <1>3, <1>4 DEF AskInv, Asked, CallTyped, AskSteps, Attempting
<1>6. TriedSound(y)
  BY <1>1, <1>4 DEF AskInv, Asked, TriedSound, Attempting
<1>7. FilterSound(y) /\ JudgeSound(y)
  BY <1>4 DEF FilterSound, JudgeSound, Judged, Written
<1>8. PublishesNews(r)'
  BY <1>4 DEF PublishesNews
<1> QED
  BY <1>1, <1>3, <1>4, <1>5, <1>6, <1>7, <1>8, QuietStep DEF Asked, Attempting, Written

LEMMA AskResolveKeeps == ASSUME AskInv, AskingIsSound, NEW r \in Calls, _resolve_dates(r) PROVE AskInv'
<1> DEFINE x == ask[r]
           y == ask'[r]
<1>0. PICK c : /\ To(r, c)
               /\ \/ DOMAIN c = {"at"} /\ c["at"] = "failed"
                  \/ DOMAIN c = {"at", "seen"} /\ c["at"] = "embed"
  <2> DEFINE failed == [at |-> "failed"]
             embed(rows) == [at |-> "embed",
                             seen |-> [d \in Urls |->
                               IF r \in Records THEN rows[d].seen
                               ELSE IF rows[d].seen >= 0 THEN rows[d].seen ELSE ask[r].now]]
  <2>1. \E rows : To(r, failed) \/ To(r, embed(rows))
    BY DEF _resolve_dates
  <2>2. DOMAIN failed = {"at"} /\ failed["at"] = "failed"
    OBVIOUS
  <2>3. \A rows : DOMAIN embed(rows) = {"at", "seen"} /\ embed(rows)["at"] = "embed"
    OBVIOUS
  <2> HIDE DEF failed, embed
  <2> QED
    BY <2>1, <2>2, <2>3
<1>1. x.at = "dates" /\ UNCHANGED <<day, chosen, reported>>
  BY DEF _resolve_dates
<1>2. DOMAIN c \subseteq AskFields /\ DOMAIN c \subseteq {"at", "seen"} /\ "at" \in DOMAIN c
  BY <1>0, FieldsAre
<1>3. /\ ask' = [q \in Calls |-> ask'[q]] /\ (\A q \in Calls : q # r => ask'[q] = ask[q])
      /\ y = [f \in AskFields |-> y[f]]
      /\ \A f \in AskFields : y[f] = IF f \in DOMAIN c THEN c[f] ELSE x[f]
  BY <1>0, <1>2, ServedIs, FieldsAre
<1>4. /\ y.at \in {"failed", "embed"} /\ y.unembedded = x.unembedded /\ y.clusters = x.clusters
      /\ y.query = x.query /\ y.now = x.now /\ y.known = x.known /\ y.tried = x.tried
  BY <1>0, <1>2, <1>3, FieldsAre
<1>5. CallTyped(y)
  BY <1>3, <1>4 DEF AskInv, Asked, CallTyped, AskSteps, Attempting
<1>6. TriedSound(y)
  BY <1>1, <1>4 DEF AskInv, Asked, TriedSound, Attempting
<1>7. FilterSound(y) /\ JudgeSound(y)
  BY <1>1, <1>4 DEF AskInv, Asked, FilterSound, JudgeSound, Judged, Written
<1>8. PublishesNews(r)'
  BY <1>4 DEF PublishesNews
<1> QED
  BY <1>1, <1>3, <1>4, <1>5, <1>6, <1>7, <1>8, QuietStep DEF Asked, Attempting, Written

LEMMA EmbedKeeps == ASSUME AskInv, AskingIsSound, NEW r \in Calls, Embed(r) PROVE AskInv'
<1> DEFINE x == ask[r]
           y == ask'[r]
           kept == _basic_filter(x.docs, x.seen, x.now)
           groups == greedy_clusters(similarity_cutoff(kept))
<1>0. PICK c : /\ To(r, c)
               /\ \/ /\ DOMAIN c = {"at", "kept", "filtered", "clusters"} /\ c["at"] = "scores"
                     /\ c["kept"] = kept /\ c["clusters"] = groups /\ kept # <<>>
                  \/ /\ DOMAIN c = {"at", "kept", "unembedded"} /\ c["at"] = "history"
                     /\ c["kept"] = kept /\ c["unembedded"] = (kept # <<>>)
  <2> DEFINE near == similarity_cutoff(kept)
             good == [at |-> "scores", kept |-> kept, filtered |-> Len(near), clusters |-> groups]
             poor == [at |-> "history", kept |-> kept, unembedded |-> kept # <<>>]
  <2>1. (To(r, good) /\ kept # <<>>) \/ To(r, poor)
    BY DEF Embed
  <2>2. /\ DOMAIN good = {"at", "kept", "filtered", "clusters"} /\ good["at"] = "scores"
        /\ good["kept"] = kept /\ good["clusters"] = groups
    OBVIOUS
  <2>3. /\ DOMAIN poor = {"at", "kept", "unembedded"} /\ poor["at"] = "history"
        /\ poor["kept"] = kept /\ poor["unembedded"] = (kept # <<>>)
    OBVIOUS
  <2> HIDE DEF good, poor, kept, groups
  <2> QED
    BY <2>1, <2>2, <2>3
<1>1. x.at = "embed" /\ UNCHANGED <<day, chosen, collected, reported>>
  BY DEF Embed
<1> HIDE DEF kept, groups
<1>2. /\ DOMAIN c \subseteq AskFields
      /\ DOMAIN c \subseteq {"at", "kept", "filtered", "clusters", "unembedded"} /\ "at" \in DOMAIN c
  BY <1>0, FieldsAre
<1>3. /\ ask' = [q \in Calls |-> ask'[q]] /\ (\A q \in Calls : q # r => ask'[q] = ask[q])
      /\ y = [f \in AskFields |-> y[f]]
      /\ \A f \in AskFields : y[f] = IF f \in DOMAIN c THEN c[f] ELSE x[f]
  BY <1>0, <1>2, ServedIs, FieldsAre
<1>4. /\ y.at \in {"scores", "history"} /\ y.query = x.query /\ y.now = x.now /\ y.known = x.known
      /\ y.tried = x.tried /\ y.docs = x.docs /\ y.seen = x.seen
  BY <1>0, <1>2, <1>3, FieldsAre
<1>5. CallTyped(y)
  BY <1>3, <1>4 DEF AskInv, Asked, CallTyped, AskSteps, Attempting
<1>6. TriedSound(y)
  BY <1>1, <1>4 DEF AskInv, Asked, TriedSound, Attempting
<1>7. FilterSound(y) /\ JudgeSound(y)
  <2>1. x.clusters = <<>> /\ ~x.unembedded
    BY <1>1 DEF AskInv, Asked, FilterSound
  <2>2. kept = _basic_filter(y.docs, y.seen, y.now) /\ groups = greedy_clusters(similarity_cutoff(kept))
    BY <1>4 DEF kept, groups
  <2>3. /\ y.kept = kept
        /\ \/ kept # <<>> /\ ~y.unembedded /\ y.clusters = groups
           \/ y.clusters = <<>> /\ (kept # <<>> => y.unembedded)
    BY <1>0, <1>3, <2>1, FieldsAre
  <2> QED
    BY <1>4, <2>2, <2>3 DEF FilterSound, JudgeSound, Judged, Written
<1>8. PublishesNews(r)'
  BY <1>4 DEF PublishesNews
<1> QED
  BY <1>1, <1>3, <1>4, <1>5, <1>6, <1>7, <1>8, QuietStep DEF Asked, Attempting, Written

LEMMA ScoresKeep == ASSUME AskInv, AskingIsSound, NEW r \in Calls, RecordScores(r) PROVE AskInv'
<1> DEFINE x == ask[r]
           y == ask'[r]
<1>0. PICK c : To(r, c) /\ DOMAIN c = {"at"} /\ c["at"] \in {"failed", "history"}
  <2> DEFINE failed == [at |-> "failed"]
             judge == [at |-> "history"]
  <2>1. To(r, failed) \/ To(r, judge)
    BY DEF RecordScores
  <2>2. /\ DOMAIN failed = {"at"} /\ failed["at"] = "failed"
        /\ DOMAIN judge = {"at"} /\ judge["at"] = "history"
    OBVIOUS
  <2> HIDE DEF failed, judge
  <2> QED
    BY <2>1, <2>2
<1>1. x.at = "scores" /\ UNCHANGED <<day, chosen, reported>>
  BY DEF RecordScores
<1>2. DOMAIN c \subseteq AskFields
  BY <1>0, FieldsAre
<1>3. /\ ask' = [q \in Calls |-> ask'[q]] /\ (\A q \in Calls : q # r => ask'[q] = ask[q])
      /\ y = [f \in AskFields |-> y[f]]
      /\ \A f \in AskFields : y[f] = IF f \in DOMAIN c THEN c[f] ELSE x[f]
  BY <1>0, <1>2, ServedIs, FieldsAre
<1>4. /\ y.at \in {"failed", "history"} /\ \A f \in AskFields : f # "at" => y[f] = x[f]
  BY <1>0, <1>2, <1>3, FieldsAre
<1>9. /\ y.query = x.query /\ y.now = x.now /\ y.known = x.known /\ y.tried = x.tried
      /\ y.docs = x.docs /\ y.seen = x.seen /\ y.kept = x.kept /\ y.unembedded = x.unembedded
      /\ y.clusters = x.clusters
  BY <1>4, FieldsAre
<1>5. CallTyped(y)
  BY <1>3, <1>4, <1>9 DEF AskInv, Asked, CallTyped, AskSteps, Attempting
<1>6. TriedSound(y)
  BY <1>1, <1>4, <1>9 DEF AskInv, Asked, TriedSound, Attempting
<1>7. FilterSound(y) /\ JudgeSound(y)
  BY <1>1, <1>4, <1>9 DEF AskInv, Asked, FilterSound, JudgeSound, Judged, Written
<1>8. PublishesNews(r)'
  BY <1>4 DEF PublishesNews
<1> QED
  BY <1>1, <1>3, <1>4, <1>5, <1>6, <1>7, <1>8, <1>9, QuietStep DEF Asked, Attempting, Written

\* What is published was no duplicate of a row of an earlier day that is as it was.
LEMMA NewsIs ==
  ASSUME NEW clusters, NEW cold, NEW seen, NEW history, NEW now \in Nat, NEW known \in [Urls -> Int],
         AskingIsSound, NEW e \in Urls, known[e] \in (now - Lookback) .. (now - 1), known[e] >= 0,
         history[e] = known[e],
         NEW d \in publish_cutoff(clusters, cold,
                     Survivors(clusters, cold, seen, load_recent_report_items(history, now)))
  PROVE  Alike(d, e) # 3
<1> DEFINE rows == load_recent_report_items(history, now)
           S == Survivors(clusters, cold, seen, rows)
<1>1. PICK i \in S : d = representative(clusters[i], cold)
  BY DEF publish_cutoff
<1>2. check_duplicate(d, seen, rows) # "duplicate"
  BY <1>1 DEF Survivors
<1>3. e \in DOMAIN rows
  <2>1. known[e] \in Int /\ Lookback \in Nat
    BY DEF AskingIsSound
  <2>2. history[e] >= 0 /\ history[e] >= now - Lookback /\ history[e] # now
    BY <2>1
  <2> QED
    BY <2>2 DEF load_recent_report_items
<1> QED
  BY <1>2, <1>3 DEF check_duplicate

LEMMA JudgeKeeps == ASSUME AskInv, AskingIsSound, NEW r \in Calls, Judge(r) PROVE AskInv'
<1> DEFINE x == ask[r]
           y == ask'[r]
           history == reported[store(r)]
           rows == load_recent_report_items(history, x.now)
           daily == publish_cutoff(x.clusters, x.cold, Survivors(x.clusters, x.cold, x.seen, rows))
<1>0. PICK c :
        /\ To(r, c) /\ DOMAIN c = {"at", "mode", "items", "judged", "rejected"} /\ c["judged"] = history
        /\ \/ c["at"] = "record" /\ c["mode"] = "daily" /\ c["items"] = daily /\ daily # {}
           \/ c["at"] = "route" /\ c["mode"] # "daily" /\ daily = {}
  <2> DEFINE news(n) == [at |-> "record", mode |-> "daily", items |-> daily, judged |-> history, rejected |-> n]
             week(m, w, n) == [at |-> "route", mode |-> m, items |-> w, judged |-> history, rejected |-> n]
  <2>1. \E n, m, w : \/ daily # {} /\ To(r, news(n))
                     \/ daily = {} /\ m \in {"evergreen", "weekly"} /\ To(r, week(m, w, n))
    <3> DEFINE weekly == _weekly_trend_items(store(r), x.now)
               mode == IF weekly = {} THEN "evergreen" ELSE "weekly"
               n == Len(x.clusters) - Cardinality(Survivors(x.clusters, x.cold, x.seen, rows))
    <3>1. To(r, IF daily # {} THEN news(n) ELSE week(mode, weekly, n))
      BY DEF Judge
    <3>2. mode \in {"evergreen", "weekly"}
      OBVIOUS
    <3> HIDE DEF news, week, mode, weekly, n, daily
    <3> QED
      BY <3>1, <3>2
  <2>2. \A n : /\ DOMAIN news(n) = {"at", "mode", "items", "judged", "rejected"} /\ news(n)["judged"] = history
               /\ news(n)["at"] = "record" /\ news(n)["mode"] = "daily" /\ news(n)["items"] = daily
    OBVIOUS
  <2>3. \A m, w, n : /\ DOMAIN week(m, w, n) = {"at", "mode", "items", "judged", "rejected"}
                     /\ week(m, w, n)["judged"] = history
                     /\ week(m, w, n)["at"] = "route" /\ week(m, w, n)["mode"] = m
    OBVIOUS
  <2>4. "evergreen" # "daily" /\ "weekly" # "daily"
    OBVIOUS
  <2> HIDE DEF news, week, daily, history
  <2> QED
    BY <2>1, <2>2, <2>3, <2>4
<1>1. x.at = "history" /\ UNCHANGED <<day, chosen, collected, reported>>
  BY DEF Judge
<1>2. DOMAIN c \subseteq AskFields
  BY <1>0, FieldsAre
<1>3. /\ ask' = [q \in Calls |-> ask'[q]] /\ (\A q \in Calls : q # r => ask'[q] = ask[q])
      /\ y = [f \in AskFields |-> y[f]]
      /\ \A f \in AskFields : y[f] = IF f \in DOMAIN c THEN c[f] ELSE x[f]
  BY <1>0, <1>2, ServedIs, FieldsAre
<1>4. /\ y.at \in {"record", "route"} /\ y.judged = history
      /\ \A f \in AskFields \ {"at", "mode", "items", "judged", "rejected"} : y[f] = x[f]
  BY <1>0, <1>2, <1>3, FieldsAre
<1>9. /\ y.query = x.query /\ y.now = x.now /\ y.known = x.known /\ y.tried = x.tried
      /\ y.docs = x.docs /\ y.seen = x.seen /\ y.kept = x.kept /\ y.unembedded = x.unembedded
      /\ y.clusters = x.clusters /\ y.cold = x.cold
  BY <1>4, FieldsAre
<1>10. daily = OfToday(y)
  BY <1>4, <1>9 DEF OfToday
<1>11. \/ y.at = "record" /\ y.mode = "daily" /\ y.items = daily /\ daily # {}
       \/ y.at = "route" /\ y.mode # "daily" /\ daily = {}
  BY <1>0, <1>3, FieldsAre
<1>5. CallTyped(y)
  BY <1>3, <1>4, <1>9 DEF AskInv, Asked, CallTyped, AskSteps, Judged, Written
<1>6. TriedSound(y)
  BY <1>1, <1>4, <1>9 DEF AskInv, Asked, TriedSound, Attempting
<1>7. FilterSound(y)
  BY <1>1, <1>4, <1>9 DEF AskInv, Asked, FilterSound, Judged, Written
<1>12. JudgeSound(y)
  <2> HIDE DEF daily
  <2> QED
    BY <1>10, <1>11 DEF JudgeSound
<1>8. PublishesNews(r)'
  <2> SUFFICES ASSUME y.at = "record", NEW d \in y.items, NEW e \in Urls, Recent(y, e), ~(Rewritten(r, e)')
               PROVE  Alike(d, e) # 3
    BY DEF PublishesNews
  <2>1. d \in daily
    BY <1>11
  <2>2. store(r) # "" /\ x.now \in Nat /\ x.known \in [Urls -> Int]
    BY <1>1 DEF AskInv, Asked, CallTyped
  <2>3. ~Rewritten(r, e)
    <3>1. \A q \in Calls : (store(q))' = store(q)
      BY <1>1 DEF store
    <3> QED
      BY <1>1, <1>3, <1>9, <2>2, <3>1, RewrittenStays DEF Written
  <2>4. history[e] = x.known[e] /\ x.known[e] \in (x.now - Lookback) .. (x.now - 1) /\ x.known[e] >= 0
    BY <1>1, <1>9, <2>3 DEF AskInv, HistoryKept, Recent, Attempting
  <2> HIDE DEF history
  <2> QED
    BY <2>1, <2>2, <2>4, NewsIs
<1> QED
  BY <1>1, <1>3, <1>4, <1>5, <1>6, <1>7, <1>8, <1>9, <1>12, QuietStep DEF Asked, Attempting, Written

\* An outcome that another query may help with is no outage, and nothing was published.
LEMMA HelpIs ==
  ASSUME AskingIsSound, NEW x, should_reformulate(classify(x))
  PROVE  x.mode # "daily" /\ ~x.unembedded /\ x.failures # Sources
<1>1. classify(x) \in {"no_results", "low_relevance"}
  BY DEF should_reformulate
<1>2. x.mode # "daily"
  BY <1>1 DEF classify
<1>3. ~x.unembedded
  BY <1>1, <1>2 DEF classify
<1>4. ~(x.failures # {} /\ (x.docs = <<>> \/ Cardinality(x.failures) >= Cardinality(Sources)))
  BY <1>1, <1>2, <1>3 DEF classify
<1>5. Sources # {} /\ Cardinality(Sources) \in Nat
  BY FS_CardinalityType DEF AskingIsSound
<1>6. x.failures # Sources
  BY <1>4, <1>5
<1> QED
  BY <1>2, <1>3, <1>6

LEMMA AnotherTry ==
  ASSUME NEW t \in Seq(Texts), NEW q \in Texts, IsInjective(t), q \notin Range(t)
  PROVE  /\ Append(t, q) \in Seq(Texts) /\ IsInjective(Append(t, q)) /\ Len(Append(t, q)) = Len(t) + 1
         /\ Len(t) \in Nat
<1> DEFINE u == Append(t, q)
<1>1. /\ u \in Seq(Texts) /\ Len(u) = Len(t) + 1 /\ Len(t) \in Nat
      /\ DOMAIN u = 1 .. Len(t) + 1 /\ DOMAIN t = 1 .. Len(t)
      /\ \A i \in 1 .. Len(t) : u[i] = t[i]
      /\ u[Len(t) + 1] = q
  OBVIOUS
<1> HIDE DEF u
<1>2. \A i \in 1 .. Len(t) : t[i] # q
  BY <1>1 DEF Range
<1>3. ASSUME NEW i \in DOMAIN u, NEW j \in DOMAIN u, u[i] = u[j] PROVE i = j
  <2>1. CASE i \in 1 .. Len(t) /\ j \in 1 .. Len(t)
    BY <1>1, <1>3, <2>1 DEF IsInjective
  <2>2. CASE i = Len(t) + 1 /\ j \in 1 .. Len(t)
    BY <1>1, <1>2, <1>3, <2>2
  <2>3. CASE j = Len(t) + 1 /\ i \in 1 .. Len(t)
    BY <1>1, <1>2, <1>3, <2>3
  <2>4. CASE i = Len(t) + 1 /\ j = Len(t) + 1
    BY <2>4
  <2>5. (i \in 1 .. Len(t) \/ i = Len(t) + 1) /\ (j \in 1 .. Len(t) \/ j = Len(t) + 1)
    BY <1>1
  <2> QED
    BY <2>1, <2>2, <2>3, <2>4, <2>5
<1>4. IsInjective(u)
  BY <1>3 DEF IsInjective
<1> QED
  BY <1>1, <1>4 DEF u

LEMMA AskSelectKeeps == ASSUME AskInv, AskingIsSound, NEW r \in Calls, _select(r) PROVE AskInv'
<1> DEFINE x == ask[r]
           y == ask'[r]
           help == should_reformulate(classify(x)) /\ Len(Append(x.tried, x.query)) <= MaxReformulations
<1>0. PICK c : /\ To(r, c) /\ DOMAIN c = {"outcome", "tried", "at"} /\ c["tried"] = Append(x.tried, x.query)
               /\ c["at"] = IF help THEN "reformulate" ELSE "write"
  <2> DEFINE next == IF help THEN "reformulate" ELSE "write"
             c == [outcome |-> classify(x), tried |-> Append(x.tried, x.query), at |-> next]
  <2>1. To(r, c)
    BY DEF _select
  <2> HIDE DEF help
  <2>2. /\ DOMAIN c = {"outcome", "tried", "at"} /\ c["tried"] = Append(x.tried, x.query) /\ c["at"] = next
    OBVIOUS
  <2> HIDE DEF c
  <2> QED
    BY <2>1, <2>2
<1>1. x.at = "route" /\ UNCHANGED <<day, chosen, collected, reported>>
  BY DEF _select
<1>2. DOMAIN c \subseteq AskFields
  BY <1>0, FieldsAre
<1>3. /\ ask' = [q \in Calls |-> ask'[q]] /\ (\A q \in Calls : q # r => ask'[q] = ask[q])
      /\ y = [f \in AskFields |-> y[f]]
      /\ \A f \in AskFields : y[f] = IF f \in DOMAIN c THEN c[f] ELSE x[f]
  BY <1>0, <1>2, ServedIs, FieldsAre
<1>4. /\ y.at = (IF help THEN "reformulate" ELSE "write") /\ y.tried = Append(x.tried, x.query)
      /\ \A f \in AskFields \ {"outcome", "tried", "at"} : y[f] = x[f]
  <2> HIDE DEF help
  <2> QED
    BY <1>0, <1>2, <1>3, FieldsAre
<1>9. /\ y.query = x.query /\ y.now = x.now /\ y.known = x.known
      /\ y.docs = x.docs /\ y.seen = x.seen /\ y.kept = x.kept /\ y.unembedded = x.unembedded
      /\ y.clusters = x.clusters /\ y.cold = x.cold /\ y.judged = x.judged /\ y.mode = x.mode
      /\ y.items = x.items /\ y.failures = x.failures
  BY <1>4, FieldsAre
<1>10. help => x.mode # "daily" /\ ~x.unembedded /\ x.failures # Sources
  BY HelpIs
<1>11. /\ y.tried \in Seq(Texts) /\ IsInjective(y.tried) /\ Len(y.tried) = Len(x.tried) + 1
       /\ Len(x.tried) \in Nat
  <2>1. x.tried \in Seq(Texts) /\ x.query \in Texts /\ IsInjective(x.tried) /\ x.query \notin Range(x.tried)
    BY <1>1 DEF AskInv, Asked, TriedSound
  <2> QED
    BY <1>4, <2>1, AnotherTry
<1>5. CallTyped(y)
  BY <1>3, <1>4, <1>9 DEF AskInv, Asked, CallTyped, AskSteps, Judged, Written
<1>6. TriedSound(y)
  <2>1. Len(x.tried) <= MaxReformulations /\ MaxReformulations \in Nat /\ x.query \in Texts
    BY <1>1 DEF AskInv, Asked, TriedSound, AskingIsSound
  <2>2. Len(y.tried) <= MaxReformulations + 1
    BY <1>11, <2>1
  <2>3. y.at = "reformulate" => Len(y.tried) <= MaxReformulations /\ ~y.unembedded /\ y.failures # Sources
    BY <1>4, <1>9, <1>10
  <2>4. y.at \in {"reformulate", "write"}
    BY <1>4
  <2> HIDE DEF help
  <2> QED
    BY <1>9, <1>11, <2>1, <2>2, <2>3, <2>4 DEF TriedSound, Attempting
<1>7. FilterSound(y)
  BY <1>1, <1>4, <1>9 DEF AskInv, Asked, FilterSound, Judged, Written
<1>12. JudgeSound(y)
  BY <1>1, <1>4, <1>9 DEF AskInv, Asked, JudgeSound, OfToday, Judged, Written
<1>8. PublishesNews(r)'
  BY <1>4 DEF PublishesNews
<1>13. x.mode = "daily" => y.at = "write"
  BY <1>4, <1>10
<1>14. y.at \in {"reformulate", "write"}
  BY <1>4
<1> HIDE DEF help
<1> QED
  BY <1>1, <1>3, <1>5, <1>6, <1>7, <1>8, <1>9, <1>12, <1>13, <1>14, QuietStep DEF Asked, Attempting, Written

LEMMA ReformulateKeeps == ASSUME AskInv, AskingIsSound, NEW r \in Calls, _reformulate(r) PROVE AskInv'
<1> DEFINE x == ask[r]
           y == ask'[r]
<1>0. PICK c : /\ To(r, c)
               /\ \/ DOMAIN c = {"at"} /\ c["at"] = "write"
                  \/ /\ DOMAIN c = {"at", "query"} /\ c["at"] = "cold"
                     /\ c["query"] \in Texts /\ c["query"] \notin Range(x.tried)
  <2> DEFINE end == [at |-> "write"]
             again(q) == [at |-> "cold", query |-> q]
  <2>1. To(r, end) \/ \E q \in Texts : q \notin Range(x.tried) /\ To(r, again(q))
    BY DEF _reformulate, Texts
  <2>2. DOMAIN end = {"at"} /\ end["at"] = "write"
    OBVIOUS
  <2>3. \A q : DOMAIN again(q) = {"at", "query"} /\ again(q)["at"] = "cold" /\ again(q)["query"] = q
    OBVIOUS
  <2> HIDE DEF end, again
  <2> QED
    BY <2>1, <2>2, <2>3
<1>1. x.at = "reformulate" /\ UNCHANGED <<day, chosen, collected, reported>>
  BY DEF _reformulate
<1>2. DOMAIN c \subseteq AskFields
  BY <1>0, FieldsAre
<1>3. /\ ask' = [q \in Calls |-> ask'[q]] /\ (\A q \in Calls : q # r => ask'[q] = ask[q])
      /\ y = [f \in AskFields |-> y[f]]
      /\ \A f \in AskFields : y[f] = IF f \in DOMAIN c THEN c[f] ELSE x[f]
  BY <1>0, <1>2, ServedIs, FieldsAre
<1>4. /\ \/ y.at = "write" /\ y.query = x.query
         \/ y.at = "cold" /\ y.query \in Texts /\ y.query \notin Range(x.tried)
      /\ \A f \in AskFields \ {"query", "at"} : y[f] = x[f]
  BY <1>0, <1>2, <1>3, FieldsAre
<1>9. /\ y.now = x.now /\ y.known = x.known /\ y.tried = x.tried
      /\ y.docs = x.docs /\ y.seen = x.seen /\ y.kept = x.kept /\ y.unembedded = x.unembedded
      /\ y.clusters = x.clusters /\ y.cold = x.cold /\ y.judged = x.judged /\ y.mode = x.mode
      /\ y.items = x.items
  BY <1>4, FieldsAre
<1>5. CallTyped(y)
  BY <1>3, <1>4, <1>9 DEF AskInv, Asked, CallTyped, AskSteps, Judged, Written
<1>6. TriedSound(y)
  BY <1>1, <1>4, <1>9 DEF AskInv, Asked, TriedSound, Attempting
<1>7. FilterSound(y)
  BY <1>1, <1>4, <1>9 DEF AskInv, Asked, FilterSound, Judged, Written
<1>12. JudgeSound(y)
  BY <1>1, <1>4, <1>9 DEF AskInv, Asked, JudgeSound, OfToday, Judged, Written
<1>8. PublishesNews(r)'
  BY <1>4 DEF PublishesNews
<1> QED
  BY <1>1, <1>3, <1>4, <1>5, <1>6, <1>7, <1>8, <1>9, <1>12, QuietStep DEF Asked, Attempting, Written

LEMMA AskWriteKeeps == ASSUME AskInv, AskingIsSound, NEW r \in Calls, _write_report(r) PROVE AskInv'
<1> DEFINE x == ask[r]
           y == ask'[r]
<1>0. PICK c : To(r, c) /\ DOMAIN c = {"at"} /\ c["at"] = "done"
  <2> DEFINE c == [at |-> "done"]
  <2>1. To(r, c)
    BY DEF _write_report
  <2>2. DOMAIN c = {"at"} /\ c["at"] = "done"
    OBVIOUS
  <2> HIDE DEF c
  <2> QED
    BY <2>1, <2>2
<1>1. x.at = "write" /\ UNCHANGED <<day, chosen, collected, reported>>
  BY DEF _write_report
<1>2. DOMAIN c \subseteq AskFields
  BY <1>0, FieldsAre
<1>3. /\ ask' = [q \in Calls |-> ask'[q]] /\ (\A q \in Calls : q # r => ask'[q] = ask[q])
      /\ y = [f \in AskFields |-> y[f]]
      /\ \A f \in AskFields : y[f] = IF f \in DOMAIN c THEN c[f] ELSE x[f]
  BY <1>0, <1>2, ServedIs, FieldsAre
<1>4. y.at = "done" /\ \A f \in AskFields \ {"at"} : y[f] = x[f]
  BY <1>0, <1>2, <1>3, FieldsAre
<1>9. /\ y.now = x.now /\ y.known = x.known /\ y.tried = x.tried /\ y.query = x.query
      /\ y.docs = x.docs /\ y.seen = x.seen /\ y.kept = x.kept /\ y.unembedded = x.unembedded
      /\ y.clusters = x.clusters /\ y.cold = x.cold /\ y.judged = x.judged /\ y.mode = x.mode
      /\ y.items = x.items
  BY <1>4, FieldsAre
<1>5. CallTyped(y)
  BY <1>3, <1>4, <1>9 DEF AskInv, Asked, CallTyped, AskSteps, Judged, Written
<1>6. TriedSound(y)
  BY <1>1, <1>4, <1>9 DEF AskInv, Asked, TriedSound, Attempting
<1>7. FilterSound(y)
  BY <1>1, <1>4, <1>9 DEF AskInv, Asked, FilterSound, Judged, Written
<1>12. JudgeSound(y)
  BY <1>1, <1>4, <1>9 DEF AskInv, Asked, JudgeSound, OfToday, Judged, Written
<1>8. PublishesNews(r)'
  BY <1>4 DEF PublishesNews
<1> QED
  BY <1>1, <1>3, <1>4, <1>5, <1>6, <1>7, <1>8, <1>9, <1>12, QuietStep DEF Asked, Attempting, Written

\* The store of a process is chosen once.
LEMMA StartKeeps == ASSUME AskInv, AskingIsSound, NEW r \in Calls, has_collect_history(r) PROVE AskInv'
<1> DEFINE x == ask[r]
           y == ask'[r]
<1>0. PICK s, c :
        /\ s \in (IF store(r) = "" THEN _build_store(r) ELSE {store(r)})
        /\ chosen' = [chosen EXCEPT ![Process[r]] = s]
        /\ To(r, c) /\ DOMAIN c = {"at", "now", "known", "cold"}
        /\ c["at"] = "collect" /\ c["now"] = day /\ c["known"] = reported[s]
  <2> DEFINE start(s) == [at |-> "collect", now |-> day, known |-> reported[s],
                          cold |-> \A d \in Urls : collected[s][d].seen = -1]
  <2>1. PICK s \in (IF store(r) = "" THEN _build_store(r) ELSE {store(r)}) :
          chosen' = [chosen EXCEPT ![Process[r]] = s] /\ To(r, start(s))
    BY DEF has_collect_history
  <2>2. /\ DOMAIN start(s) = {"at", "now", "known", "cold"}
        /\ start(s)["at"] = "collect" /\ start(s)["now"] = day /\ start(s)["known"] = reported[s]
    OBVIOUS
  <2> HIDE DEF start
  <2> QED
    BY <2>1, <2>2
<1>1. x.at = "cold" /\ UNCHANGED <<day, collected, reported>>
  BY DEF has_collect_history
<1>2. DOMAIN c \subseteq AskFields
  BY <1>0, FieldsAre
<1>3. /\ ask' = [q \in Calls |-> ask'[q]] /\ (\A q \in Calls : q # r => ask'[q] = ask[q])
      /\ y = [f \in AskFields |-> y[f]]
      /\ \A f \in AskFields : y[f] = IF f \in DOMAIN c THEN c[f] ELSE x[f]
  BY <1>0, <1>2, ServedIs, FieldsAre
<1>4. y.at = "collect" /\ y.now = day /\ y.known = reported[s] /\ y.tried = x.tried /\ y.query = x.query
  BY <1>0, <1>2, <1>3, FieldsAre
<1>5. chosen \in [Range(Process) -> Stores \cup {""}] /\ \A q \in Calls : Process[q] \in Range(Process)
  BY DEF AskInv, AskTyped, AskingIsSound, Range
<1>6. s \in Stores /\ s # ""
  <2>1. Process[r] # "" /\ Process[r] \in Stores /\ "db" \in Stores
    BY <1>5 DEF AskingIsSound, Stores
  <2>2. CASE store(r) = ""
    BY <1>0, <2>1, <2>2 DEF _build_store
  <2>3. CASE store(r) # ""
    BY <1>0, <1>5, <2>3 DEF store
  <2> QED
    BY <2>2, <2>3
<1>7. /\ chosen' \in [Range(Process) -> Stores \cup {""}] /\ (store(r))' = s
      /\ \A q \in Calls : store(q) # "" => (store(q))' = store(q)
  BY <1>0, <1>5, <1>6 DEF store
<1>8. Asked(y)
  <2>1. reported[s] \in [Urls -> Int] /\ day \in Nat
    BY <1>6 DEF AskInv, AskTyped
  <2>2. CallTyped(y)
    BY <1>3, <1>4, <2>1 DEF CallTyped, AskSteps, Attempting
  <2>3. TriedSound(y)
    BY <1>1, <1>4 DEF AskInv, Asked, TriedSound, Attempting
  <2>4. FilterSound(y) /\ JudgeSound(y)
    BY <1>4 DEF FilterSound, JudgeSound, Judged, Written
  <2> QED
    BY <2>2, <2>3, <2>4 DEF Asked
<1>9. ASSUME NEW q \in Calls
      PROVE  /\ Asked(ask'[q]) /\ (ask'[q].at \notin {"plan", "cold"} => (store(q))' # "")
             /\ HistoryKept(q)' /\ PublishesNews(q)'
  <2>1. CASE q = r
    <3>1. HistoryKept(r)'
      BY <1>1, <1>4, <1>7 DEF HistoryKept
    <3>2. PublishesNews(r)'
      BY <1>4 DEF PublishesNews
    <3> QED
      BY <1>6, <1>7, <1>8, <2>1, <3>1, <3>2
  <2>2. CASE q # r
    <3>1. ask'[q] = ask[q] /\ Asked(ask[q])
      BY <1>3, <2>2 DEF AskInv
    <3>2. ask[q].at \notin {"plan", "cold"} => store(q) # "" /\ (store(q))' = store(q)
      BY <1>7 DEF AskInv
    <3>3. ASSUME store(q) # "", NEW e \in Urls, ~(Rewritten(q, e)') PROVE ~Rewritten(q, e)
      BY <1>1, <1>3, <1>7, <3>1, <3>3, RewrittenStays DEF Written
    <3>4. HistoryKept(q)'
      BY <1>1, <3>1, <3>2, <3>3 DEF AskInv, HistoryKept, Attempting
    <3>5. PublishesNews(q)'
      BY <3>1, <3>2, <3>3 DEF AskInv, PublishesNews
    <3> QED
      BY <3>1, <3>2, <3>4, <3>5
  <2> QED
    BY <2>1, <2>2
<1> QED
  BY <1>1, <1>3, <1>7, <1>9 DEF AskInv, AskTyped

LEMMA RecordKeeps == ASSUME AskInv, AskingIsSound, NEW r \in Calls, record_report_items(r) PROVE AskInv'
<1> DEFINE x == ask[r]
           y == ask'[r]
           s == store(r)
           row(d) == IF d \in x.items THEN x.now
                     ELSE IF reported[s][d] >= x.now - Lookback THEN reported[s][d] ELSE -1
<1>0. PICK ok, c :
        /\ ok \in BOOLEAN /\ To(r, c) /\ DOMAIN c = {"at"} /\ c["at"] = IF ok THEN "route" ELSE "failed"
        /\ reported' = IF r \notin Records \/ ~ok THEN reported
                       ELSE [reported EXCEPT ![s] = [d \in Urls |-> row(d)]]
  <2> DEFINE end(ok) == [at |-> IF ok THEN "route" ELSE "failed"]
  <2>1. PICK ok \in BOOLEAN :
          /\ To(r, end(ok))
          /\ reported' = IF r \notin Records \/ ~ok THEN reported
                         ELSE [reported EXCEPT ![s] = [d \in Urls |-> row(d)]]
    BY DEF record_report_items
  <2>2. DOMAIN end(ok) = {"at"} /\ end(ok)["at"] = IF ok THEN "route" ELSE "failed"
    OBVIOUS
  <2> HIDE DEF end, row
  <2> QED
    BY <2>1, <2>2
<1>1. x.at = "record" /\ UNCHANGED <<day, chosen, collected>>
  BY DEF record_report_items
<1>2. DOMAIN c \subseteq AskFields
  BY <1>0, FieldsAre
<1>3. /\ ask' = [q \in Calls |-> ask'[q]] /\ (\A q \in Calls : q # r => ask'[q] = ask[q])
      /\ y = [f \in AskFields |-> y[f]]
      /\ \A f \in AskFields : y[f] = IF f \in DOMAIN c THEN c[f] ELSE x[f]
  BY <1>0, <1>2, ServedIs, FieldsAre
<1>4. y.at = (IF ok THEN "route" ELSE "failed") /\ \A f \in AskFields \ {"at"} : y[f] = x[f]
  BY <1>0, <1>2, <1>3, FieldsAre
<1>5. /\ y.now = x.now /\ y.known = x.known /\ y.tried = x.tried /\ y.query = x.query
      /\ y.docs = x.docs /\ y.seen = x.seen /\ y.kept = x.kept /\ y.unembedded = x.unembedded
      /\ y.clusters = x.clusters /\ y.cold = x.cold /\ y.judged = x.judged /\ y.mode = x.mode
      /\ y.items = x.items
  BY <1>4, FieldsAre
<1>6. x.mode = "daily" /\ x.now \in Nat /\ s # "" /\ y.at \in {"route", "failed"}
  BY <1>1, <1>4 DEF AskInv, Asked, JudgeSound, CallTyped
<1>7. Asked(y)
  <2>1. CallTyped(y)
    BY <1>3, <1>5, <1>6 DEF AskInv, Asked, CallTyped, AskSteps, Judged, Written
  <2>2. TriedSound(y)
    BY <1>1, <1>5, <1>6 DEF AskInv, Asked, TriedSound, Attempting
  <2>3. FilterSound(y)
    BY <1>1, <1>5, <1>6 DEF AskInv, Asked, FilterSound, Judged, Written
  <2>4. JudgeSound(y)
    BY <1>1, <1>5, <1>6 DEF AskInv, Asked, JudgeSound, OfToday, Judged, Written
  <2> QED
    BY <2>1, <2>2, <2>3, <2>4 DEF Asked
<1>8. \A q \in Calls : (store(q))' = store(q)
  BY <1>1 DEF store
<1>9. /\ reported \in [Stores -> [Urls -> Int]] /\ Lookback \in Nat
      /\ \A q \in Calls : store(q) # "" => store(q) \in Stores
  <2>1. chosen \in [Range(Process) -> Stores \cup {""}] /\ \A q \in Calls : Process[q] \in Range(Process)
    BY DEF AskInv, AskTyped, AskingIsSound, Range
  <2> QED
    BY <2>1 DEF AskInv, AskTyped, AskingIsSound, store
<1>15. x.now \in Int /\ Lookback \in Int
  <2>1. x.now \in Nat
    BY <1>6
  <2>2. Lookback \in Nat
    BY <1>9
  <2> HIDE DEF x
  <2> QED
    BY <2>1, <2>2
<1>10. \A d \in Urls : row(d) \in Int
  <2>0. s \in Stores /\ reported[s] \in [Urls -> Int]
    BY <1>6, <1>9
  <2>1. reported[s] \in [Urls -> Int] /\ x.now \in Int /\ -1 \in Int
    <3> HIDE DEF x
    <3> QED
      BY <1>15, <2>0
  <2> HIDE DEF s
  <2> QED
    BY <2>1
<1>11. reported' \in [Stores -> [Urls -> Int]]
  <2> HIDE DEF row, s
  <2> QED
    BY <1>0, <1>9, <1>10
<1>12. ASSUME NEW q \in Calls, ask[q].at \notin {"plan", "cold"}, q # r, NEW e \in Urls, ~(Rewritten(q, e)')
       PROVE  ~Rewritten(q, e)
  <2>1. store(q) # "" /\ ask'[q].known = ask[q].known
    BY <1>3, <1>12 DEF AskInv
  <2> QED
    BY <1>1, <1>3, <1>8, <1>12, <2>1, RewrittenStays DEF Written
<1>13. ASSUME NEW q \in Calls, q # r, ask[q].at \in Attempting, NEW e \in Urls, Recent(ask[q], e), ~(Rewritten(q, e)')
       PROVE  (reported[store(q)][e])' = ask[q].known[e]
  <2>1. ~Rewritten(q, e)
    BY <1>12, <1>13 DEF Attempting
  <2>2. reported[store(q)][e] = ask[q].known[e]
    BY <1>13, <2>1 DEF AskInv, HistoryKept
  <2>3. store(q) \in Stores /\ ask[q].known[e] \in Int /\ ask'[q] = ask[q]
    BY <1>3, <1>9, <1>13 DEF AskInv, Attempting, Asked, CallTyped
  <2>4. CASE store(q) # s \/ r \notin Records \/ ~ok
    <3> HIDE DEF row, s
    <3> QED
      BY <1>0, <1>8, <1>9, <2>2, <2>3, <2>4
  <2>5. CASE store(q) = s /\ r \in Records /\ ok
    <3>1. (reported[store(q)][e])' = row(e)
      <4> HIDE DEF row, s
      <4> QED
        BY <1>0, <1>8, <1>9, <2>3, <2>5
    <3>2. ~(\/ e \in y.items /\ y.now # ask'[q].known[e]
            \/ y.now > ask'[q].known[e] + Lookback)
      <4>1. (store(r))' = (store(q))' /\ y.mode = "daily" /\ y.at = "route" /\ r \in Records \ {q}
        BY <1>4, <1>5, <1>6, <1>8, <1>13, <2>5
      <4> QED
        BY <1>13, <4>1 DEF Rewritten
    <3>3. (e \in x.items => x.now = ask[q].known[e]) /\ ~(x.now > ask[q].known[e] + Lookback)
      BY <1>5, <2>3, <3>2
    <3>4. ask[q].known[e] >= x.now - Lookback
      <4>1. \A n, k, m \in Int : ~(n > k + m) => k >= n - m
        OBVIOUS
      <4>2. x.now \in Int /\ Lookback \in Int /\ ask[q].known[e] \in Int
        BY <1>15, <2>3
      <4> HIDE DEF x
      <4> QED
        BY <3>3, <4>1, <4>2
    <3>5. reported[s][e] = ask[q].known[e]
      BY <2>2, <2>5
    <3>6. row(e) = ask[q].known[e]
      BY <3>3, <3>4, <3>5
    <3> QED
      BY <3>1, <3>6
  <2> QED
    BY <2>4, <2>5
<1>14. ASSUME NEW q \in Calls
       PROVE  /\ Asked(ask'[q]) /\ (ask'[q].at \notin {"plan", "cold"} => (store(q))' # "")
              /\ HistoryKept(q)' /\ PublishesNews(q)'
  <2>1. CASE q = r
    <3>1. HistoryKept(r)' /\ PublishesNews(r)'
      BY <1>6 DEF HistoryKept, PublishesNews, Attempting
    <3> QED
      BY <1>6, <1>7, <1>8, <2>1, <3>1
  <2>2. CASE q # r
    <3>1. ask'[q] = ask[q] /\ Asked(ask[q]) /\ (ask[q].at \notin {"plan", "cold"} => store(q) # "")
      BY <1>3, <2>2 DEF AskInv
    <3>2. HistoryKept(q)'
      BY <1>13, <2>2, <3>1 DEF HistoryKept
    <3>3. PublishesNews(q)'
      BY <1>12, <2>2, <3>1 DEF AskInv, PublishesNews
    <3> QED
      BY <1>8, <3>1, <3>2, <3>3
  <2> QED
    BY <2>1, <2>2
<1> QED
  BY <1>1, <1>3, <1>11, <1>14 DEF AskInv, AskTyped

LEMMA AskInitInv == ASSUME AskInit, AskingIsSound PROVE AskInv
<1>1. AskTyped
  <2>1. reported = [s \in Stores |-> [d \in Urls |-> -1]]
    BY DEF AskInit
  <2>2. reported \in [Stores -> [Urls -> Int]]
    BY <2>1
  <2>3. day \in Nat
    BY DEF AskInit
  <2>4. chosen \in [Range(Process) -> Stores \cup {""}]
    BY DEF AskInit
  <2>5. ask = [r \in Calls |-> ask[r]]
    BY DEF AskInit
  <2> QED
    BY <2>2, <2>3, <2>4, <2>5 DEF AskTyped
<1>2. /\ Unasked.at = "plan" /\ Unasked.now = 0 /\ Unasked.query = Keyword /\ Unasked.tried = <<>>
      /\ Unasked.known = [d \in Urls |-> -1]
  BY DEF Unasked
<1>3. CallTyped(Unasked)
  <2>1. Unasked.known \in [Urls -> Int]
    BY <1>2
  <2>2. Unasked = [f \in AskFields |-> Unasked[f]]
    BY DEF Unasked, AskFields
  <2> QED
    BY <1>2, <2>1, <2>2 DEF CallTyped, AskSteps
<1>4. TriedSound(Unasked)
  <2>1. Len(<<>>) = 0 /\ DOMAIN <<>> = {} /\ <<>> \in Seq(Texts)
    OBVIOUS
  <2>2. IsInjective(<<>>)
    BY <2>1 DEF IsInjective
  <2>3. 0 <= MaxReformulations + 1
    <3>1. MaxReformulations \in Nat
      BY DEF AskingIsSound
    <3> QED
      BY <3>1
  <2> QED
    BY <1>2, <2>1, <2>2, <2>3 DEF TriedSound, Texts, Attempting
<1>5. FilterSound(Unasked) /\ JudgeSound(Unasked)
  BY <1>2 DEF FilterSound, JudgeSound, Judged, Written
<1>6. ASSUME NEW r \in Calls
      PROVE  /\ Asked(ask[r]) /\ (ask[r].at \notin {"plan", "cold"} => store(r) # "")
             /\ HistoryKept(r) /\ PublishesNews(r)
  <2>1. ask[r] = Unasked
    BY DEF AskInit
  <2> QED
    BY <1>2, <1>3, <1>4, <1>5, <2>1 DEF Asked, HistoryKept, PublishesNews, Attempting
<1> QED
  BY <1>1, <1>6 DEF AskInv

LEMMA AskStutters ==
  ASSUME AskInv, day' \in Nat, UNCHANGED <<chosen, reported, ask>> PROVE AskInv'
<1>1. AskTyped'
  BY DEF AskInv, AskTyped
<1>2. ASSUME NEW r \in Calls
      PROVE  /\ Asked(ask'[r]) /\ (ask'[r].at \notin {"plan", "cold"} => (store(r))' # "")
             /\ HistoryKept(r)' /\ PublishesNews(r)'
  <2>1. (store(r))' = store(r) /\ \A e \in Urls : Rewritten(r, e)' <=> Rewritten(r, e)
    BY DEF store, Rewritten
  <2> QED
    BY <2>1 DEF AskInv, HistoryKept, PublishesNews
<1> QED
  BY <1>1, <1>2 DEF AskInv

LEMMA AskNextKeeps == ASSUME AskInv, AskingIsSound, [AskNext]_askVars PROVE AskInv'
<1>1. CASE NextDay
  <2>1. day \in Nat
    BY DEF AskInv, AskTyped
  <2>2. day' = day + 1 /\ UNCHANGED <<chosen, reported, ask>>
    BY <1>1 DEF NextDay
  <2>3. day' \in Nat
    BY <2>1, <2>2
  <2> QED
    BY <2>2, <2>3, AskStutters
<1>2. CASE \E r \in Calls : Serve(r)
  BY <1>2, PlanKeeps, StartKeeps, AskCollectKeeps, AskResolveKeeps, EmbedKeeps, ScoresKeep, JudgeKeeps,
     RecordKeeps, AskSelectKeeps, ReformulateKeeps, AskWriteKeeps DEF Serve
<1>3. CASE UNCHANGED askVars
  BY <1>3, AskStutters DEF askVars, AskInv, AskTyped
<1> QED
  BY <1>1, <1>2, <1>3 DEF AskNext

\* Two requests that are done, of one day and with the same input but for today's rows.
LEMMA SameInput ==
  ASSUME AskInv, NEW r \in Calls, NEW q \in Calls,
         ask[r].at = "done", ask[q].at = "done", ask[r].mode = "daily", ask[r].now = ask[q].now,
         ask[r].docs = ask[q].docs, ask[r].seen = ask[q].seen, ask[r].cold = ask[q].cold,
         ~ask[q].unembedded,
         {<<d, ask[r].judged[d]>> : d \in {e \in Urls : ask[r].judged[e] \notin {-1, ask[r].now}}}
           = {<<d, ask[q].judged[d]>> : d \in {e \in Urls : ask[q].judged[e] \notin {-1, ask[q].now}}}
  PROVE  ask[q].mode = "daily" /\ ask[r].items = ask[q].items
<1> DEFINE x == ask[r]
           y == ask[q]
           rows(z) == load_recent_report_items(z.judged, z.now)
<1>1. FilterSound(x) /\ FilterSound(y) /\ JudgeSound(x) /\ JudgeSound(y) /\ "done" \in Judged
  BY DEF AskInv, Asked, Judged, Written
<1>2. x.kept = y.kept
  BY <1>1 DEF FilterSound
<1>3. x.clusters # <<>>
  <2> SUFFICES ASSUME x.clusters = <<>> PROVE FALSE
    OBVIOUS
  <2>1. Survivors(<<>>, x.cold, x.seen, rows(x)) = {}
    BY DEF Survivors
  <2>2. OfToday(x) = {}
    BY <2>1 DEF OfToday, publish_cutoff
  <2> QED
    BY <1>1, <2>2 DEF JudgeSound
<1>4. x.kept # <<>> /\ x.clusters = greedy_clusters(similarity_cutoff(x.kept))
  BY <1>1, <1>3 DEF FilterSound
<1>5. y.clusters = x.clusters
  BY <1>1, <1>2, <1>4 DEF FilterSound
<1>6. rows(x) = rows(y)
  <2> DEFINE D(z) == {d \in Urls : z.judged[d] >= 0 /\ z.judged[d] >= z.now - Lookback /\ z.judged[d] # z.now}
             past(z) == {<<d, z.judged[d]>> : d \in {e \in Urls : z.judged[e] \notin {-1, z.now}}}
  <2>1. ASSUME NEW d \in D(x) PROVE d \in D(y) /\ x.judged[d] = y.judged[d]
    <3>1. <<d, x.judged[d]>> \in past(x)
      BY <2>1
    <3>2. <<d, x.judged[d]>> \in past(y)
      BY <3>1
    <3> QED
      BY <2>1, <3>2
  <2>2. ASSUME NEW d \in D(y) PROVE d \in D(x) /\ x.judged[d] = y.judged[d]
    <3>1. <<d, y.judged[d]>> \in past(y)
      BY <2>2
    <3>2. <<d, y.judged[d]>> \in past(x)
      BY <3>1
    <3> QED
      BY <2>2, <3>2
  <2>3. rows(x) = [d \in D(x) |-> x.judged[d]] /\ rows(y) = [d \in D(y) |-> y.judged[d]]
    BY DEF load_recent_report_items
  <2> QED
    BY <2>1, <2>2, <2>3
<1>7. OfToday(x) = OfToday(y)
  BY <1>5, <1>6 DEF OfToday
<1> QED
  BY <1>1, <1>7 DEF JudgeSound


-----------------------------------------------------------------------------
(* The types of the state.                                                 *)

\* Places are finitely many.
LEMMA PlacesFinite ==
  ASSUME NEW m \in Nat, NEW K, K \subseteq 1 .. m
  PROVE  IsFiniteSet(K) /\ Cardinality(K) \in Nat
<1>1. IsFiniteSet(1 .. m)
  BY FS_Interval
<1>2. IsFiniteSet(K)
  BY <1>1, FS_Subset
<1> QED
  BY <1>2, FS_CardinalityType

\* The places of a set up to one: none before the first, and one more at each of the set.
PlacesTo(K, k) == {j \in K : j <= k}
LEMMA PlacesToAre ==
  ASSUME NEW m \in Nat, NEW K, K \subseteq 1 .. m
  PROVE  /\ PlacesTo(K, 0) = {} /\ PlacesTo(K, m) = K
         /\ \A k : PlacesTo(K, k) \subseteq K
         /\ \A k \in Nat \ {0} :
              /\ k \notin PlacesTo(K, k - 1)
              /\ k \notin K => PlacesTo(K, k) = PlacesTo(K, k - 1)
              /\ k \in K => PlacesTo(K, k) = PlacesTo(K, k - 1) \cup {k}
<1>1. \A j \in K : j \in Nat /\ 1 <= j /\ j <= m
  OBVIOUS
<1>2. PlacesTo(K, 0) = {} /\ PlacesTo(K, m) = K
  <2>1. (\A j \in K : ~ (j <= 0)) /\ \A j \in K : j <= m
    BY <1>1
  <2> QED
    BY <2>1, Zenon DEF PlacesTo
<1>3. ASSUME NEW k \in Nat \ {0}
      PROVE  /\ k \notin PlacesTo(K, k - 1)
             /\ k \notin K => PlacesTo(K, k) = PlacesTo(K, k - 1)
             /\ k \in K => PlacesTo(K, k) = PlacesTo(K, k - 1) \cup {k}
  <2>1. k \notin PlacesTo(K, k - 1)
    BY DEF PlacesTo
  <2>2. \A j \in K : j <= k <=> j <= k - 1 \/ j = k
    BY <1>1
  <2> QED
    BY <2>1, <2>2 DEF PlacesTo
<1> QED
  BY <1>2, <1>3 DEF PlacesTo

\* Of finitely many places there is a first, a second and so on.
LEMMA PlaceIs ==
  ASSUME NEW m \in Nat, NEW K, K \subseteq 1 .. m, NEW n \in 1 .. Cardinality(K)
  PROVE  /\ Cardinality(K) \in Nat
         /\ \E k \in K : Cardinality(PlacesTo(K, k)) = n
<1> DEFINE S == {k \in Nat : Cardinality(PlacesTo(K, k)) >= n}
<1>1. IsFiniteSet(K) /\ Cardinality(K) \in Nat
  BY PlacesFinite
<1>2. \A k : IsFiniteSet(PlacesTo(K, k)) /\ Cardinality(PlacesTo(K, k)) \in Nat
  <2> TAKE k
  <2>1. PlacesTo(K, k) \subseteq K
    BY PlacesToAre
  <2> QED
    BY <1>1, <2>1, FS_Subset, FS_CardinalityType
<1>3. m \in S
  <2>1. PlacesTo(K, m) = K
    BY PlacesToAre
  <2> QED
    BY <1>1, <2>1
<1> HIDE DEF S
<1>4. PICK k \in S : \A l \in S : k <= l
  <2>1. S \in SUBSET Nat
    BY DEF S
  <2> QED
    BY <1>3, <2>1, LeastIs
<1>5. k \in Nat /\ Cardinality(PlacesTo(K, k)) >= n
  BY <1>4 DEF S
<1>6. k # 0
  <2>1. Cardinality(PlacesTo(K, 0)) = 0
    BY PlacesToAre, FS_EmptySet
  <2> QED
    BY <1>5, <2>1
<1>7. k - 1 \in Nat /\ Cardinality(PlacesTo(K, k - 1)) < n
  <2>1. k - 1 \in Nat /\ k - 1 \notin S
    BY <1>4, <1>5, <1>6
  <2>2. ~ (Cardinality(PlacesTo(K, k - 1)) >= n) /\ Cardinality(PlacesTo(K, k - 1)) \in Nat
    BY <1>2, <2>1 DEF S
  <2> QED
    BY <2>1, <2>2
<1>8. k \in K
  <2> SUFFICES ASSUME k \notin K PROVE FALSE
    OBVIOUS
  <2>1. PlacesTo(K, k) = PlacesTo(K, k - 1)
    BY <1>5, <1>6, PlacesToAre
  <2> QED
    BY <1>2, <1>5, <1>7, <2>1
<1>9. Cardinality(PlacesTo(K, k)) = Cardinality(PlacesTo(K, k - 1)) + 1
  <2>1. PlacesTo(K, k) = PlacesTo(K, k - 1) \cup {k} /\ k \notin PlacesTo(K, k - 1)
    BY <1>5, <1>6, <1>8, PlacesToAre
  <2> QED
    BY <1>2, <2>1, FS_AddElement
<1>10. Cardinality(PlacesTo(K, k)) = n
  BY <1>2, <1>5, <1>7, <1>9
<1> QED
  BY <1>1, <1>8, <1>10


\* The elements at some places are elements of the sequence.
LEMMA SubsequenceIs ==
  ASSUME NEW S, NEW all \in Seq(S), NEW places, places \subseteq DOMAIN all
  PROVE  Subsequence(all, places) \in Seq(S) /\ Range(Subsequence(all, places)) \subseteq Range(all)
<1> DEFINE at(n) == CHOOSE k \in places : Cardinality(PlacesTo(places, k)) = n
<1>1. Len(all) \in Nat /\ DOMAIN all = 1 .. Len(all) /\ places \subseteq 1 .. Len(all)
  OBVIOUS
<1>2. Cardinality(places) \in Nat
  BY <1>1, PlacesFinite
<1>3. ASSUME NEW n \in 1 .. Cardinality(places) PROVE at(n) \in places
  <2>1. \E k \in places : Cardinality(PlacesTo(places, k)) = n
    BY <1>1, PlaceIs
  <2> QED
    BY <2>1
<1>4. Subsequence(all, places) = [n \in 1 .. Cardinality(places) |-> all[at(n)]]
  BY DEF Subsequence, PlacesTo
<1> HIDE DEF at
<1>5. ASSUME NEW n \in 1 .. Cardinality(places) PROVE all[at(n)] \in S /\ all[at(n)] \in Range(all)
  <2>1. \A k \in DOMAIN all : all[k] \in S /\ all[k] \in Range(all)
    BY DEF Range
  <2>2. at(n) \in DOMAIN all
    BY <1>3
  <2> QED
    BY <2>1, <2>2
<1>6. Subsequence(all, places) \in [1 .. Cardinality(places) -> S]
  BY <1>4, <1>5
<1>7. Range(Subsequence(all, places)) \subseteq Range(all)
  <2>1. \A n \in DOMAIN Subsequence(all, places) : Subsequence(all, places)[n] \in Range(all)
    BY <1>4, <1>5
  <2> QED
    BY <2>1 DEF Range
<1> QED
  BY <1>2, <1>6, <1>7

AskDays == -1 .. LastDay
AskRows == [seen : AskDays, score : Int]

\* Queries are the keyword or usable, days have come, and the filters leave documents that
\* were collected.
CallKinds(x) ==
  /\ x.query \in {Keyword} \cup Usable /\ x.now \in 0 .. LastDay /\ x.cold \in BOOLEAN
  /\ x.seen \in [Urls -> AskDays]
  /\ x.docs \in Seq(Urls) /\ Range(x.kept) \subseteq Range(x.docs)
  /\ x.mode \in {"", "daily", "weekly", "evergreen"}

TablesTyped ==
  /\ day \in 0 .. LastDay
  /\ collected \in [Stores -> [Urls -> AskRows]]
  /\ reported \in [Stores -> [Urls -> AskDays]]

AskKinds == TablesTyped /\ \A r \in Calls : CallKinds(ask[r])

LEMMA RowIs ==
  ASSUME NEW row \in AskRows, NEW seen \in AskDays, NEW score \in Int
  PROVE  record_collected(row, seen, score) \in AskRows
  BY DEF record_collected, AskRows

\* The store of a request that has started is one of the stores.
LEMMA StoreIs ==
  ASSUME AskInv, AskingIsSound, NEW r \in Calls, ask[r].at \notin {"plan", "cold"}
  PROVE  store(r) \in Stores
<1>1. Process[r] \in Range(Process)
  BY DEF AskingIsSound, Range
<1>2. chosen[Process[r]] \in Stores \cup {""}
  BY <1>1 DEF AskInv, AskTyped
<1>3. store(r) # ""
  BY DEF AskInv
<1> QED
  BY <1>2, <1>3 DEF store

\* A step of a request keeps the types when what it writes is typed.
LEMMA KindsAre ==
  ASSUME AskInv, AskKinds, NEW r \in Calls, NEW c, DOMAIN c \subseteq AskFields, To(r, c), TablesTyped',
         "query" \in DOMAIN c => c["query"] \in {Keyword} \cup Usable,
         "now" \in DOMAIN c => c["now"] \in 0 .. LastDay,
         "cold" \in DOMAIN c => c["cold"] \in BOOLEAN,
         "seen" \in DOMAIN c => c["seen"] \in [Urls -> AskDays],
         "docs" \in DOMAIN c => "kept" \in DOMAIN c /\ c["docs"] \in Seq(Urls),
         "kept" \in DOMAIN c =>
           Range(c["kept"]) \subseteq Range(IF "docs" \in DOMAIN c THEN c["docs"] ELSE ask[r].docs),
         "mode" \in DOMAIN c => c["mode"] \in {"", "daily", "weekly", "evergreen"}
  PROVE  AskKinds'
<1> DEFINE x == ask[r]
           y == ask'[r]
<1>1. /\ \A q \in Calls : q # r => ask'[q] = ask[q]
      /\ \A f \in AskFields : y[f] = IF f \in DOMAIN c THEN c[f] ELSE x[f]
  BY ServedIs
<1>2. CallKinds(x)
  BY DEF AskKinds
<1>3. \A f \in {"query", "now", "cold", "seen", "docs", "kept", "mode"} :
        y[f] = IF f \in DOMAIN c THEN c[f] ELSE x[f]
  BY <1>1, FieldsAre
<1>4. /\ y.query \in {Keyword} \cup Usable /\ y.now \in 0 .. LastDay /\ y.cold \in BOOLEAN
      /\ y.seen \in [Urls -> AskDays] /\ y.mode \in {"", "daily", "weekly", "evergreen"}
  BY <1>2, <1>3 DEF CallKinds
<1>5. y.docs \in Seq(Urls)
  BY <1>2, <1>3 DEF CallKinds
<1>6. Range(y.kept) \subseteq Range(y.docs)
  <2>1. CASE "kept" \in DOMAIN c
    <3>1. y.kept = c["kept"] /\ y.docs = IF "docs" \in DOMAIN c THEN c["docs"] ELSE x.docs
      BY <1>3, <2>1
    <3> QED
      BY <2>1, <3>1
  <2>2. CASE "kept" \notin DOMAIN c
    <3>1. "docs" \notin DOMAIN c
      BY <2>2
    <3>2. y.kept = x.kept /\ y.docs = x.docs
      BY <1>3, <2>2, <3>1
    <3> QED
      BY <1>2, <3>2 DEF CallKinds
  <2> QED
    BY <2>1, <2>2
<1>7. CallKinds(y)
  BY <1>4, <1>5, <1>6 DEF CallKinds
<1>8. \A q \in Calls : CallKinds(ask'[q])
  BY <1>1, <1>7 DEF AskKinds
<1> QED
  BY <1>8 DEF AskKinds

LEMMA PlanKinds == ASSUME AskInv, AskKinds, NEW r \in Calls, _plan(r) PROVE AskKinds'
<1> DEFINE c == [at |-> "cold", query |-> Keyword]
<1>1. To(r, c) /\ UNCHANGED <<day, chosen, collected, reported>>
  BY DEF _plan
<1>2. DOMAIN c = {"at", "query"} /\ c["query"] = Keyword
  OBVIOUS
<1> HIDE DEF c
<1>3. TablesTyped'
  BY <1>1 DEF AskKinds, TablesTyped
<1> QED
  BY <1>1, <1>2, <1>3, KindsAre, FieldsAre

LEMMA StartKinds ==
  ASSUME AskInv, AskKinds, NEW r \in Calls, has_collect_history(r) PROVE AskKinds'
<1> DEFINE start(s) == [at |-> "collect", now |-> day, known |-> reported[s],
                        cold |-> \A d \in Urls : collected[s][d].seen = -1]
<1>1. PICK s : To(r, start(s)) /\ UNCHANGED <<day, collected, reported>>
  BY DEF has_collect_history
<1>2. DOMAIN start(s) = {"at", "now", "known", "cold"} /\ start(s)["now"] = day /\ start(s)["cold"] \in BOOLEAN
  OBVIOUS
<1> HIDE DEF start
<1>3. TablesTyped'
  BY <1>1 DEF AskKinds, TablesTyped
<1>4. day \in 0 .. LastDay
  BY DEF AskKinds, TablesTyped
<1> QED
  BY <1>1, <1>2, <1>3, <1>4, KindsAre, FieldsAre

LEMMA CollectKinds ==
  ASSUME AskInv, AskKinds, AskingIsSound, NEW r \in Calls, Collect(r) PROVE AskKinds'
<1> DEFINE q == ask[r].query
           collect(answers) ==
             [at |-> "dates", docs |-> collect_documents(ask[r].query, answers),
              failures |-> {s \in Sources : ~answers[s]},
              unembedded |-> FALSE, kept |-> <<>>, filtered |-> 0, clusters |-> <<>>,
              rejected |-> 0, items |-> {}, mode |-> "", outcome |-> ""]
<1>1. PICK answers : To(r, collect(answers)) /\ UNCHANGED <<day, chosen, collected, reported>>
  BY DEF Collect
<1> DEFINE c == collect(answers)
<1>2. /\ DOMAIN c = {"at", "docs", "failures", "unembedded", "kept", "filtered", "clusters", "rejected",
                     "items", "mode", "outcome"}
      /\ c["docs"] = collect_documents(q, answers) /\ c["kept"] = <<>> /\ c["mode"] = ""
  OBVIOUS
<1> HIDE DEF c
<1>3. collect_documents(q, answers) \in Seq(Urls)
  <2> DEFINE found == Finds[q]
             keys == [i \in DOMAIN found |-> found[i].key]
             had == {i \in DOMAIN found : answers[found[i].from]}
             first == {i \in had : \A j \in had : j < i => found[j].key # found[i].key}
  <2>1. q \in {Keyword} \cup Usable
    BY DEF AskKinds, CallKinds
  <2>2. found \in Seq([from : Sources, key : Urls])
    BY <2>1 DEF AskingIsSound
  <2>3. Len(found) \in Nat /\ DOMAIN found = 1 .. Len(found) /\ \A i \in DOMAIN found : found[i].key \in Urls
    <3> DEFINE Things == [from : Sources, key : Urls]
    <3>1. \A i \in DOMAIN found : found[i] \in Things
      <4> HIDE DEF found, Things
      <4>1. Len(found) \in Nat /\ DOMAIN found = 1 .. Len(found)
        BY <2>2
      <4> QED
        BY <2>2, <4>1, ElementOfSeq DEF Things
    <3> HIDE DEF found
    <3>2. \A i \in DOMAIN found : found[i].key \in Urls
      BY <3>1
    <3> QED
      BY <2>2, <3>2
  <2>4. keys \in [1 .. Len(found) -> Urls]
    BY <2>3
  <2>5. keys \in Seq(Urls) /\ DOMAIN keys = DOMAIN found
    BY <2>3, <2>4
  <2>6. collect_documents(q, answers) = Subsequence(keys, first)
    BY DEF collect_documents
  <2>7. first \subseteq DOMAIN keys
    BY <2>5
  <2> HIDE DEF keys, first
  <2> QED
    BY <2>5, <2>6, <2>7, SubsequenceIs
<1>4. Range(<<>>) = {}
  <2>1. DOMAIN <<>> = {}
    OBVIOUS
  <2> QED
    BY <2>1 DEF Range
<1>5. TablesTyped'
  BY <1>1 DEF AskKinds, TablesTyped
<1>6. DOMAIN c \subseteq AskFields /\ To(r, c)
  BY <1>1, <1>2, FieldsAre DEF c
<1>7. "docs" \in DOMAIN c /\ "kept" \in DOMAIN c /\ "query" \notin DOMAIN c /\ "now" \notin DOMAIN c
      /\ "cold" \notin DOMAIN c /\ "seen" \notin DOMAIN c
  BY <1>2
<1> QED
  BY <1>2, <1>3, <1>4, <1>5, <1>6, <1>7, KindsAre

LEMMA ResolveKinds ==
  ASSUME AskInv, AskKinds, AskingIsSound, NEW r \in Calls, _resolve_dates(r) PROVE AskKinds'
<1> DEFINE x == ask[r]
           s == store(r)
           rows(n) == [d \in Urls |-> IF \E i \in 1 .. n : x.docs[i] = d
                                      THEN record_collected(collected[s][d], x.now, -1)
                                      ELSE collected[s][d]]
           seen(n) == [d \in Urls |->
                        IF r \in Records THEN rows(n)[d].seen
                        ELSE IF rows(n)[d].seen >= 0 THEN rows(n)[d].seen ELSE x.now]
           failed == [at |-> "failed"]
           embed(n) == [at |-> "embed", seen |-> seen(n)]
<1>1. PICK n : /\ collected' = IF r \in Records THEN [collected EXCEPT ![s] = rows(n)] ELSE collected
               /\ To(r, failed) \/ To(r, embed(n))
  BY DEF _resolve_dates
<1>2. x.at = "dates" /\ UNCHANGED <<day, chosen, reported>>
  BY DEF _resolve_dates
<1>3. /\ s \in Stores /\ CallKinds(x) /\ collected \in [Stores -> [Urls -> AskRows]]
      /\ x.now \in AskDays /\ x.now \in 0 .. LastDay
  <2>1. s \in Stores
    BY <1>2, StoreIs
  <2>2. CallKinds(x) /\ x.now \in 0 .. LastDay /\ LastDay \in Nat
    BY DEF AskKinds, CallKinds, AskingIsSound
  <2>3. x.now \in AskDays
    BY <2>2 DEF AskDays
  <2> QED
    BY <2>1, <2>2, <2>3 DEF AskKinds, TablesTyped
<1>4. rows(n) \in [Urls -> AskRows]
  <2>1. ASSUME NEW d \in Urls
        PROVE  collected[s][d] \in AskRows /\ record_collected(collected[s][d], x.now, -1) \in AskRows
    <3>1. collected[s][d] \in AskRows
      BY <1>3
    <3> QED
      BY <1>3, <3>1, RowIs
  <2> QED
    BY <2>1
<1>5. seen(n) \in [Urls -> AskDays]
  <2>1. ASSUME NEW d \in Urls PROVE rows(n)[d].seen \in AskDays
    <3> HIDE DEF rows
    <3> QED
      BY <1>4 DEF AskRows
  <2> HIDE DEF rows
  <2> QED
    BY <1>3, <2>1
<1>6. TablesTyped'
  <2> HIDE DEF rows, s
  <2>1. collected' \in [Stores -> [Urls -> AskRows]]
    BY <1>1, <1>3, <1>4
  <2> QED
    BY <1>2, <2>1 DEF AskKinds, TablesTyped
<1>7. /\ DOMAIN failed = {"at"}
      /\ DOMAIN embed(n) = {"at", "seen"} /\ embed(n)["seen"] = seen(n)
  OBVIOUS
<1> HIDE DEF failed, embed, seen, rows
<1>8. CASE To(r, failed)
  BY <1>6, <1>7, <1>8, KindsAre, FieldsAre
<1>9. CASE To(r, embed(n))
  BY <1>5, <1>6, <1>7, <1>9, KindsAre, FieldsAre
<1> QED
  BY <1>1, <1>8, <1>9

LEMMA EmbedKinds ==
  ASSUME AskInv, AskKinds, AskingIsSound, NEW r \in Calls, Embed(r) PROVE AskKinds'
<1> DEFINE x == ask[r]
           kept == _basic_filter(x.docs, x.seen, x.now)
           near == similarity_cutoff(kept)
           good == [at |-> "scores", kept |-> kept, filtered |-> Len(near),
                    clusters |-> greedy_clusters(near)]
           poor == [at |-> "history", kept |-> kept, unembedded |-> kept # <<>>]
<1>1. (To(r, good) \/ To(r, poor)) /\ UNCHANGED <<day, chosen, collected, reported>>
  BY DEF Embed
<1>2. /\ DOMAIN good = {"at", "kept", "filtered", "clusters"} /\ good["kept"] = kept
      /\ DOMAIN poor = {"at", "kept", "unembedded"} /\ poor["kept"] = kept
  OBVIOUS
<1> HIDE DEF good, poor
<1>3. Range(kept) \subseteq Range(x.docs)
  <2> DEFINE new(d) == /\ x.seen[d] >= x.now /\ ~Documents[d].short
                       /\ Published(d, x.seen) >= x.now - Window
             places == {i \in DOMAIN x.docs : new(x.docs[i])}
  <2>1. kept = Subsequence(x.docs, places)
    BY DEF _basic_filter
  <2>2. x.docs \in Seq(Urls)
    BY DEF AskKinds, CallKinds
  <2>3. places \subseteq DOMAIN x.docs
    OBVIOUS
  <2> HIDE DEF places, kept
  <2> QED
    BY <2>1, <2>2, <2>3, SubsequenceIs
<1>4. TablesTyped'
  BY <1>1 DEF AskKinds, TablesTyped
<1> HIDE DEF kept
<1>5. CASE To(r, good)
  BY <1>2, <1>3, <1>4, <1>5, KindsAre, FieldsAre
<1>6. CASE To(r, poor)
  BY <1>2, <1>3, <1>4, <1>6, KindsAre, FieldsAre
<1> QED
  BY <1>1, <1>5, <1>6

\* A score is a number, whatever the size of the cluster.
LEMMA ScoreIs ==
  ASSUME AskingIsSound, NEW d \in Urls, NEW cold \in BOOLEAN, NEW size \in Nat
  PROVE  score_document(d, cold, size) \in Int
<1>1. Documents[d].closeness \in Int /\ (IF cold THEN 1 ELSE Documents[d].fresh) \in Int /\ 9 + size \in Int
  <2>1. Documents[d].closeness \in Nat /\ Documents[d].fresh \in Nat
    BY DEF AskingIsSound
  <2>2. Documents[d].closeness \in Int /\ Documents[d].fresh \in Int /\ 9 + size \in Int
    BY <2>1
  <2> QED
    BY <2>2
<1>2. \A a, b, e \in Int : a * b * e \in Int
  OBVIOUS
<1> QED
  BY <1>1, <1>2 DEF score_document

LEMMA ScoresKinds ==
  ASSUME AskInv, AskKinds, AskingIsSound, NEW r \in Calls, RecordScores(r) PROVE AskKinds'
<1> DEFINE x == ask[r]
           s == store(r)
           near(d) == {e \in Urls : \E c \in Range(x.clusters) : {d, e} \subseteq Range(c)}
           row(d) == record_collected(collected[s][d], x.seen[d],
                                      score_document(d, x.cold, Cardinality(near(d))))
           rows(n) == [d \in Urls |-> IF \E i \in 1 .. n : d \in Range(x.clusters[i])
                                      THEN row(d) ELSE collected[s][d]]
           end(n) == [at |-> IF n < Len(x.clusters) THEN "failed" ELSE "history"]
<1>1. x.at = "scores" /\ UNCHANGED <<day, chosen, reported>>
  BY DEF RecordScores
<1>2. s \in Stores /\ collected \in [Stores -> [Urls -> AskRows]] /\ CallKinds(x)
  BY <1>1, StoreIs DEF AskKinds, TablesTyped
<1>3. PICK n : /\ collected' = IF r \notin Records THEN collected ELSE [collected EXCEPT ![s] = rows(n)]
               /\ To(r, end(n))
  BY <1>2 DEF RecordScores
<1>4. rows(n) \in [Urls -> AskRows]
  <2>1. ASSUME NEW d \in Urls PROVE row(d) \in AskRows /\ collected[s][d] \in AskRows
    <3>1. near(d) \subseteq Urls /\ IsFiniteSet(Urls)
      BY DEF AskingIsSound
    <3>2. Cardinality(near(d)) \in Nat
      <4> HIDE DEF near
      <4> QED
        BY <3>1, FS_Subset, FS_CardinalityType
    <3>3. x.seen[d] \in AskDays /\ x.cold \in BOOLEAN /\ collected[s][d] \in AskRows
      BY <1>2 DEF CallKinds
    <3> HIDE DEF near, s, x
    <3>4. score_document(d, x.cold, Cardinality(near(d))) \in Int
      BY <3>2, <3>3, ScoreIs
    <3> QED
      BY <3>3, <3>4, RowIs
  <2> HIDE DEF row
  <2> QED
    BY <2>1
<1>5. TablesTyped'
  <2> HIDE DEF rows, s
  <2>1. collected' \in [Stores -> [Urls -> AskRows]]
    BY <1>2, <1>3, <1>4
  <2> QED
    BY <1>1, <2>1 DEF AskKinds, TablesTyped
<1>6. DOMAIN end(n) = {"at"}
  OBVIOUS
<1> HIDE DEF end
<1> QED
  BY <1>3, <1>5, <1>6, KindsAre, FieldsAre

LEMMA JudgeKinds ==
  ASSUME AskInv, AskKinds, NEW r \in Calls, Judge(r) PROVE AskKinds'
<1> DEFINE x == ask[r]
           history == reported[store(r)]
           survivors == Survivors(x.clusters, x.cold, x.seen, load_recent_report_items(history, x.now))
           daily == publish_cutoff(x.clusters, x.cold, survivors)
           weekly == _weekly_trend_items(store(r), x.now)
           rejected == Len(x.clusters) - Cardinality(survivors)
           news == [at |-> "record", mode |-> "daily", items |-> daily, judged |-> history, rejected |-> rejected]
           week == [at |-> "route", mode |-> IF weekly = {} THEN "evergreen" ELSE "weekly",
                    items |-> weekly, judged |-> history, rejected |-> rejected]
<1>1. (To(r, news) \/ To(r, week)) /\ UNCHANGED <<day, chosen, collected, reported>>
  BY DEF Judge
<1>2. /\ DOMAIN news = {"at", "mode", "items", "judged", "rejected"} /\ news["mode"] = "daily"
      /\ DOMAIN week = {"at", "mode", "items", "judged", "rejected"}
      /\ week["mode"] \in {"weekly", "evergreen"}
  OBVIOUS
<1>3. TablesTyped'
  BY <1>1 DEF AskKinds, TablesTyped
<1> HIDE DEF news, week
<1>4. CASE To(r, news)
  BY <1>2, <1>3, <1>4, KindsAre, FieldsAre
<1>5. CASE To(r, week)
  BY <1>2, <1>3, <1>5, KindsAre, FieldsAre
<1> QED
  BY <1>1, <1>4, <1>5

LEMMA RecordKinds ==
  ASSUME AskInv, AskKinds, AskingIsSound, NEW r \in Calls, record_report_items(r) PROVE AskKinds'
<1> DEFINE x == ask[r]
           s == store(r)
           rows == [d \in Urls |-> IF d \in x.items THEN x.now
                                   ELSE IF reported[s][d] >= x.now - Lookback THEN reported[s][d] ELSE -1]
           end(ok) == [at |-> IF ok THEN "route" ELSE "failed"]
<1>1. x.at = "record" /\ UNCHANGED <<day, chosen, collected>>
  BY DEF record_report_items
<1>2. /\ s \in Stores /\ reported \in [Stores -> [Urls -> AskDays]]
      /\ x.now \in AskDays /\ -1 \in AskDays
  <2>1. s \in Stores
    BY <1>1, StoreIs
  <2>2. x.now \in 0 .. LastDay /\ LastDay \in Nat
    BY DEF AskKinds, CallKinds, AskingIsSound
  <2>3. x.now \in AskDays /\ -1 \in AskDays
    BY <2>2 DEF AskDays
  <2> QED
    BY <2>1, <2>3 DEF AskKinds, TablesTyped
<1>3. PICK ok : /\ reported' = IF r \notin Records \/ ~ok THEN reported ELSE [reported EXCEPT ![s] = rows]
                /\ To(r, end(ok))
  BY <1>2 DEF record_report_items
<1>4. rows \in [Urls -> AskDays]
  <2>1. \A d \in Urls : reported[s][d] \in AskDays
    BY <1>2
  <2> HIDE DEF s
  <2> QED
    BY <1>2, <2>1
<1>5. TablesTyped'
  <2> HIDE DEF rows, s
  <2>1. reported' \in [Stores -> [Urls -> AskDays]]
    BY <1>2, <1>3, <1>4
  <2> QED
    BY <1>1, <2>1 DEF AskKinds, TablesTyped
<1>6. DOMAIN end(ok) = {"at"}
  OBVIOUS
<1> HIDE DEF end
<1> QED
  BY <1>3, <1>5, <1>6, KindsAre, FieldsAre

LEMMA RouteKinds ==
  ASSUME AskInv, AskKinds, NEW r \in Calls, _select(r) \/ _reformulate(r) \/ _write_report(r)
  PROVE  AskKinds'
<1>1. UNCHANGED <<day, chosen, collected, reported>>
  BY DEF _select, _reformulate, _write_report
<1>2. TablesTyped'
  BY <1>1 DEF AskKinds, TablesTyped
<1>3. CASE _select(r)
  <2> DEFINE outcome == classify(ask[r])
             tried == Append(ask[r].tried, ask[r].query)
             next == [outcome |-> outcome, tried |-> tried,
                      at |-> IF should_reformulate(outcome) /\ Len(tried) <= MaxReformulations
                             THEN "reformulate" ELSE "write"]
  <2>1. To(r, next)
    BY <1>3 DEF _select
  <2>2. DOMAIN next = {"outcome", "tried", "at"}
    OBVIOUS
  <2> HIDE DEF next
  <2> QED
    BY <1>2, <2>1, <2>2, KindsAre, FieldsAre
<1>4. CASE _reformulate(r)
  <2> DEFINE stop == [at |-> "write"]
             again(q) == [at |-> "cold", query |-> q]
  <2>1. To(r, stop) \/ \E q \in Usable : To(r, again(q))
    BY <1>4 DEF _reformulate
  <2>2. DOMAIN stop = {"at"} /\ \A q : DOMAIN again(q) = {"at", "query"} /\ again(q)["query"] = q
    OBVIOUS
  <2> HIDE DEF stop, again
  <2>3. CASE To(r, stop)
    BY <1>2, <2>2, <2>3, KindsAre, FieldsAre
  <2>4. ASSUME NEW q \in Usable, To(r, again(q)) PROVE AskKinds'
    <3>1. DOMAIN again(q) = {"at", "query"} /\ again(q)["query"] = q
      BY <2>2
    <3>2. DOMAIN again(q) \subseteq AskFields
      BY <3>1, FieldsAre
    <3> QED
      BY <1>2, <2>4, <3>1, <3>2, KindsAre
  <2> QED
    BY <2>1, <2>3, <2>4
<1>5. CASE _write_report(r)
  <2> DEFINE end == [at |-> "done"]
  <2>1. To(r, end) /\ DOMAIN end = {"at"}
    BY <1>5 DEF _write_report
  <2> HIDE DEF end
  <2> QED
    BY <1>2, <2>1, KindsAre, FieldsAre
<1> QED
  BY <1>3, <1>4, <1>5

LEMMA AskInitKinds == ASSUME AskInit, AskingIsSound PROVE AskKinds
<1>1. LastDay \in Nat
  BY DEF AskingIsSound
<1>2. -1 \in AskDays /\ 0 \in 0 .. LastDay
  BY <1>1 DEF AskDays
<1>3. TablesTyped
  <2>1. NoRow \in AskRows
    BY <1>2 DEF NoRow, AskRows
  <2> QED
    BY <1>2, <2>1 DEF AskInit, TablesTyped
<1>4. CallKinds(Unasked)
  <2>1. /\ Unasked.query = Keyword /\ Unasked.now = 0 /\ Unasked.cold = FALSE
        /\ Unasked.seen = [d \in Urls |-> -1] /\ Unasked.docs = <<>> /\ Unasked.kept = <<>>
        /\ Unasked.mode = ""
    BY DEF Unasked
  <2>2. <<>> \in Seq(Urls)
    OBVIOUS
  <2>3. [d \in Urls |-> -1] \in [Urls -> AskDays]
    BY <1>2
  <2> QED
    BY <1>2, <2>1, <2>2, <2>3 DEF CallKinds
<1>5. \A r \in Calls : ask[r] = Unasked
  BY DEF AskInit
<1> QED
  BY <1>3, <1>4, <1>5 DEF AskKinds

LEMMA AskKindsKeep == ASSUME AskInv, AskKinds, AskingIsSound, [AskNext]_askVars PROVE AskKinds'
<1>1. CASE NextDay
  <2>1. day \in 0 .. LastDay /\ LastDay \in Nat
    BY DEF AskKinds, TablesTyped, AskingIsSound
  <2>2. day < LastDay /\ day' = day + 1 /\ UNCHANGED <<collected, reported, ask>>
    BY <1>1 DEF NextDay
  <2>3. day' \in 0 .. LastDay
    BY <2>1, <2>2
  <2> QED
    BY <2>2, <2>3 DEF AskKinds, TablesTyped
<1>2. CASE \E r \in Calls : Serve(r)
  BY <1>2, PlanKinds, StartKinds, CollectKinds, ResolveKinds, EmbedKinds, ScoresKinds, JudgeKinds,
     RecordKinds, RouteKinds DEF Serve
<1>3. CASE UNCHANGED askVars
  BY <1>3 DEF askVars, AskKinds, TablesTyped
<1> QED
  BY <1>1, <1>2, <1>3 DEF AskNext

LEMMA NewsFollows == AskInv /\ AskKinds => NewsIsNew
<1> SUFFICES ASSUME AskInv, AskKinds PROVE NewsIsNew
  OBVIOUS
<1>1. RetriesCanHelp
  BY DEF AskInv, Asked, TriedSound, RetriesCanHelp
<1>2. NewsIsReportedOnce
  BY DEF AskInv, PublishesNews, Recent, NewsIsReportedOnce
<1>3. SameDayRepeats
  BY SameInput DEF SameDayRepeats
<1>4. AskTypeOK
  <2>1. /\ day \in 0 .. LastDay /\ collected \in [Stores -> [Urls -> [seen : -1 .. LastDay, score : Int]]]
        /\ reported \in [Stores -> [Urls -> -1 .. LastDay]]
    BY DEF AskKinds, TablesTyped, AskRows, AskDays
  <2>2. chosen \in [Range(Process) -> Stores \cup {""}]
    BY DEF AskInv, AskTyped
  <2>3. ASSUME NEW r \in Calls
        PROVE  /\ ask[r].at \in AskSteps /\ ask[r].now \in 0 .. LastDay /\ ask[r].tried \in Seq(Texts)
               /\ Range(ask[r].docs) \subseteq Urls /\ Range(ask[r].kept) \subseteq Range(ask[r].docs)
               /\ ask[r].mode \in {"", "daily", "weekly", "evergreen"}
    <3>1. CallKinds(ask[r]) /\ ask[r].at \in AskSteps /\ ask[r].tried \in Seq(Texts)
      BY DEF AskKinds, AskInv, Asked, CallTyped, TriedSound
    <3>2. Range(ask[r].docs) \subseteq Urls
      <4>1. ask[r].docs \in Seq(Urls)
        BY <3>1 DEF CallKinds
      <4>2. \A i \in DOMAIN ask[r].docs : ask[r].docs[i] \in Urls
        BY <4>1
      <4> QED
        BY <4>2 DEF Range
    <3> QED
      BY <3>1, <3>2 DEF CallKinds
  <2>4. ASSUME NEW r \in Calls
        PROVE  ask[r].at \in {"plan", "cold", "collect", "dates", "embed", "scores", "history",
                              "record", "route", "reformulate", "write", "done", "failed"}
    BY <2>3 DEF AskSteps, Attempting, Judged, Written
  <2> QED
    BY <2>1, <2>2, <2>3, <2>4, Zenon DEF AskTypeOK, Texts
<1> QED
  BY <1>1, <1>2, <1>3, <1>4 DEF NewsIsNew

\* Whatever days pass, sources, vectors and databases fail and requests cross: a request
\* of the assistant (service.py, assist_daily_agent) has one store, tries queries that it
\* has not tried, judges by the rows that it started from, and publishes what its filters,
\* clusters and those rows give.
THEOREM AskingInvariant == ASSUME AskingIsSound PROVE AskSpec => []AskInv
<1>1. AskInit => AskInv
  BY AskInitInv
<1>2. AskInv /\ [AskNext]_askVars => AskInv'
  BY AskNextKeeps
<1> QED
  BY <1>1, <1>2, PTL DEF AskSpec

LEMMA AskingKinds == ASSUME AskingIsSound PROVE AskSpec => []AskKinds
<1>1. AskInit => AskKinds
  BY AskInitKinds
<1>2. AskInv /\ AskKinds /\ [AskNext]_askVars => AskKinds'
  BY AskKindsKeep
<1> QED
  BY <1>1, <1>2, AskingInvariant, PTL DEF AskSpec

\* What the assistant publishes is new, for however many requests, processes, documents
\* and days: no text of the last week is reported again unless its row was rewritten
\* meanwhile (dedup.py, check_duplicate), two requests that differ in today's rows only
\* publish the same, and a search is repeated only with a new query that may help.
THEOREM NewsIsAlwaysNew == ASSUME AskingIsSound PROVE AskSpec => []NewsIsNew
<1>1. AskInv /\ AskKinds => NewsIsNew
  BY NewsFollows
<1> QED
  BY <1>1, AskingInvariant, AskingKinds, PTL
=============================================================================
