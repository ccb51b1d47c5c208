------------------------------ MODULE JobQueue ------------------------------
(***************************************************************************)
(* The PostgreSQL job queue of bambi-agent-api: the rows of                *)
(* agent.agent_jobs, agent.agent_job_attempts and agent.wiki_source_events *)
(* as infrastructure/persistence/features/jobs.py reads and writes them,   *)
(* the execution slots of workers/features/batch_runner.py that claim jobs *)
(* under a lease, the scheduler's reaper (JOB-009) and the wiki reset.     *)
(*                                                                         *)
(* Every action is one committed transaction, or one step of a slot that   *)
(* happens between two transactions.  The statements of a transaction lock *)
(* the job row first (UPDATE ... RETURNING, FOR UPDATE SKIP LOCKED), so a  *)
(* transaction is atomic with respect to the others on the same job.       *)
(*                                                                         *)
(* Time is relative: a row keeps the ticks left until lease_expires_at and *)
(* until scheduled_at, and Tick lets one tick pass for every row at once.  *)
(* A lease of 0 is the instant lease_expires_at = clock_timestamp(), at    *)
(* which the lease is no longer valid and not yet expired.  created_at is  *)
(* read only until the first claim: wait is 0 from then on.                *)
(***************************************************************************)
EXTENDS Integers, FiniteSets

CONSTANTS
  WikiJobs,     \* jobs of type personal_wiki_build, of one user
  ReportJobs,   \* jobs of type report_generation (may wait for a provider)
  Slots,        \* execution slots (asyncio tasks) of all worker processes
  WorkerIds,    \* values of agent_jobs.locked_by
  WorkerOf,     \* the worker id a slot claims with
  MaxAttempts,  \* agent_jobs.max_attempts
  LeaseTicks,   \* lease_seconds, in ticks
  MaxDelay,     \* bound on the quiet window and on a retry's backoff, in ticks
  MaxWait,      \* the quiet window's max_wait_minutes, in ticks
  None          \* SQL NULL

ASSUME JobsAssumption == WikiJobs \cap ReportJobs = {}
ASSUME WorkerAssumption == WorkerOf \in [Slots -> WorkerIds] /\ None \notin WorkerIds
ASSUME NoneAssumption == None \notin WikiJobs \cup ReportJobs
ASSUME BoundsAssumption ==
  MaxAttempts \in Nat \ {0} /\ LeaseTicks \in Nat \ {0}
  /\ MaxDelay \in Nat /\ MaxWait \in Nat

Jobs == WikiJobs \cup ReportJobs

VARIABLES
  job,    \* agent_jobs: status, attempt_count, locked_by and the
          \* ticks to lease_expires_at, scheduled_at, created_at + max_wait
  att,    \* agent_job_attempts: the status of row (job_id, attempt_number)
  event,  \* wiki_source_events: the status of the row linked to the job
  slot    \* what a slot remembers of the job it claimed

vars == <<job, att, event, slot>>

Status == {"absent", "queued", "running", "waiting_provider",
           "completed", "failed", "cancelled"}
AttemptStatus == {"none", "running", "completed", "failed", "timed_out"}
EventStatus == {"none", "received", "processing", "completed", "failed"}
Attempts == 1 .. MaxAttempts

JobRow == [status : Status, attempts : 0 .. MaxAttempts,
           lockedBy : WorkerIds \cup {None}, lease : -1 .. LeaseTicks,
           delay : 0 .. MaxDelay, wait : 0 .. MaxWait]
SlotState == [pc : {"idle", "working", "finished", "failing"},
              job : Jobs \cup {None}, attempt : 0 .. MaxAttempts,
              retryable : BOOLEAN]

AbsentJob == [status |-> "absent", attempts |-> 0, lockedBy |-> None,
              lease |-> -1, delay |-> 0, wait |-> 0]
IdleSlot == [pc |-> "idle", job |-> None, attempt |-> 0, retryable |-> FALSE]

Init ==
  /\ job = [j \in Jobs |-> AbsentJob]
  /\ att = [j \in Jobs |-> [n \in Attempts |-> "none"]]
  /\ event = [j \in Jobs |-> "none"]
  /\ slot = [s \in Slots |-> IdleSlot]

-----------------------------------------------------------------------------
(* Conditions and effects of the SQL statements.  A definition that ends   *)
(* in _Mutant is the next one with a plausible slip: it is used nowhere in *)
(* the specification and serves to show that a property can fail.          *)

LeaseValid(j) == job[j].lease > 0
LeaseExpired(j) == job[j].lease < 0

Claimable_Mutant(j) ==
  \/ job[j].status = "queued"
  \/ job[j].status = "running" /\ LeaseExpired(j)

\* The WHERE of claim_agent_job_by_id; the queue claim adds scheduled_at.
Claimable(j) ==
  /\ job[j].attempts < MaxAttempts
  /\ \/ job[j].status = "queued"
     \/ job[j].status = "running" /\ LeaseExpired(j)

Owns_Mutant(s) ==
  LET j == slot[s].job
  IN  job[j].status = "running" /\ LeaseValid(j)

\* The WHERE of the complete, defer and fail statements: the worker id and
\* the lease are compared, attempt_count is not.
Owns(s) ==
  LET j == slot[s].job
  IN  /\ job[j].status = "running"
      /\ job[j].lockedBy = WorkerOf[s]
      /\ LeaseValid(j)

Reapable_Mutant(j) ==
  /\ job[j].status = "running"
  /\ LeaseExpired(j)
  /\ job[j].attempts > MaxAttempts

\* JOB-009: the lease of the last attempt expired.
Reapable(j) ==
  /\ job[j].status = "running"
  /\ LeaseExpired(j)
  /\ job[j].attempts >= MaxAttempts

CanRetry_Mutant(s) == slot[s].retryable /\ slot[s].attempt <= MaxAttempts

\* fail_agent_job compares the attempt number the slot claimed with, not
\* the row's attempt_count.
CanRetry(s) == slot[s].retryable /\ slot[s].attempt < MaxAttempts

Unlocked_Mutant(row, status) ==
  [row EXCEPT !.status = status, !.lease = -1, !.wait = 0]

\* locked_at, locked_by and lease_expires_at are cleared together.
Unlocked(row, status) ==
  [row EXCEPT !.status = status, !.lockedBy = None, !.lease = -1,
              !.wait = 0]

CloseRunning_Mutant(rows, verdict) ==
  [n \in Attempts |-> IF rows[n] /= "none" THEN verdict ELSE rows[n]]

CloseRunning(rows, verdict) ==
  [n \in Attempts |-> IF rows[n] = "running" THEN verdict ELSE rows[n]]

\* A job without a linked event has no row for the UPDATE to match.
EventBecomes(j, status) ==
  event' = [event EXCEPT ![j] = IF @ = "none" THEN "none" ELSE status]

-----------------------------------------------------------------------------
(* Enqueueing.                                                             *)

FreshWikiJobs ==
  {j \in WikiJobs : job[j].status = "queued" /\ job[j].attempts = 0}

QuietWindow_Mutant(rows, pending, horizon, quiet) ==
  [k \in Jobs |-> IF k \in pending THEN [rows[k] EXCEPT !.delay = quiet]
                  ELSE rows[k]]

\* The quiet window over a set of jobs: all get the time now + quiet, but
\* no later than the horizon.
QuietWindow(rows, pending, horizon, quiet) ==
  [k \in Jobs |->
     IF k \in pending
     THEN [rows[k] EXCEPT !.delay = IF horizon < quiet THEN horizon ELSE quiet]
     ELSE rows[k]]

\* The horizon: max_wait after the creation of the oldest pending job.
IsHorizon(h, rows, pending) ==
  /\ \A p \in pending : h <= rows[p].wait
  /\ pending /= {} => \E p \in pending : h = rows[p].wait

UpsertedEvent_Mutant(status) == "received"

UpsertedEvent(status) == IF status = "completed" THEN status ELSE "received"

\* Saving a web clipping: the event is upserted as received unless it is
\* completed, the build job is inserted unless its idempotency key exists,
\* and the quiet window moves every never-claimed wiki job of the user.
SubmitSource(j) ==
  LET new == job[j].status = "absent"
      rows == IF new THEN [job EXCEPT ![j] = [AbsentJob EXCEPT !.status = "queued",
                                                              !.wait = MaxWait]]
              ELSE job
      pending == FreshWikiJobs \cup (IF new THEN {j} ELSE {})
  IN  /\ j \in WikiJobs
      /\ new \/ event[j] /= "none"
      /\ \E quiet \in 0 .. MaxDelay, horizon \in 0 .. MaxWait :
           /\ IsHorizon(horizon, rows, pending)
           /\ job' = QuietWindow(rows, pending, horizon, quiet)
      /\ event' = [event EXCEPT ![j] = UpsertedEvent(@)]
      /\ UNCHANGED <<att, slot>>

\* A report, or a rebuild of the whole wiki, runs as soon as it is inserted
\* and has no source event.
EnqueueNow(j) ==
  /\ job[j].status = "absent"
  /\ job' = [job EXCEPT ![j].status = "queued",
                        ![j].wait = IF j \in WikiJobs THEN MaxWait ELSE 0]
  /\ UNCHANGED <<att, event, slot>>

\* "Apply to the wiki now": every queued wiki job, backed off or not.
ReleaseWikiJobs ==
  /\ \E j \in WikiJobs : job[j].status = "queued" /\ job[j].delay > 0
  /\ job' = [j \in Jobs |->
               IF j \in WikiJobs /\ job[j].status = "queued"
               THEN [job[j] EXCEPT !.delay = 0] ELSE job[j]]
  /\ UNCHANGED <<att, event, slot>>

-----------------------------------------------------------------------------
(* Claiming and keeping a lease.                                           *)

ClaimedAttempts_Mutant(rows, n) ==
  [k \in Attempts |-> IF k = n /\ rows[k] = "none" THEN "running" ELSE rows[k]]

\* _record_claimed_attempt: older running rows are closed and row n opened.
ClaimedAttempts(rows, n) ==
  [k \in Attempts |->
     IF k = n /\ rows[k] = "none" THEN "running"
     ELSE IF k < n /\ rows[k] = "running" THEN "timed_out"
     ELSE rows[k]]

TakeLease(s, j) ==
  LET n == job[j].attempts + 1
  IN  /\ slot[s].pc = "idle"
      /\ Claimable(j)
      /\ job' = [job EXCEPT ![j].status = "running", ![j].attempts = n,
                            ![j].lockedBy = WorkerOf[s], ![j].lease = LeaseTicks,
                            ![j].wait = 0]
      /\ att' = [att EXCEPT ![j] = ClaimedAttempts(@, n)]
      /\ EventBecomes(j, "processing")
      /\ slot' = [slot EXCEPT ![s] = [pc |-> "working", job |-> j,
                                      attempt |-> n, retryable |-> FALSE]]

Claim(s, j) == job[j].delay = 0 /\ TakeLease(s, j)

\* The development run names the job and ignores scheduled_at.
ClaimById(s, j) == job[j].delay > 0 /\ TakeLease(s, j)

\* One heartbeat of a slot whose operation is still running.
ExtendLease(s) ==
  /\ slot[s].pc = "working"
  /\ Owns(s)
  /\ slot[s].attempt = job[slot[s].job].attempts
  /\ job' = [job EXCEPT ![slot[s].job].lease = LeaseTicks]
  /\ UNCHANGED <<att, event, slot>>

\* The heartbeat neither renewed the lease nor found its own attempt
\* completed: its RuntimeError cancels the operation and is not retryable.
HeartbeatLost(s) ==
  LET j == slot[s].job
  IN  /\ slot[s].pc = "working"
      /\ ~ (Owns(s) /\ slot[s].attempt = job[j].attempts)
      /\ att[j][slot[s].attempt] /= "completed"
      /\ slot' = [slot EXCEPT ![s].pc = "failing", ![s].retryable = FALSE]
      /\ UNCHANGED <<job, att, event>>

-----------------------------------------------------------------------------
(* How a slot ends the job it claimed.                                     *)

\* The processor's last transaction: job, attempt row and source event.
Complete(s) ==
  LET j == slot[s].job
  IN  /\ slot[s].pc = "working"
      /\ Owns(s)
      /\ job' = [job EXCEPT ![j] = Unlocked(@, "completed")]
      /\ att' = [att EXCEPT ![j][slot[s].attempt] = "completed"]
      /\ EventBecomes(j, "completed")
      /\ slot' = [slot EXCEPT ![s].pc = "finished"]

\* A report staged for the provider's batch API gives its lease back.
DeferToProvider(s) ==
  LET j == slot[s].job
  IN  /\ slot[s].pc = "working"
      /\ j \in ReportJobs
      /\ Owns(s)
      /\ job' = [job EXCEPT ![j] = Unlocked(@, "waiting_provider")]
      /\ att' = [att EXCEPT ![j][slot[s].attempt] = "completed"]
      /\ slot' = [slot EXCEPT ![s].pc = "finished"]
      /\ UNCHANGED event

\* The operation raises: an error of its own, the RuntimeError of a
\* completion that found the lease lost, or one after its completion.
Raise(s, retryable) ==
  /\ slot[s].pc \in {"working", "finished"}
  /\ slot' = [slot EXCEPT ![s].pc = "failing", ![s].retryable = retryable]
  /\ UNCHANGED <<job, att, event>>

ReturnResult(s) ==
  /\ slot[s].pc = "finished"
  /\ slot' = [slot EXCEPT ![s] = IdleSlot]
  /\ UNCHANGED <<job, att, event>>

\* A retryable failure puts the job back in the queue behind a backoff.
RecordFailure(s) ==
  LET j == slot[s].job
      retry == CanRetry(s)
  IN  /\ slot[s].pc = "failing"
      /\ Owns(s)
      /\ \E d \in (IF retry THEN 0 .. MaxDelay ELSE {job[j].delay}) :
           job' = [job EXCEPT ![j] =
                     [Unlocked(@, IF retry THEN "queued" ELSE "failed")
                        EXCEPT !.delay = d]]
      /\ att' = [att EXCEPT ![j][slot[s].attempt] = "failed"]
      /\ EventBecomes(j, IF retry THEN "received" ELSE "failed")
      /\ slot' = [slot EXCEPT ![s] = IdleSlot]

\* The failure could not be recorded: the result is lease_lost.
ReportLeaseLost(s) ==
  /\ slot[s].pc = "failing"
  /\ ~ Owns(s)
  /\ slot' = [slot EXCEPT ![s] = IdleSlot]
  /\ UNCHANGED <<job, att, event>>

\* The process dies, or the slot's task is cancelled without cleaning up.
Crash(s) ==
  /\ slot[s].pc /= "idle"
  /\ slot' = [slot EXCEPT ![s] = IdleSlot]
  /\ UNCHANGED <<job, att, event>>

-----------------------------------------------------------------------------
(* Steps of others: the scheduler, the batch applier, a reset, time.       *)

\* The scheduler closes the job, its running attempts and its event.
Reap(j) ==
  /\ Reapable(j)
  /\ job' = [job EXCEPT ![j] = Unlocked(@, "failed")]
  /\ att' = [att EXCEPT ![j] = CloseRunning(@, "timed_out")]
  /\ EventBecomes(j, "failed")
  /\ UNCHANGED slot

CompleteWaitingProvider(j) ==
  /\ job[j].status = "waiting_provider"
  /\ job' = [job EXCEPT ![j].status = "completed"]
  /\ UNCHANGED <<att, event, slot>>

JobsToCancel_Mutant ==
  {j \in WikiJobs : job[j].status \in {"queued", "running", "failed"}}

JobsToCancel == {j \in WikiJobs : job[j].status \in {"queued", "running"}}

\* The reset cancels the user's queued and running wiki builds and fails
\* the running attempts of every job a reset cancelled; the jobs' source
\* events keep their status and the slots are not told.
ResetWiki ==
  /\ JobsToCancel /= {}
  /\ job' = [j \in Jobs |->
               IF j \in JobsToCancel THEN Unlocked(job[j], "cancelled") ELSE job[j]]
  /\ att' = [j \in Jobs |->
               IF j \in WikiJobs /\ job'[j].status = "cancelled"
               THEN CloseRunning(att[j], "failed") ELSE att[j]]
  /\ UNCHANGED <<event, slot>>

Tick ==
  /\ \E j \in Jobs : \/ job[j].status = "running" /\ job[j].lease >= 0
                     \/ job[j].delay > 0 \/ job[j].wait > 0
  /\ job' = [j \in Jobs |->
               [job[j] EXCEPT !.lease = IF @ >= 0 THEN @ - 1 ELSE @,
                              !.delay = IF @ > 0 THEN @ - 1 ELSE @,
                              !.wait = IF @ > 0 THEN @ - 1 ELSE @]]
  /\ UNCHANGED <<att, event, slot>>

SlotStep(s) ==
  \/ \E j \in Jobs : Claim(s, j) \/ ClaimById(s, j)
  \/ ExtendLease(s)
  \/ HeartbeatLost(s)
  \/ Complete(s)
  \/ DeferToProvider(s)
  \/ \E retryable \in BOOLEAN : Raise(s, retryable)
  \/ ReturnResult(s)
  \/ RecordFailure(s)
  \/ ReportLeaseLost(s)
  \/ Crash(s)

Next ==
  \/ \E j \in Jobs : SubmitSource(j) \/ EnqueueNow(j) \/ Reap(j)
                     \/ CompleteWaitingProvider(j)
  \/ \E s \in Slots : SlotStep(s)
  \/ ReleaseWikiJobs
  \/ ResetWiki
  \/ Tick

Spec == Init /\ [][Next]_vars

\* Scheduling the code provides: the worker loops keep claiming due jobs, an
\* operation ends (every model call has a timeout), the failure path runs,
\* the scheduler's tick reaps, and time passes.  Nothing is assumed of the
\* heartbeat, of crashes, of the development run or of the users.
EndOperation(s) ==
  Complete(s) \/ DeferToProvider(s) \/ HeartbeatLost(s)
  \/ \E retryable \in BOOLEAN : Raise(s, retryable)
CloseAttempt(s) == ReturnResult(s) \/ RecordFailure(s) \/ ReportLeaseLost(s)

Fairness ==
  /\ WF_vars(Tick)
  /\ \A j \in Jobs : WF_vars(Reap(j)) /\ WF_vars(\E s \in Slots : Claim(s, j))
  /\ \A s \in Slots : WF_vars(EndOperation(s)) /\ WF_vars(CloseAttempt(s))

FairSpec == Spec /\ Fairness

-----------------------------------------------------------------------------
(* Properties.                                                             *)

\* Every row and every slot has its type; attempt counts stay within the limit.
TypeOK ==
  /\ job \in [Jobs -> JobRow]
  /\ att \in [Jobs -> [Attempts -> AttemptStatus]]
  /\ event \in [Jobs -> EventStatus]
  /\ slot \in [Slots -> SlotState]

\* No zombie attempt (jobs.py 179-183, migration 0030): an attempt row that
\* is still running is the current attempt of a running job, and a running
\* job has such a row.
NoZombieAttempt ==
  \A j \in Jobs : \A n \in Attempts :
    att[j][n] = "running"
      <=> job[j].status = "running" /\ n = job[j].attempts

\* Attempts are numbered without gaps and attempt_count counts them.
AttemptsCounted ==
  \A j \in Jobs : \A n \in Attempts : att[j][n] /= "none" <=> n <= job[j].attempts

\* A queued job can still be claimed: it has an attempt left.  Neither the
\* claim nor the reaper would ever look at it otherwise.
QueuedIsClaimable ==
  \A j \in Jobs : job[j].status = "queued" => job[j].attempts < MaxAttempts

\* Success is recorded once: at most one attempt of a job is completed, only
\* when the job is completed or waits for the provider, and the job's source
\* event says completed exactly when the job does.
SuccessRecordedOnce ==
  \A j \in Jobs :
    /\ \A n, m \in Attempts :
         att[j][n] = "completed" /\ att[j][m] = "completed" => n = m
    /\ job[j].status \in {"completed", "waiting_provider"}
         <=> \E n \in Attempts : att[j][n] = "completed"
    /\ event[j] /= "none"
         => (event[j] = "completed" <=> job[j].status = "completed")

\* One attempt, one slot: two slots never work on the same attempt of a job,
\* and a job has a lock owner exactly while it is running.
OneSlotPerAttempt ==
  /\ \A s, t \in Slots :
       /\ slot[s].pc /= "idle" /\ slot[t].pc /= "idle"
       /\ slot[s].job = slot[t].job /\ slot[s].attempt = slot[t].attempt
       => s = t
  /\ \A j \in Jobs : (job[j].lockedBy /= None) <=> job[j].status = "running"

\* The tables agree with each other and with what the slots do, whoever claims, reaps,
\* resets or crashes meanwhile (jobs.py).
RowsAgree ==
  /\ NoZombieAttempt
  /\ QueuedIsClaimable
  /\ SuccessRecordedOnce
  /\ OneSlotPerAttempt

\* What ended is final: no step changes the status of a completed, failed or
\* cancelled job, whichever slot still believes it runs it.
EndedJobStaysEnded ==
  \A j \in Jobs :
    job[j].status \in {"completed", "failed", "cancelled"}
      => job'[j].status = job[j].status

\* The verdict of an attempt is written once: no step rewrites a closed
\* attempt row, although the UPDATEs that close a row do not test its status.
VerdictIsFinal ==
  \A j \in Jobs : \A n \in Attempts :
    att[j][n] \in {"completed", "failed", "timed_out"}
      => att'[j][n] = att[j][n]

\* A worker ends a running job only under the attempt it claimed: when a slot
\* moves a job out of running, the slot holds the job's current attempt
\* (batch_runner.py 260-261: a completion after the lease was lost fails).
OnlyCurrentAttemptEndsJob ==
  [][\A s \in Slots :
       LET j == slot[s].job
       IN  slot'[s] /= slot[s] /\ j /= None
             /\ job[j].status = "running" /\ job'[j].status /= "running"
           => slot[s].attempt = job[j].attempts]_vars

\* A stale failure is dropped (batch_runner.py 294-296): a slot that is
\* recording a failure of an attempt that was superseded changes no row.
StaleFailureIsDropped ==
  \A s \in Slots :
    slot[s].pc = "failing" /\ slot'[s].pc = "idle"
      /\ slot[s].attempt /= job[slot[s].job].attempts
    => UNCHANGED <<job, att, event>>

\* What was decided stays: of jobs, of attempts, and against slots that are late.
DecisionsStay == [][EndedJobStaysEnded /\ VerdictIsFinal /\ StaleFailureIsDropped]_vars

\* Every job that is enqueued is eventually completed, failed, cancelled or
\* handed to the provider, whatever crashes on the way and however often new
\* sources postpone its quiet window (defer_user_wiki_build_jobs postpones
\* never past created_at + max_wait, jobs.py 1467-1476).
Settled(j) ==
  job[j].status \in {"completed", "failed", "cancelled", "waiting_provider"}
EnqueuedJobSettles ==
  \A j \in Jobs : job[j].status = "queued" ~> Settled(j)

=============================================================================
