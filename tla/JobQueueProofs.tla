--------------------------- MODULE JobQueueProofs ---------------------------
(***************************************************************************)
(* Proofs about JobQueue for any number of jobs, slots and attempts, and   *)
(* that it implements AttemptLog for every job: the initial state maps to  *)
(* the empty log, a step to one step of the log or to none.  The theorems  *)
(* need UniqueWorkers: a completion looks at the worker id only.           *)
(***************************************************************************)
EXTENDS JobQueueLog, TLAPS, SequenceTheorems

UniqueWorkers == \A s, t \in Slots : WorkerOf[s] = WorkerOf[t] => s = t

\* What a slot remembers is in the past of the job it names.
SlotInv ==
  \A s \in Slots :
    slot[s].pc /= "idle"
      => /\ slot[s].job \in Jobs
         /\ slot[s].attempt \in 1 .. job[slot[s].job].attempts

OneSlot ==
  \A s, t \in Slots :
    /\ slot[s].pc /= "idle" /\ slot[t].pc /= "idle"
    /\ slot[s].job = slot[t].job /\ slot[s].attempt = slot[t].attempt
    => s = t

\* The lease of a slot's own worker on its job is the slot's own lease.
OwnerIsCurrent ==
  \A s \in Slots :
    /\ slot[s].pc /= "idle"
    /\ job[slot[s].job].status = "running"
    /\ job[slot[s].job].lockedBy = WorkerOf[s]
    => slot[s].attempt = job[slot[s].job].attempts

\* What the rows of one job say about each other.
LockedIffRunning(j) == (job[j].lockedBy /= None) <=> job[j].status = "running"

AttemptLeft(j) ==
  /\ job[j].status = "absent" => job[j].attempts = 0
  /\ job[j].status = "queued" => job[j].attempts < MaxAttempts

RowsMatchJob(j) ==
  \A n \in Attempts :
    /\ att[j][n] = "none" <=> n > job[j].attempts
    /\ att[j][n] = "running"
         <=> job[j].status = "running" /\ n = job[j].attempts
    /\ att[j][n] = "completed"
         <=> /\ job[j].status \in {"completed", "waiting_provider"}
             /\ n = job[j].attempts
    /\ job[j].status \in {"running", "completed", "waiting_provider"}
         => job[j].attempts > 0

EventMatchesJob(j) ==
  /\ event[j] /= "none" => j \in WikiJobs
  /\ event[j] /= "none"
       => (event[j] = "completed" <=> job[j].status = "completed")
  /\ job[j].status = "waiting_provider" => j \in ReportJobs
  /\ job[j].status = "absent" => event[j] = "none"

RowInv(j) ==
  LockedIffRunning(j) /\ AttemptLeft(j) /\ RowsMatchJob(j) /\ EventMatchesJob(j)

IInv ==
  /\ TypeOK
  /\ SlotInv
  /\ OneSlot
  /\ OwnerIsCurrent
  /\ \A j \in Jobs : RowInv(j)

-----------------------------------------------------------------------------
(* The inductive invariant holds initially and no action breaks it.        *)

LEMMA InitInv == Init => IInv
BY JobsAssumption, WorkerAssumption, NoneAssumption, BoundsAssumption
   DEF Init, IInv, TypeOK, SlotInv, OneSlot, OwnerIsCurrent, RowInv, LockedIffRunning,
       AttemptLeft, RowsMatchJob, EventMatchesJob, AbsentJob, IdleSlot, JobRow,
       SlotState, Status, AttemptStatus, EventStatus, Attempts, Jobs

\* A step that leaves the rows of a job alone keeps what they say.
LEMMA SameRows ==
  ASSUME NEW j \in Jobs, RowInv(j),
         job'[j] = job[j], att'[j] = att[j], event'[j] = event[j]
  PROVE  RowInv(j)'
BY DEF RowInv, LockedIffRunning, AttemptLeft, RowsMatchJob, EventMatchesJob

LEMMA TakeLeaseKeeps ==
  ASSUME UniqueWorkers, IInv, NEW s \in Slots, NEW j \in Jobs, TakeLease(s, j)
  PROVE  IInv'
<1> DEFINE n == job[j].attempts + 1
<1>1. /\ job[j] \in JobRow /\ RowInv(j)
      /\ job[j].status \in {"queued", "running"}
      /\ n \in Attempts
  BY BoundsAssumption DEF IInv, TypeOK, TakeLease, Claimable, JobRow, Attempts
<1>2. /\ job'[j] = [job[j] EXCEPT !.status = "running", !.attempts = n,
                                  !.lockedBy = WorkerOf[s],
                                  !.lease = LeaseTicks, !.wait = 0]
      /\ att'[j] = ClaimedAttempts(att[j], n)
      /\ event'[j] = IF event[j] = "none" THEN "none" ELSE "processing"
      /\ \A k \in Jobs \ {j} : job'[k] = job[k] /\ att'[k] = att[k]
                               /\ event'[k] = event[k]
  BY DEF IInv, TypeOK, TakeLease, EventBecomes
<1>3. /\ slot'[s] = [pc |-> "working", job |-> j, attempt |-> n, retryable |-> FALSE]
      /\ \A t \in Slots \ {s} : slot'[t] = slot[t]
  BY DEF IInv, TypeOK, TakeLease
<1>4. TypeOK'
  <2>0. /\ "running" \in Status /\ n \in 0 .. MaxAttempts
        /\ WorkerOf[s] \in WorkerIds \cup {None}
        /\ LeaseTicks \in -1 .. LeaseTicks /\ 0 \in 0 .. MaxWait
    BY <1>1, WorkerAssumption, BoundsAssumption DEF Status, Attempts
  <2>1. job'[j] \in JobRow
    BY <1>1, <1>2, <2>0, Zenon DEF JobRow
  <2>2. att'[j] \in [Attempts -> AttemptStatus]
    BY <1>1, <1>2 DEF IInv, TypeOK, ClaimedAttempts, AttemptStatus
  <2>3. event'[j] \in EventStatus /\ slot'[s] \in SlotState
    BY <1>1, <1>2, <1>3 DEF SlotState, EventStatus, Attempts
  <2> QED
    BY <2>1, <2>2, <2>3 DEF IInv, TypeOK, TakeLease, EventBecomes
<1>5. RowInv(j)'
  <2>1. /\ job'[j].status = "running" /\ job'[j].attempts = n
        /\ job'[j].lockedBy /= None
    BY <1>1, <1>2, WorkerAssumption DEF JobRow
  <2>2. RowsMatchJob(j)'
    BY <1>1, <1>2, <2>1
    DEF RowInv, RowsMatchJob, ClaimedAttempts, JobRow, Attempts
  <2> QED
    BY <1>1, <1>2, <2>1, <2>2
    DEF RowInv, LockedIffRunning, AttemptLeft, EventMatchesJob
<1>6. \A k \in Jobs : RowInv(k)'
  BY <1>2, <1>5, SameRows DEF IInv
<1>7. SlotInv' /\ OwnerIsCurrent'
  <2>1. job'[j].attempts = n /\ job'[j].lockedBy = WorkerOf[s]
    BY <1>1, <1>2 DEF JobRow
  <2> SUFFICES ASSUME NEW t \in Slots, slot'[t].pc /= "idle"
               PROVE  /\ slot'[t].job \in Jobs
                      /\ slot'[t].attempt \in 1 .. job'[slot'[t].job].attempts
                      /\ job'[slot'[t].job].lockedBy = WorkerOf[t]
                           /\ job'[slot'[t].job].status = "running"
                         => slot'[t].attempt = job'[slot'[t].job].attempts
    BY DEF SlotInv, OwnerIsCurrent
  <2>2. CASE t = s
    BY <1>1, <1>3, <2>1, <2>2 DEF Attempts
  <2>3. CASE t /= s
    <3>1. slot'[t] = slot[t] /\ WorkerOf[t] /= WorkerOf[s]
      BY <1>3, <2>3 DEF UniqueWorkers
    <3>2. CASE slot[t].job = j
      BY <1>1, <2>1, <3>1, <3>2 DEF IInv, SlotInv, Attempts, JobRow
    <3>3. CASE slot[t].job /= j
      BY <1>2, <3>1, <3>3 DEF IInv, SlotInv, OwnerIsCurrent
    <3> QED
      BY <3>2, <3>3
  <2> QED
    BY <2>2, <2>3
<1>8. OneSlot'
  <2>1. \A t \in Slots \ {s} :
          slot[t].pc /= "idle" /\ slot[t].job = j => slot[t].attempt < n
    BY <1>1 DEF IInv, SlotInv, JobRow
  <2> QED
    BY <1>1, <1>3, <2>1 DEF IInv, OneSlot, Attempts
<1> QED
  BY <1>4, <1>6, <1>7, <1>8 DEF IInv

\* Every other step keeps the attempt numbers, opens no lease and lets a
\* slot keep or drop its memory: what slots remember stays right.
LEMMA MemoryKept ==
  ASSUME IInv,
         \A k \in Jobs :
           /\ job'[k].attempts = job[k].attempts
           /\ job'[k].status = "running"
                => job[k].status = "running" /\ job'[k].lockedBy = job[k].lockedBy,
         \A t \in Slots :
           \/ slot'[t].pc = "idle"
           \/ slot[t].pc /= "idle" /\ slot'[t].job = slot[t].job
              /\ slot'[t].attempt = slot[t].attempt
  PROVE  SlotInv' /\ OneSlot' /\ OwnerIsCurrent'
BY DEF IInv, SlotInv, OneSlot, OwnerIsCurrent

\* A step of one slot that touches no row.
LEMMA SlotOnlyKeeps ==
  ASSUME IInv, NEW s \in Slots, NEW z \in SlotState,
         slot' = [slot EXCEPT ![s] = z], UNCHANGED <<job, att, event>>,
         \/ z.pc = "idle"
         \/ slot[s].pc /= "idle" /\ z.job = slot[s].job /\ z.attempt = slot[s].attempt
  PROVE  IInv'
<1>1. TypeOK'
  BY DEF IInv, TypeOK
<1>2. \A t \in Slots : slot'[t] = IF t = s THEN z ELSE slot[t]
  BY DEF IInv, TypeOK
<1>3. SlotInv' /\ OneSlot' /\ OwnerIsCurrent'
  <2>1. \A t \in Slots :
          \/ slot'[t].pc = "idle"
          \/ slot[t].pc /= "idle" /\ slot'[t].job = slot[t].job
             /\ slot'[t].attempt = slot[t].attempt
          \/ slot'[t] = slot[t]
    BY <1>2
  <2> QED
    BY <2>1 DEF IInv, SlotInv, OneSlot, OwnerIsCurrent
<1>4. \A k \in Jobs : RowInv(k)'
  BY SameRows DEF IInv
<1> QED
  BY <1>1, <1>3, <1>4 DEF IInv

LEMMA IdleIsSlotState == IdleSlot \in SlotState /\ IdleSlot.pc = "idle"
BY BoundsAssumption DEF IdleSlot, SlotState

LEMMA FailingKeeps ==
  ASSUME IInv, NEW s \in Slots, NEW r \in BOOLEAN, slot[s].pc /= "idle",
         slot' = [slot EXCEPT ![s].pc = "failing", ![s].retryable = r],
         UNCHANGED <<job, att, event>>
  PROVE  IInv'
<1> DEFINE z == [slot[s] EXCEPT !.pc = "failing", !.retryable = r]
<1>1. slot[s] \in SlotState
  BY DEF IInv, TypeOK
<1>2. z \in SlotState
  BY <1>1, Zenon DEF SlotState
<1>3. z.job = slot[s].job /\ z.attempt = slot[s].attempt
  BY <1>1 DEF SlotState
<1>4. slot' = [slot EXCEPT ![s] = z]
  OBVIOUS
<1> HIDE DEF z
<1> QED
  BY <1>2, <1>3, <1>4, SlotOnlyKeeps

LEMMA UnlockedRow ==
  ASSUME NEW r \in JobRow, NEW status \in Status
  PROVE  /\ Unlocked(r, status) \in JobRow
         /\ Unlocked(r, status).status = status
         /\ Unlocked(r, status).attempts = r.attempts
         /\ Unlocked(r, status).lockedBy = None
<1>1. None \in WorkerIds \cup {None} /\ -1 \in -1 .. LeaseTicks /\ 0 \in 0 .. MaxWait
  BY BoundsAssumption
<1>2. Unlocked(r, status) \in JobRow
  BY <1>1, Zenon DEF Unlocked, JobRow
<1>3. /\ Unlocked(r, status).status = status
      /\ Unlocked(r, status).attempts = r.attempts
      /\ Unlocked(r, status).lockedBy = None
  BY DEF Unlocked, JobRow
<1> QED
  BY <1>2, <1>3

\* A slot that owns its job closes its attempt and gives the lease back.
LEMMA CloseKeeps ==
  ASSUME UniqueWorkers, IInv, TypeOK', NEW s \in Slots, slot[s].pc /= "idle",
         Owns(s), NEW j \in Jobs, j = slot[s].job,
         NEW verdict \in {"completed", "failed"},
         job'[j].status \in {"completed", "waiting_provider", "queued", "failed"},
         job'[j].attempts = job[j].attempts, job'[j].lockedBy = None,
         att' = [att EXCEPT ![j][slot[s].attempt] = verdict],
         \A k \in Jobs \ {j} : job'[k] = job[k] /\ event'[k] = event[k],
         \A t \in Slots :
           \/ slot'[t].pc = "idle"
           \/ slot[t].pc /= "idle" /\ slot'[t].job = slot[t].job
              /\ slot'[t].attempt = slot[t].attempt,
         job'[j].status = "queued" => slot[s].attempt < MaxAttempts,
         verdict = "completed" <=> job'[j].status \in {"completed", "waiting_provider"},
         EventMatchesJob(j)'
  PROVE  IInv'
<1>1. /\ slot[s].attempt = job[j].attempts /\ job[j].attempts \in Attempts
      /\ RowInv(j) /\ job[j].status = "running"
  BY DEF IInv, TypeOK, SlotInv, OwnerIsCurrent, Owns, Attempts, JobRow
<1>2. /\ \A n \in Attempts : att'[j][n] = IF n = job[j].attempts THEN verdict
                                          ELSE att[j][n]
      /\ \A k \in Jobs \ {j} : att'[k] = att[k]
  BY <1>1 DEF IInv, TypeOK
<1>3. RowInv(j)'
  <2>1. RowsMatchJob(j)'
    BY <1>1, <1>2 DEF RowInv, RowsMatchJob, Attempts, JobRow
  <2>2. LockedIffRunning(j)' /\ AttemptLeft(j)'
    BY <1>1 DEF LockedIffRunning, AttemptLeft
  <2> QED
    BY <2>1, <2>2 DEF RowInv
<1>4. \A k \in Jobs : RowInv(k)'
  BY <1>2, <1>3, SameRows DEF IInv
<1>5. SlotInv' /\ OneSlot' /\ OwnerIsCurrent'
  <2>1. \A k \in Jobs :
          /\ job'[k].attempts = job[k].attempts
          /\ job'[k].status = "running"
               => job[k].status = "running" /\ job'[k].lockedBy = job[k].lockedBy
    BY <1>1
  <2> QED
    BY <2>1, MemoryKept
<1> QED
  BY <1>4, <1>5 DEF IInv

\* What the three closing statements have in common: one slot, its own job.
LEMMA OwnedJob ==
  ASSUME IInv, NEW s \in Slots, slot[s].pc /= "idle"
  PROVE  /\ slot[s].job \in Jobs /\ slot[s].attempt \in Attempts
         /\ job[slot[s].job] \in JobRow /\ slot[s] \in SlotState
         /\ RowInv(slot[s].job)
<1>1. /\ slot[s].job \in Jobs /\ slot[s] \in SlotState /\ RowInv(slot[s].job)
      /\ job[slot[s].job] \in JobRow
  BY DEF IInv, TypeOK, SlotInv
<1>2. slot[s].attempt \in Attempts
  BY <1>1, BoundsAssumption DEF IInv, SlotInv, Attempts, JobRow
<1> QED
  BY <1>1, <1>2

LEMMA FinishedSlot ==
  ASSUME IInv, NEW s \in Slots, slot[s].pc /= "idle",
         slot' = [slot EXCEPT ![s].pc = "finished"]
  PROVE  /\ slot' \in [Slots -> SlotState]
         /\ \A t \in Slots :
              \/ slot'[t].pc = "idle"
              \/ slot[t].pc /= "idle" /\ slot'[t].job = slot[t].job
                 /\ slot'[t].attempt = slot[t].attempt
<1>1. slot[s] \in SlotState
  BY OwnedJob
<1>2. [slot[s] EXCEPT !.pc = "finished"] \in SlotState
  BY <1>1, Zenon DEF SlotState
<1>3. \A t \in Slots : slot'[t] = IF t = s THEN [slot[s] EXCEPT !.pc = "finished"]
                                  ELSE slot[t]
  BY DEF IInv, TypeOK
<1>4. slot' \in [Slots -> SlotState]
  BY <1>2 DEF IInv, TypeOK
<1> QED
  BY <1>1, <1>3, <1>4 DEF SlotState

LEMMA CompleteKeeps ==
  ASSUME UniqueWorkers, IInv, NEW s \in Slots, Complete(s)
  PROVE  IInv'
<1>0. PICK j \in Jobs : j = slot[s].job
  BY OwnedJob DEF Complete
<1>1. /\ slot[s].pc /= "idle" /\ Owns(s)
      /\ slot' = [slot EXCEPT ![s].pc = "finished"]
      /\ att' = [att EXCEPT ![j][slot[s].attempt] = "completed"]
  BY <1>0 DEF Complete
<1>2. /\ j \in Jobs /\ slot[s].attempt \in Attempts /\ job[j] \in JobRow /\ RowInv(j)
  BY <1>0, <1>1, OwnedJob
<1>3. /\ job'[j] = Unlocked(job[j], "completed")
      /\ event'[j] = IF event[j] = "none" THEN "none" ELSE "completed"
      /\ \A k \in Jobs \ {j} : job'[k] = job[k] /\ event'[k] = event[k]
  BY <1>0, <1>2 DEF IInv, TypeOK, Complete, EventBecomes
<1>4. /\ job'[j] \in JobRow /\ job'[j].status = "completed"
      /\ job'[j].attempts = job[j].attempts /\ job'[j].lockedBy = None
  BY <1>0, <1>2, <1>3, UnlockedRow DEF Status
<1>5. TypeOK'
  <2>1. job' \in [Jobs -> JobRow] /\ event' \in [Jobs -> EventStatus]
    BY <1>0, <1>2, <1>3, <1>4 DEF IInv, TypeOK, Complete, EventBecomes, EventStatus
  <2>2. att' \in [Jobs -> [Attempts -> AttemptStatus]]
    BY <1>0, <1>1, <1>2 DEF IInv, TypeOK, AttemptStatus
  <2> QED
    BY <1>0, <1>1, <2>1, <2>2, FinishedSlot DEF TypeOK
<1>6. EventMatchesJob(j)'
  BY <1>0, <1>2, <1>3, <1>4 DEF RowInv, EventMatchesJob
<1> QED
  BY <1>0, <1>1, <1>2, <1>3, <1>4, <1>5, <1>6, FinishedSlot, CloseKeeps

LEMMA DeferToProviderKeeps ==
  ASSUME UniqueWorkers, IInv, NEW s \in Slots, DeferToProvider(s)
  PROVE  IInv'
<1>0. PICK j \in Jobs : j = slot[s].job
  BY OwnedJob DEF DeferToProvider
<1>1. /\ slot[s].pc /= "idle" /\ Owns(s) /\ j \in ReportJobs
      /\ slot' = [slot EXCEPT ![s].pc = "finished"]
      /\ att' = [att EXCEPT ![j][slot[s].attempt] = "completed"]
      /\ event' = event
  BY <1>0 DEF DeferToProvider
<1>2. /\ j \in Jobs /\ slot[s].attempt \in Attempts /\ job[j] \in JobRow /\ RowInv(j)
  BY <1>0, <1>1, OwnedJob
<1>3. /\ job'[j] = Unlocked(job[j], "waiting_provider")
      /\ \A k \in Jobs \ {j} : job'[k] = job[k] /\ event'[k] = event[k]
  BY <1>0, <1>2 DEF IInv, TypeOK, DeferToProvider
<1>4. /\ job'[j] \in JobRow /\ job'[j].status = "waiting_provider"
      /\ job'[j].attempts = job[j].attempts /\ job'[j].lockedBy = None
  BY <1>0, <1>2, <1>3, UnlockedRow DEF Status
<1>5. TypeOK'
  <2>1. job' \in [Jobs -> JobRow] /\ event' \in [Jobs -> EventStatus]
    BY <1>0, <1>2, <1>3, <1>4 DEF IInv, TypeOK, DeferToProvider
  <2>2. att' \in [Jobs -> [Attempts -> AttemptStatus]]
    BY <1>0, <1>1, <1>2 DEF IInv, TypeOK, AttemptStatus
  <2> QED
    BY <1>0, <1>1, <2>1, <2>2, FinishedSlot DEF TypeOK
<1>6. EventMatchesJob(j)'
  BY <1>0, <1>1, <1>2, <1>3, <1>4, JobsAssumption
  DEF RowInv, EventMatchesJob, IInv, TypeOK, Owns
<1> QED
  BY <1>0, <1>1, <1>2, <1>3, <1>4, <1>5, <1>6, FinishedSlot, CloseKeeps

\* A slot that forgets its job.
LEMMA ForgottenSlot ==
  ASSUME IInv, NEW s \in Slots, slot' = [slot EXCEPT ![s] = IdleSlot]
  PROVE  /\ slot' \in [Slots -> SlotState]
         /\ \A t \in Slots :
              \/ slot'[t].pc = "idle"
              \/ slot[t].pc /= "idle" /\ slot'[t].job = slot[t].job
                 /\ slot'[t].attempt = slot[t].attempt
<1>1. \A t \in Slots : slot'[t] = IF t = s THEN IdleSlot ELSE slot[t]
  BY DEF IInv, TypeOK
<1> QED
  BY <1>1, IdleIsSlotState DEF IInv, TypeOK

LEMMA RecordFailureKeeps ==
  ASSUME UniqueWorkers, IInv, NEW s \in Slots, RecordFailure(s)
  PROVE  IInv'
<1>0. PICK j \in Jobs : j = slot[s].job
  BY OwnedJob DEF RecordFailure
<1> DEFINE status == IF CanRetry(s) THEN "queued" ELSE "failed"
<1>1. /\ slot[s].pc /= "idle" /\ Owns(s)
      /\ slot' = [slot EXCEPT ![s] = IdleSlot]
      /\ att' = [att EXCEPT ![j][slot[s].attempt] = "failed"]
  BY <1>0 DEF RecordFailure
<1>2. /\ j \in Jobs /\ slot[s].attempt \in Attempts /\ job[j] \in JobRow /\ RowInv(j)
  BY <1>0, <1>1, OwnedJob
<1>3. job[j].delay \in 0 .. MaxDelay
  BY <1>0, <1>2 DEF JobRow
<1>4. PICK d \in 0 .. MaxDelay :
        job' = [job EXCEPT ![j] = [Unlocked(@, status) EXCEPT !.delay = d]]
  BY <1>0, <1>3 DEF RecordFailure
<1>5. /\ job'[j] = [Unlocked(job[j], status) EXCEPT !.delay = d]
      /\ event'[j] = IF event[j] = "none" THEN "none"
                     ELSE IF CanRetry(s) THEN "received" ELSE "failed"
      /\ \A k \in Jobs \ {j} : job'[k] = job[k] /\ event'[k] = event[k]
  BY <1>0, <1>2, <1>4 DEF IInv, TypeOK, RecordFailure, EventBecomes
<1>6. /\ job'[j] \in JobRow /\ job'[j].status = status
      /\ job'[j].attempts = job[j].attempts /\ job'[j].lockedBy = None
  <2>1. status \in Status
    BY DEF Status
  <2> DEFINE r == Unlocked(job[j], status)
  <2>2. /\ r \in JobRow /\ r.status = status
        /\ r.attempts = job[j].attempts /\ r.lockedBy = None
    BY <1>0, <1>2, <2>1, UnlockedRow
  <2> HIDE DEF r
  <2>3. [r EXCEPT !.delay = d] \in JobRow
    BY <2>2, Zenon DEF JobRow
  <2>4. /\ [r EXCEPT !.delay = d].status = r.status
        /\ [r EXCEPT !.delay = d].attempts = r.attempts
        /\ [r EXCEPT !.delay = d].lockedBy = r.lockedBy
    BY <2>2 DEF JobRow
  <2> QED
    BY <1>0, <1>5, <2>2, <2>3, <2>4 DEF r
<1>7. TypeOK'
  <2>1. job' \in [Jobs -> JobRow]
    BY <1>0, <1>2, <1>4, <1>5, <1>6 DEF IInv, TypeOK
  <2>2. event' \in [Jobs -> EventStatus]
    BY <1>0, <1>2 DEF IInv, TypeOK, RecordFailure, EventBecomes, EventStatus
  <2>3. att' \in [Jobs -> [Attempts -> AttemptStatus]]
    BY <1>0, <1>1, <1>2 DEF IInv, TypeOK, AttemptStatus
  <2> QED
    BY <1>0, <1>1, <2>1, <2>2, <2>3, ForgottenSlot DEF TypeOK
<1>8. EventMatchesJob(j)'
  BY <1>0, <1>2, <1>5, <1>6 DEF RowInv, EventMatchesJob
<1>9. status = "queued" => slot[s].attempt < MaxAttempts
  BY DEF CanRetry
<1> QED
  BY <1>0, <1>1, <1>2, <1>5, <1>6, <1>7, <1>8, <1>9, ForgottenSlot, CloseKeeps

\* A step that changes only times and the progress of slots.
LEMMA SameFields ==
  ASSUME IInv, TypeOK', att' = att, event' = event,
         \A k \in Jobs : /\ job'[k].status = job[k].status
                         /\ job'[k].attempts = job[k].attempts
                         /\ job'[k].lockedBy = job[k].lockedBy,
         slot' = slot
  PROVE  IInv'
<1>1. \A k \in Jobs : RowInv(k)'
  BY DEF IInv, RowInv, LockedIffRunning, AttemptLeft, RowsMatchJob, EventMatchesJob
<1>2. SlotInv' /\ OneSlot' /\ OwnerIsCurrent'
  BY MemoryKept
<1> QED
  BY <1>1, <1>2 DEF IInv

LEMMA ExtendLeaseKeeps ==
  ASSUME IInv, NEW s \in Slots, ExtendLease(s)
  PROVE  IInv'
<1>0. PICK j \in Jobs : j = slot[s].job
  BY OwnedJob DEF ExtendLease
<1>1. job[j] \in JobRow /\ LeaseTicks \in -1 .. LeaseTicks
  BY BoundsAssumption DEF IInv, TypeOK
<1>2. /\ job'[j] = [job[j] EXCEPT !.lease = LeaseTicks]
      /\ job' = [job EXCEPT ![j] = [job[j] EXCEPT !.lease = LeaseTicks]]
      /\ \A k \in Jobs \ {j} : job'[k] = job[k]
  BY <1>0 DEF IInv, TypeOK, ExtendLease
<1>3. /\ job'[j] \in JobRow
      /\ job'[j].status = job[j].status
      /\ job'[j].attempts = job[j].attempts /\ job'[j].lockedBy = job[j].lockedBy
  <2>1. [job[j] EXCEPT !.lease = LeaseTicks] \in JobRow
    BY <1>1, Zenon DEF JobRow
  <2> QED
    BY <1>1, <1>2, <2>1 DEF JobRow
<1>4. TypeOK'
  BY <1>2, <1>3 DEF IInv, TypeOK, ExtendLease
<1> QED
  BY <1>2, <1>3, <1>4, SameFields DEF ExtendLease

LEMMA TickKeeps ==
  ASSUME IInv, Tick
  PROVE  IInv'
<1>1. ASSUME NEW k \in Jobs
      PROVE  /\ job'[k] \in JobRow
             /\ job'[k].status = job[k].status
             /\ job'[k].attempts = job[k].attempts
             /\ job'[k].lockedBy = job[k].lockedBy
  <2> DEFINE lease == IF job[k].lease >= 0 THEN job[k].lease - 1 ELSE job[k].lease
             delay == IF job[k].delay > 0 THEN job[k].delay - 1 ELSE job[k].delay
             wait == IF job[k].wait > 0 THEN job[k].wait - 1 ELSE job[k].wait
             row == [job[k] EXCEPT !.lease = lease, !.delay = delay, !.wait = wait]
  <2>1. job[k] \in JobRow /\ job'[k] = row
    BY DEF IInv, TypeOK, Tick
  <2>2. lease \in -1 .. LeaseTicks /\ delay \in 0 .. MaxDelay /\ wait \in 0 .. MaxWait
    BY <2>1, BoundsAssumption DEF JobRow
  <2> HIDE DEF lease, delay, wait
  <2>3. row \in JobRow
    BY <2>1, <2>2, Zenon DEF JobRow
  <2>4. /\ row.status = job[k].status /\ row.attempts = job[k].attempts
        /\ row.lockedBy = job[k].lockedBy
    BY <2>1 DEF JobRow
  <2> QED
    BY <2>1, <2>3, <2>4
<1>2. TypeOK'
  BY <1>1 DEF IInv, TypeOK, Tick
<1> QED
  BY <1>1, <1>2, SameFields DEF Tick

\* An update of delay alone.
LEMMA DelayedRow ==
  ASSUME NEW r \in JobRow, NEW d \in 0 .. MaxDelay
  PROVE  /\ [r EXCEPT !.delay = d] \in JobRow
         /\ [r EXCEPT !.delay = d].status = r.status
         /\ [r EXCEPT !.delay = d].attempts = r.attempts
         /\ [r EXCEPT !.delay = d].lockedBy = r.lockedBy
<1>1. [r EXCEPT !.delay = d] \in JobRow
  BY Zenon DEF JobRow
<1> QED
  BY <1>1 DEF JobRow

LEMMA ReleaseWikiJobsKeeps ==
  ASSUME IInv, ReleaseWikiJobs
  PROVE  IInv'
<1>1. ASSUME NEW k \in Jobs
      PROVE  /\ job'[k] \in JobRow
             /\ job'[k].status = job[k].status
             /\ job'[k].attempts = job[k].attempts
             /\ job'[k].lockedBy = job[k].lockedBy
  <2>1. job[k] \in JobRow /\ 0 \in 0 .. MaxDelay
    BY BoundsAssumption DEF IInv, TypeOK
  <2> DEFINE row == [job[k] EXCEPT !.delay = 0]
  <2>2. job'[k] = job[k] \/ job'[k] = row
    BY DEF ReleaseWikiJobs
  <2>3. /\ row \in JobRow /\ row.status = job[k].status
        /\ row.attempts = job[k].attempts /\ row.lockedBy = job[k].lockedBy
    BY <2>1, DelayedRow
  <2> HIDE DEF row
  <2>4. CASE job'[k] = job[k]
    BY <2>1, <2>4
  <2>5. CASE job'[k] = row
    BY <2>3, <2>5
  <2> QED
    BY <2>2, <2>4, <2>5
<1>2. TypeOK'
  BY <1>1 DEF IInv, TypeOK, ReleaseWikiJobs
<1> QED
  BY <1>1, <1>2, SameFields DEF ReleaseWikiJobs

LEMMA AbsentJobRow ==
  /\ AbsentJob \in JobRow
  /\ AbsentJob.attempts = 0 /\ AbsentJob.lockedBy = None
BY BoundsAssumption DEF AbsentJob, JobRow, Status

\* A job that is new in a step: queued, without attempts.
LEMMA NewJob ==
  ASSUME IInv, NEW j \in Jobs, job[j].status = "absent",
         job'[j].status = "queued", job'[j].attempts = 0, job'[j].lockedBy = None,
         att'[j] = att[j],
         \/ event'[j] = "none"
         \/ j \in WikiJobs /\ event'[j] = "received"
  PROVE  RowInv(j)' /\ job[j].attempts = 0
<1>1. job[j].attempts = 0 /\ RowInv(j)
  BY DEF IInv, RowInv, AttemptLeft
<1> QED
  BY <1>1, BoundsAssumption
  DEF RowInv, LockedIffRunning, AttemptLeft, RowsMatchJob, EventMatchesJob

LEMMA EnqueueNowKeeps ==
  ASSUME IInv, NEW j \in Jobs, EnqueueNow(j)
  PROVE  IInv'
<1> DEFINE wait == IF j \in WikiJobs THEN MaxWait ELSE 0
<1>1. /\ job[j] \in JobRow /\ "queued" \in Status /\ wait \in 0 .. MaxWait
      /\ job[j].status = "absent" /\ RowInv(j)
  BY BoundsAssumption DEF IInv, TypeOK, EnqueueNow, Status
<1>2. /\ job'[j] = [job[j] EXCEPT !.status = "queued", !.wait = wait]
      /\ \A k \in Jobs \ {j} : job'[k] = job[k]
  BY DEF IInv, TypeOK, EnqueueNow
<1>3. /\ job'[j] \in JobRow /\ job'[j].status = "queued"
      /\ job'[j].attempts = 0 /\ job'[j].lockedBy = None
  <2> HIDE DEF wait
  <2>1. [job[j] EXCEPT !.status = "queued", !.wait = wait] \in JobRow
    BY <1>1, Zenon DEF JobRow
  <2> QED
    BY <1>1, <1>2, <2>1 DEF JobRow, RowInv, AttemptLeft, LockedIffRunning
<1>4. TypeOK'
  BY <1>2, <1>3 DEF IInv, TypeOK, EnqueueNow
<1>5. event[j] = "none"
  BY <1>1 DEF RowInv, EventMatchesJob
<1>6. RowInv(j)' /\ job[j].attempts = 0
  BY <1>1, <1>3, <1>5, NewJob DEF EnqueueNow
<1>7. \A k \in Jobs : RowInv(k)'
  BY <1>2, <1>6, SameRows DEF IInv, EnqueueNow
<1>8. SlotInv' /\ OneSlot' /\ OwnerIsCurrent'
  BY <1>2, <1>3, <1>6, MemoryKept DEF EnqueueNow
<1> QED
  BY <1>4, <1>7, <1>8 DEF IInv

LEMMA QuietWindowRows ==
  ASSUME NEW rows \in [Jobs -> JobRow], NEW pending, NEW horizon \in 0 .. MaxWait,
         NEW quiet \in 0 .. MaxDelay, NEW k \in Jobs,
         NEW new, new = QuietWindow(rows, pending, horizon, quiet)[k]
  PROVE  /\ new \in JobRow
         /\ new.status = rows[k].status
         /\ new.attempts = rows[k].attempts
         /\ new.lockedBy = rows[k].lockedBy
<1> DEFINE d == IF horizon < quiet THEN horizon ELSE quiet
<1>1. d \in 0 .. MaxDelay /\ rows[k] \in JobRow
  BY BoundsAssumption
<1>2. new = rows[k] \/ new = [rows[k] EXCEPT !.delay = d]
  BY DEF QuietWindow
<1> HIDE DEF d
<1>3. CASE new = rows[k]
  BY <1>1, <1>3
<1>4. CASE new = [rows[k] EXCEPT !.delay = d]
  BY <1>1, <1>4, DelayedRow
<1> QED
  BY <1>2, <1>3, <1>4

LEMMA SubmitSourceKeeps ==
  ASSUME IInv, NEW j \in Jobs, SubmitSource(j)
  PROVE  IInv'
<1> DEFINE new == job[j].status = "absent"
           fresh == [AbsentJob EXCEPT !.status = "queued", !.wait = MaxWait]
           rows == IF new THEN [job EXCEPT ![j] = fresh] ELSE job
           pending == FreshWikiJobs \cup (IF new THEN {j} ELSE {})
<1>1. /\ fresh \in JobRow /\ fresh.status = "queued" /\ fresh.attempts = 0
      /\ fresh.lockedBy = None
  <2>1. "queued" \in Status /\ MaxWait \in 0 .. MaxWait
    BY BoundsAssumption DEF Status
  <2>2. fresh \in JobRow
    BY <2>1, AbsentJobRow, Zenon DEF JobRow
  <2> QED
    BY <2>2, AbsentJobRow DEF JobRow
<1>2. PICK quiet \in 0 .. MaxDelay, horizon \in 0 .. MaxWait :
        job' = QuietWindow(rows, pending, horizon, quiet)
  BY DEF SubmitSource
<1> HIDE DEF fresh
<1>3. /\ rows \in [Jobs -> JobRow]
      /\ \A k \in Jobs : rows[k] = IF k = j /\ new THEN fresh ELSE job[k]
  BY <1>1 DEF IInv, TypeOK
<1> HIDE DEF rows
<1>4. ASSUME NEW k \in Jobs
      PROVE  /\ job'[k] \in JobRow
             /\ job'[k].status = rows[k].status
             /\ job'[k].attempts = rows[k].attempts
             /\ job'[k].lockedBy = rows[k].lockedBy
  BY <1>2, <1>3, QuietWindowRows
<1>5. job' \in [Jobs -> JobRow]
  <2>1. job' = [k \in Jobs |-> job'[k]]
    BY <1>2 DEF QuietWindow
  <2> QED
    BY <1>4, <2>1
<1>6. /\ event' \in [Jobs -> EventStatus]
      /\ event'[j] = IF event[j] = "completed" THEN "completed" ELSE "received"
      /\ \A k \in Jobs \ {j} : event'[k] = event[k]
      /\ j \in WikiJobs /\ (new \/ event[j] /= "none")
      /\ att' = att /\ slot' = slot
  BY DEF IInv, TypeOK, SubmitSource, UpsertedEvent, EventStatus
<1>7. TypeOK'
  BY <1>5, <1>6 DEF IInv, TypeOK
<1>8. RowInv(j)'
  <2>1. RowInv(j)
    BY DEF IInv
  <2>2. CASE new
    <3>1. event[j] = "none"
      BY <2>1, <2>2 DEF RowInv, EventMatchesJob
    <3> QED
      BY <1>1, <1>3, <1>4, <1>6, <2>2, <3>1, NewJob
  <2>3. CASE ~ new
    BY <1>3, <1>4, <1>6, <2>1, <2>3
    DEF RowInv, LockedIffRunning, AttemptLeft, RowsMatchJob, EventMatchesJob
  <2> QED
    BY <2>2, <2>3
<1>9. ASSUME NEW k \in Jobs \ {j}
      PROVE  RowInv(k)'
  BY <1>3, <1>4, <1>6
  DEF IInv, RowInv, LockedIffRunning, AttemptLeft, RowsMatchJob, EventMatchesJob
<1>10. SlotInv' /\ OneSlot' /\ OwnerIsCurrent'
  <2>1. \A k \in Jobs :
          /\ job'[k].attempts = job[k].attempts
          /\ job'[k].status = "running"
               => job[k].status = "running" /\ job'[k].lockedBy = job[k].lockedBy
    BY <1>1, <1>3, <1>4 DEF IInv, RowInv, AttemptLeft
  <2> QED
    BY <1>6, <2>1, MemoryKept
<1> QED
  BY <1>7, <1>8, <1>9, <1>10 DEF IInv

LEMMA ReapKeeps ==
  ASSUME IInv, NEW j \in Jobs, Reap(j)
  PROVE  IInv'
<1>1. job[j] \in JobRow /\ RowInv(j) /\ job[j].status = "running"
  BY DEF IInv, TypeOK, Reap, Reapable
<1>2. /\ job'[j] = Unlocked(job[j], "failed")
      /\ att'[j] = CloseRunning(att[j], "timed_out")
      /\ event'[j] = IF event[j] = "none" THEN "none" ELSE "failed"
      /\ \A k \in Jobs \ {j} : job'[k] = job[k] /\ att'[k] = att[k]
                               /\ event'[k] = event[k]
      /\ slot' = slot
  BY DEF IInv, TypeOK, Reap, EventBecomes
<1>3. /\ job'[j] \in JobRow /\ job'[j].status = "failed"
      /\ job'[j].attempts = job[j].attempts /\ job'[j].lockedBy = None
  BY <1>1, <1>2, UnlockedRow DEF Status
<1>4. TypeOK'
  <2>1. att'[j] \in [Attempts -> AttemptStatus] /\ event'[j] \in EventStatus
    BY <1>2 DEF IInv, TypeOK, CloseRunning, AttemptStatus, EventStatus
  <2> QED
    BY <1>2, <1>3, <2>1 DEF IInv, TypeOK, Reap, EventBecomes
<1>5. RowInv(j)'
  <2>1. RowsMatchJob(j)'
    BY <1>1, <1>2, <1>3 DEF RowInv, RowsMatchJob, CloseRunning
  <2> QED
    BY <1>1, <1>2, <1>3, <2>1
    DEF RowInv, LockedIffRunning, AttemptLeft, EventMatchesJob
<1>6. \A k \in Jobs : RowInv(k)'
  BY <1>2, <1>5, SameRows DEF IInv
<1>7. SlotInv' /\ OneSlot' /\ OwnerIsCurrent'
  BY <1>2, <1>3, MemoryKept
<1> QED
  BY <1>4, <1>6, <1>7 DEF IInv

LEMMA CompleteWaitingProviderKeeps ==
  ASSUME IInv, NEW j \in Jobs, CompleteWaitingProvider(j)
  PROVE  IInv'
<1>1. /\ job[j] \in JobRow /\ RowInv(j) /\ job[j].status = "waiting_provider"
      /\ "completed" \in Status
  BY DEF IInv, TypeOK, CompleteWaitingProvider, Status
<1>2. /\ job'[j] = [job[j] EXCEPT !.status = "completed"]
      /\ \A k \in Jobs \ {j} : job'[k] = job[k]
      /\ att' = att /\ event' = event /\ slot' = slot
  BY DEF IInv, TypeOK, CompleteWaitingProvider
<1>3. /\ job'[j] \in JobRow /\ job'[j].status = "completed"
      /\ job'[j].attempts = job[j].attempts /\ job'[j].lockedBy = job[j].lockedBy
  <2>1. [job[j] EXCEPT !.status = "completed"] \in JobRow
    BY <1>1, Zenon DEF JobRow
  <2> QED
    BY <1>1, <1>2, <2>1 DEF JobRow
<1>4. TypeOK'
  BY <1>2, <1>3 DEF IInv, TypeOK, CompleteWaitingProvider
<1>5. event[j] = "none"
  BY <1>1, JobsAssumption DEF RowInv, EventMatchesJob
<1>6. RowInv(j)'
  BY <1>1, <1>2, <1>3, <1>5
  DEF RowInv, LockedIffRunning, AttemptLeft, RowsMatchJob, EventMatchesJob
<1>7. \A k \in Jobs : RowInv(k)'
  BY <1>2, <1>6, SameRows DEF IInv
<1>8. SlotInv' /\ OneSlot' /\ OwnerIsCurrent'
  BY <1>2, <1>3, MemoryKept
<1> QED
  BY <1>4, <1>7, <1>8 DEF IInv

LEMMA ResetWikiKeeps ==
  ASSUME IInv, ResetWiki
  PROVE  IInv'
<1>1. ASSUME NEW k \in Jobs
      PROVE  /\ job'[k] \in JobRow
             /\ job'[k].attempts = job[k].attempts
             /\ IF k \in JobsToCancel
                THEN job'[k].status = "cancelled" /\ job'[k].lockedBy = None
                ELSE job'[k] = job[k]
  <2>1. /\ job[k] \in JobRow /\ "cancelled" \in Status
        /\ job'[k] = IF k \in JobsToCancel THEN Unlocked(job[k], "cancelled")
                     ELSE job[k]
    BY DEF IInv, TypeOK, ResetWiki, Status
  <2> QED
    BY <2>1, UnlockedRow
<1>2. ASSUME NEW k \in Jobs
      PROVE  /\ att'[k] \in [Attempts -> AttemptStatus]
             /\ \A n \in Attempts :
                  att'[k][n] = IF /\ k \in WikiJobs /\ job'[k].status = "cancelled"
                                  /\ att[k][n] = "running"
                               THEN "failed" ELSE att[k][n]
  BY DEF IInv, TypeOK, ResetWiki, CloseRunning, AttemptStatus
<1>3. TypeOK'
  BY <1>1, <1>2 DEF IInv, TypeOK, ResetWiki
<1>4. ASSUME NEW k \in Jobs
      PROVE  RowInv(k)'
  <2>1. RowInv(k) /\ event'[k] = event[k] /\ job[k] \in JobRow
    BY DEF IInv, TypeOK, ResetWiki
  <2>2. CASE k \in JobsToCancel
    <3>1. k \in WikiJobs /\ job[k].status \in {"queued", "running"}
      BY <2>2 DEF JobsToCancel
    <3>2. RowsMatchJob(k)'
      BY <1>1, <1>2, <2>1, <2>2, <3>1 DEF RowInv, RowsMatchJob
    <3> QED
      BY <1>1, <2>1, <2>2, <3>1, <3>2
      DEF RowInv, LockedIffRunning, AttemptLeft, EventMatchesJob
  <2>3. CASE k \notin JobsToCancel
    <3>1. \A n \in Attempts : att'[k][n] = att[k][n]
      BY <1>1, <1>2, <2>1, <2>3 DEF RowInv, RowsMatchJob
    <3> QED
      BY <1>1, <2>1, <2>3, <3>1
      DEF RowInv, LockedIffRunning, AttemptLeft, RowsMatchJob, EventMatchesJob
  <2> QED
    BY <2>2, <2>3
<1>5. SlotInv' /\ OneSlot' /\ OwnerIsCurrent'
  <2>1. \A k \in Jobs :
          /\ job'[k].attempts = job[k].attempts
          /\ job'[k].status = "running"
               => job[k].status = "running" /\ job'[k].lockedBy = job[k].lockedBy
    BY <1>1
  <2> QED
    BY <2>1, MemoryKept DEF ResetWiki
<1> QED
  BY <1>3, <1>4, <1>5 DEF IInv

LEMMA NextKeeps ==
  ASSUME UniqueWorkers, IInv, [Next]_vars
  PROVE  IInv'
<1>1. ASSUME NEW s \in Slots, SlotStep(s)
      PROVE  IInv'
  <2>1. ASSUME NEW j \in Jobs, Claim(s, j) \/ ClaimById(s, j)
        PROVE  IInv'
    BY <2>1, TakeLeaseKeeps DEF Claim, ClaimById
  <2>2. CASE ExtendLease(s)
    BY <2>2, ExtendLeaseKeeps
  <2>3. CASE HeartbeatLost(s)
    BY <2>3, FailingKeeps DEF HeartbeatLost
  <2>4. CASE Complete(s)
    BY <2>4, CompleteKeeps
  <2>5. CASE DeferToProvider(s)
    BY <2>5, DeferToProviderKeeps
  <2>6. ASSUME NEW r \in BOOLEAN, Raise(s, r)
        PROVE  IInv'
    BY <2>6, FailingKeeps DEF Raise
  <2>7. CASE ReturnResult(s) \/ ReportLeaseLost(s) \/ Crash(s)
    BY <2>7, IdleIsSlotState, SlotOnlyKeeps DEF ReturnResult, ReportLeaseLost, Crash
  <2>8. CASE RecordFailure(s)
    BY <2>8, RecordFailureKeeps
  <2> QED
    BY <1>1, <2>1, <2>2, <2>3, <2>4, <2>5, <2>6, <2>7, <2>8 DEF SlotStep
<1>2. ASSUME NEW j \in Jobs,
             SubmitSource(j) \/ EnqueueNow(j) \/ Reap(j) \/ CompleteWaitingProvider(j)
      PROVE  IInv'
  BY <1>2, SubmitSourceKeeps, EnqueueNowKeeps, ReapKeeps, CompleteWaitingProviderKeeps
<1>3. CASE ReleaseWikiJobs \/ ResetWiki \/ Tick
  BY <1>3, ReleaseWikiJobsKeeps, ResetWikiKeeps, TickKeeps
<1>4. CASE UNCHANGED vars
  BY <1>4, SameFields DEF vars, IInv, TypeOK
<1> QED
  BY <1>1, <1>2, <1>3, <1>4 DEF Next

-----------------------------------------------------------------------------
(* The theorems.                                                           *)

\* The strengthening is an invariant when no two slots share a worker id.
THEOREM InductiveInvariant ==
  ASSUME UniqueWorkers
  PROVE  Spec => []IInv
<1>1. Init => IInv
  BY InitInv
<1>2. IInv /\ [Next]_vars => IInv'
  BY NextKeeps
<1> QED
  BY <1>1, <1>2, PTL DEF Spec

\* Every row and every slot keeps its type (the CHECKs of migration 0001:
\* known statuses, attempt_count <= max_attempts).
THEOREM TypeCorrect ==
  ASSUME UniqueWorkers
  PROVE  Spec => []TypeOK
<1>1. IInv => TypeOK
  BY DEF IInv
<1> QED
  BY <1>1, InductiveInvariant, PTL

\* A running attempt row is the current attempt of a running job and every
\* running job has one (_record_claimed_attempt, jobs.py 179-183).
THEOREM NoZombies ==
  ASSUME UniqueWorkers
  PROVE  Spec => []NoZombieAttempt
<1>1. IInv => NoZombieAttempt
  BY DEF IInv, RowInv, RowsMatchJob, NoZombieAttempt
<1> QED
  BY <1>1, InductiveInvariant, PTL

\* fail_agent_job never puts a job back that no claim would take.
THEOREM QueuedJobsAreClaimable ==
  ASSUME UniqueWorkers
  PROVE  Spec => []QueuedIsClaimable
<1>1. IInv => QueuedIsClaimable
  BY DEF IInv, RowInv, AttemptLeft, QueuedIsClaimable
<1> QED
  BY <1>1, InductiveInvariant, PTL

\* At most one attempt of a job is completed, exactly when the job is, and
\* the source event agrees (complete_agent_job, jobs.py 715-763).
THEOREM SuccessOnce ==
  ASSUME UniqueWorkers
  PROVE  Spec => []SuccessRecordedOnce
<1>1. ASSUME IInv
      PROVE  SuccessRecordedOnce
  <2> SUFFICES ASSUME NEW j \in Jobs
               PROVE  /\ \A n, m \in Attempts :
                           att[j][n] = "completed" /\ att[j][m] = "completed" => n = m
                      /\ job[j].status \in {"completed", "waiting_provider"}
                           <=> \E n \in Attempts : att[j][n] = "completed"
                      /\ event[j] /= "none"
                           => (event[j] = "completed" <=> job[j].status = "completed")
    BY DEF SuccessRecordedOnce
  <2>1. RowsMatchJob(j) /\ EventMatchesJob(j) /\ job[j].attempts \in 0 .. MaxAttempts
    BY <1>1 DEF IInv, TypeOK, RowInv, JobRow
  <2>2. 1 \in Attempts
    BY BoundsAssumption DEF Attempts
  <2> QED
    BY <2>1, <2>2 DEF RowsMatchJob, EventMatchesJob, Attempts
<1> QED
  BY <1>1, InductiveInvariant, PTL

\* No two slots work on one attempt (run_job_batch claims one job at a time).
THEOREM OneSlotHoldsAttempt ==
  ASSUME UniqueWorkers
  PROVE  Spec => []OneSlotPerAttempt
<1>1. IInv => OneSlotPerAttempt
  BY DEF IInv, OneSlot, RowInv, LockedIffRunning, OneSlotPerAttempt
<1> QED
  BY <1>1, InductiveInvariant, PTL

-----------------------------------------------------------------------------
(* What a step may never do.                                               *)

\* The three statements that end a job run under an attempt that is current.
LEMMA EndsOwnAttempt ==
  ASSUME UniqueWorkers, IInv, NEW s \in Slots,
         Complete(s) \/ DeferToProvider(s) \/ RecordFailure(s)
  PROVE  /\ slot[s].pc /= "idle" /\ slot[s].job \in Jobs
         /\ job[slot[s].job].status = "running"
         /\ slot[s].attempt = job[slot[s].job].attempts
         /\ slot[s].attempt \in Attempts
         /\ att[slot[s].job][slot[s].attempt] = "running"
<1>1. slot[s].pc /= "idle" /\ Owns(s)
  BY DEF Complete, DeferToProvider, RecordFailure
<1>2. slot[s].job \in Jobs /\ slot[s].attempt \in Attempts /\ RowInv(slot[s].job)
  BY <1>1, OwnedJob
<1> QED
  BY <1>1, <1>2 DEF IInv, OwnerIsCurrent, Owns, RowInv, RowsMatchJob

\* Steps that leave the job and attempt rows of a slot's job alone.
LEMMA QuietSlotStep ==
  ASSUME NEW s \in Slots,
         \/ HeartbeatLost(s) \/ ReturnResult(s) \/ ReportLeaseLost(s) \/ Crash(s)
         \/ \E r \in BOOLEAN : Raise(s, r)
  PROVE  UNCHANGED <<job, att, event>>
BY DEF HeartbeatLost, ReturnResult, ReportLeaseLost, Crash, Raise

LEMMA CloseRunningVerdict ==
  ASSUME NEW rows, NEW verdict, NEW n \in Attempts, rows[n] /= "running"
  PROVE  CloseRunning(rows, verdict)[n] = rows[n]
BY DEF CloseRunning

\* No step rewrites the verdict of a closed attempt row, although the UPDATE
\* of complete_agent_job and fail_agent_job does not test the row's status.
THEOREM VerdictsAreFinal ==
  ASSUME UniqueWorkers
  PROVE  Spec => [][VerdictIsFinal]_vars
<1> DEFINE A == \A j \in Jobs : \A n \in Attempts :
                  att[j][n] \in {"completed", "failed", "timed_out"}
                    => att'[j][n] = att[j][n]
<1>1. ASSUME IInv, [Next]_vars
      PROVE  A
  <2>1. CASE \E s \in Slots, k \in Jobs : TakeLease(s, k)
    <3>1. PICK s \in Slots, k \in Jobs : TakeLease(s, k)
      BY <2>1
    <3>2. /\ \A j \in Jobs \ {k} : att'[j] = att[j]
          /\ att'[k] = ClaimedAttempts(att[k], job[k].attempts + 1)
      BY <1>1, <3>1 DEF IInv, TypeOK, TakeLease
    <3> QED
      BY <3>2 DEF ClaimedAttempts
  <2>2. ASSUME NEW s \in Slots, Complete(s) \/ DeferToProvider(s) \/ RecordFailure(s)
        PROVE  A
    <3>1. PICK v : att' = [att EXCEPT ![slot[s].job][slot[s].attempt] = v]
      BY <2>2 DEF Complete, DeferToProvider, RecordFailure
    <3> QED
      BY <1>1, <2>2, <3>1, EndsOwnAttempt DEF IInv, TypeOK
  <2>3. CASE UNCHANGED att
    BY <2>3
  <2>4. ASSUME NEW k \in Jobs, Reap(k)
        PROVE  A
    BY <1>1, <2>4, CloseRunningVerdict DEF IInv, TypeOK, Reap
  <2>5. CASE ResetWiki
    BY <2>5, CloseRunningVerdict DEF ResetWiki
  <2> QED
    BY <1>1, <2>1, <2>2, <2>3, <2>4, <2>5, QuietSlotStep
    DEF Next, SlotStep, Claim, ClaimById, ExtendLease, SubmitSource, EnqueueNow,
        CompleteWaitingProvider, ReleaseWikiJobs, Tick, vars
<1>2. ASSUME IInv, [Next]_vars
      PROVE  [A]_vars
  BY <1>1, <1>2
<1> QED
  BY <1>2, InductiveInvariant, PTL DEF Spec, VerdictIsFinal

\* No step takes a job out of completed, failed or cancelled: every statement
\* that writes a status tests it, so a worker whose job was cancelled or reaped
\* while it ran cannot revive it.
THEOREM EndedJobsStayEnded ==
  ASSUME UniqueWorkers
  PROVE  Spec => [][EndedJobStaysEnded]_vars
<1> DEFINE Ended == {"completed", "failed", "cancelled"}
           A == \A j \in Jobs : job[j].status \in Ended => job'[j].status = job[j].status
<1>1. ASSUME IInv, [Next]_vars
      PROVE  A
  <2>0. job \in [Jobs -> JobRow]
    BY <1>1 DEF IInv, TypeOK
  <2>1. ASSUME NEW s \in Slots, NEW k \in Jobs, TakeLease(s, k)
        PROVE  A
    <3>1. job[k].status \notin Ended /\ \A j \in Jobs \ {k} : job'[j] = job[j]
      BY <2>0, <2>1 DEF TakeLease, Claimable
    <3> QED
      BY <3>1
  <2>2. ASSUME NEW s \in Slots, Complete(s) \/ DeferToProvider(s) \/ RecordFailure(s)
        PROVE  A
    <3>1. job[slot[s].job].status = "running"
      BY <2>2 DEF Complete, DeferToProvider, RecordFailure, Owns
    <3>2. \A j \in Jobs : j /= slot[s].job => job'[j] = job[j]
      BY <2>0, <2>2 DEF Complete, DeferToProvider, RecordFailure
    <3> QED
      BY <3>1, <3>2
  <2>3. ASSUME NEW s \in Slots, ExtendLease(s)
        PROVE  A
    <3>1. job[slot[s].job].status = "running"
      BY <2>3 DEF ExtendLease, Owns
    <3>2. \A j \in Jobs : j /= slot[s].job => job'[j] = job[j]
      BY <2>0, <2>3 DEF ExtendLease
    <3> QED
      BY <3>1, <3>2
  <2>4. CASE UNCHANGED job
    BY <2>4
  <2>5. ASSUME NEW k \in Jobs, SubmitSource(k)
        PROVE  A
    <3>1. ASSUME NEW j \in Jobs, job[j].status \in Ended
          PROVE  job'[j] = job[j]
      <4>1. j \notin FreshWikiJobs
        BY <3>1 DEF FreshWikiJobs
      <4>2. CASE job[k].status = "absent"
        <5>1. j /= k
          BY <3>1, <4>2
        <5> QED
          BY <2>0, <2>5, <4>1, <4>2, <5>1 DEF SubmitSource, QuietWindow
      <4>3. CASE job[k].status /= "absent"
        BY <2>0, <2>5, <4>1, <4>3 DEF SubmitSource, QuietWindow
      <4> QED
        BY <4>2, <4>3
    <3> QED
      BY <3>1
  <2>6. ASSUME NEW k \in Jobs, EnqueueNow(k) \/ Reap(k) \/ CompleteWaitingProvider(k)
        PROVE  A
    <3>1. job[k].status \notin Ended /\ \A j \in Jobs \ {k} : job'[j] = job[j]
      BY <2>0, <2>6 DEF EnqueueNow, Reap, Reapable, CompleteWaitingProvider
    <3> QED
      BY <3>1
  <2>7. CASE ReleaseWikiJobs
    BY <2>7 DEF ReleaseWikiJobs
  <2>8. CASE ResetWiki
    BY <2>8 DEF ResetWiki, JobsToCancel
  <2>9. CASE Tick
    <3>1. ASSUME NEW j \in Jobs
          PROVE  job'[j].status = job[j].status
      <4>1. job[j] \in JobRow
        BY <2>0
      <4> QED
        BY <2>9, <4>1 DEF Tick, JobRow
    <3> QED
      BY <3>1
  <2> QED
    BY <1>1, <2>1, <2>2, <2>3, <2>4, <2>5, <2>6, <2>7, <2>8, <2>9, QuietSlotStep
    DEF Next, SlotStep, Claim, ClaimById, vars
<1>2. ASSUME IInv, [Next]_vars
      PROVE  [A]_vars
  BY <1>1, <1>2
<1> QED
  BY <1>2, InductiveInvariant, PTL DEF Spec, EndedJobStaysEnded

\* A slot that ends a running job holds its current attempt: a completion or
\* failure after the lease was lost changes nothing (batch_runner.py 260-261).
THEOREM OnlyCurrentAttemptEnds ==
  ASSUME UniqueWorkers
  PROVE  Spec => OnlyCurrentAttemptEndsJob
<1> DEFINE A == \A s \in Slots :
                  LET j == slot[s].job
                  IN  slot'[s] /= slot[s] /\ j /= None
                        /\ job[j].status = "running" /\ job'[j].status /= "running"
                      => slot[s].attempt = job[j].attempts
<1>1. ASSUME IInv, [Next]_vars
      PROVE  A
  <2>1. ASSUME NEW t \in Slots, SlotStep(t)
        PROVE  A
    <3>1. \A s \in Slots \ {t} : slot'[s] = slot[s]
      BY <1>1, <2>1
      DEF SlotStep, Claim, ClaimById, TakeLease, ExtendLease, HeartbeatLost, Complete,
          DeferToProvider, Raise, ReturnResult, RecordFailure, ReportLeaseLost, Crash,
          IInv, TypeOK
    <3>2. CASE Complete(t) \/ DeferToProvider(t) \/ RecordFailure(t)
      BY <1>1, <3>1, <3>2, EndsOwnAttempt
    <3>3. CASE \E j \in Jobs : TakeLease(t, j)
      <4>1. PICK j \in Jobs : TakeLease(t, j)
        BY <3>3
      <4>2. /\ job'[j].status = "running"
            /\ \A k : k /= j => job'[k] = job[k]
        BY <1>1, <4>1 DEF IInv, TypeOK, JobRow, TakeLease
      <4> QED
        BY <4>2
    <3>4. CASE UNCHANGED job
      BY <3>4
    <3>5. CASE ExtendLease(t)
      BY <3>5 DEF ExtendLease
    <3> QED
      BY <2>1, <3>2, <3>3, <3>4, <3>5, QuietSlotStep
      DEF SlotStep, Claim, ClaimById
  <2>2. CASE UNCHANGED slot
    BY <2>2
  <2> QED
    BY <1>1, <2>1, <2>2
    DEF Next, SubmitSource, EnqueueNow, Reap, CompleteWaitingProvider,
        ReleaseWikiJobs, ResetWiki, Tick, vars
<1>2. ASSUME IInv, [Next]_vars
      PROVE  [A]_vars
  BY <1>1, <1>2
<1> QED
  BY <1>2, InductiveInvariant, PTL DEF Spec, OnlyCurrentAttemptEndsJob

\* A slot that fails an attempt that was superseded changes no row: the
\* result is lease_lost (batch_runner.py 294-296).
THEOREM StaleFailuresAreDropped ==
  ASSUME UniqueWorkers
  PROVE  Spec => [][StaleFailureIsDropped]_vars
<1> DEFINE A == \A s \in Slots :
                  slot[s].pc = "failing" /\ slot'[s].pc = "idle"
                    /\ slot[s].attempt /= job[slot[s].job].attempts
                  => UNCHANGED <<job, att, event>>
<1>1. ASSUME IInv, [Next]_vars
      PROVE  A
  <2>1. ASSUME NEW t \in Slots, SlotStep(t)
        PROVE  A
    <3>1. \A s \in Slots \ {t} : slot'[s] = slot[s]
      BY <1>1, <2>1
      DEF SlotStep, Claim, ClaimById, TakeLease, ExtendLease, HeartbeatLost, Complete,
          DeferToProvider, Raise, ReturnResult, RecordFailure, ReportLeaseLost, Crash,
          IInv, TypeOK
    <3>2. CASE Complete(t) \/ DeferToProvider(t) \/ RecordFailure(t)
      BY <1>1, <3>1, <3>2, EndsOwnAttempt
    <3>3. CASE \E j \in Jobs : TakeLease(t, j)
      BY <3>1, <3>3 DEF TakeLease
    <3>4. CASE UNCHANGED <<job, att, event>>
      BY <3>4
    <3>5. CASE ExtendLease(t)
      BY <3>5 DEF ExtendLease
    <3> QED
      BY <2>1, <3>2, <3>3, <3>4, <3>5, QuietSlotStep
      DEF SlotStep, Claim, ClaimById
  <2>2. CASE UNCHANGED slot
    BY <2>2
  <2> QED
    BY <1>1, <2>1, <2>2
    DEF Next, SubmitSource, EnqueueNow, Reap, CompleteWaitingProvider,
        ReleaseWikiJobs, ResetWiki, Tick, vars
<1>2. ASSUME IInv, [Next]_vars
      PROVE  [A]_vars
  BY <1>1, <1>2
<1> QED
  BY <1>2, InductiveInvariant, PTL DEF Spec, StaleFailureIsDropped

\* The rows of a job, its attempts and the slots agree, in every behaviour.
THEOREM RowsAlwaysAgree ==
  ASSUME UniqueWorkers
  PROVE  Spec => []RowsAgree
BY NoZombies, QueuedJobsAreClaimable, SuccessOnce, OneSlotHoldsAttempt, PTL DEF RowsAgree

\* What was decided about jobs and attempts stays, and late slots change nothing.
THEOREM DecisionsAlwaysStay ==
  ASSUME UniqueWorkers
  PROVE  Spec => DecisionsStay
BY VerdictsAreFinal, EndedJobsStayEnded, StaleFailuresAreDropped, PTL DEF DecisionsStay

-----------------------------------------------------------------------------
(* The refinement: the queue implements AttemptLog, job by job.             *)

\* The log of a job has one entry per attempt, and is open while the job runs.
LEMMA LogShape ==
  ASSUME IInv, NEW j \in Jobs
  PROVE  /\ job[j].attempts \in 0 .. MaxAttempts
         /\ Len(LogOf(j)) = job[j].attempts
         /\ Log(j)!HasOpen <=> job[j].status = "running"
         /\ job[j].status = "running" => job[j].attempts \in Attempts
<1>1. job[j].attempts \in 0 .. MaxAttempts /\ RowsMatchJob(j)
  BY DEF IInv, TypeOK, JobRow, RowInv
<1>2. Len(LogOf(j)) = job[j].attempts
  BY <1>1, BoundsAssumption DEF LogOf
<1>3. \A n \in 1 .. job[j].attempts : n \in Attempts
  BY <1>1, BoundsAssumption DEF Attempts
<1>4. job[j].status = "running" => job[j].attempts \in Attempts
  <2>1. ASSUME job[j].status = "running" PROVE job[j].attempts > 0
    BY <1>1, <2>1, BoundsAssumption DEF RowsMatchJob, Attempts
  <2> QED
    BY <1>1, <1>3, <2>1
<1>5. Log(j)!HasOpen <=> job[j].status = "running"
  <2>1. CASE job[j].attempts = 0
    BY <1>2, <1>4, <2>1 DEF Log!HasOpen, LogOf, Attempts
  <2>2. CASE job[j].attempts # 0
    <3>1. job[j].attempts \in Attempts /\ LogOf(j) # <<>>
      BY <1>1, <1>2, <1>3, <2>2
    <3>2. LogOf(j)[job[j].attempts] = "open" <=> att[j][job[j].attempts] = "running"
      <4>1. att[j][job[j].attempts] \in AttemptStatus
        BY <3>1 DEF IInv, TypeOK
      <4> QED
        BY <1>1, <2>2, <3>1, <4>1 DEF LogOf, AttemptStatus
    <3> QED
      BY <1>1, <1>2, <3>1, <3>2 DEF Log!HasOpen, RowsMatchJob
  <2> QED
    BY <2>1, <2>2
<1> QED
  BY <1>1, <1>2, <1>4, <1>5

\* A step that keeps the phase of a job and its attempt rows is a stutter.
LEMMA SameLog ==
  ASSUME NEW j \in Jobs, att'[j] = att[j], job'[j].attempts = job[j].attempts,
         \/ job'[j].status = job[j].status
         \/ {job[j].status, job'[j].status} \subseteq {"queued", "running"}
  PROVE  UNCHANGED <<LogOf(j), PhaseOf(j)>>
<1>1. LogOf(j)' = LogOf(j)
  BY DEF LogOf
<1>2. PhaseOf(j)' = PhaseOf(j)
  BY DEF PhaseOf
<1> QED
  BY <1>1, <1>2

\* A step that closes the running attempt of a job and opens none.
LEMMA JudgedLog ==
  ASSUME IInv, NEW j \in Jobs, NEW verdict \in {"completed", "failed", "timed_out"},
         job'[j].attempts = job[j].attempts,
         \A n \in Attempts :
           att'[j][n] = IF att[j][n] = "running" THEN verdict ELSE att[j][n]
  PROVE  LogOf(j)' = Log(j)!Judged(verdict)
<1> DEFINE n == job[j].attempts
<1>0. /\ n \in 0 .. MaxAttempts /\ Len(LogOf(j)) = n
      /\ Log(j)!HasOpen <=> job[j].status = "running"
      /\ RowsMatchJob(j)
  BY LogShape DEF IInv, RowInv
<1>1. \A k \in 1 .. n : k \in Attempts
  BY <1>0, BoundsAssumption DEF Attempts
<1>2. LogOf(j)' = [k \in 1 .. n |-> IF att'[j][k] = "running" THEN "open" ELSE att'[j][k]]
  BY DEF LogOf
<1>3. CASE job[j].status = "running"
  <2>1. Log(j)!Judged(verdict) = [LogOf(j) EXCEPT ![n] = verdict]
    BY <1>0, <1>3 DEF Log!Judged
  <2>2. [LogOf(j) EXCEPT ![n] = verdict]
          = [k \in 1 .. n |-> IF k = n THEN verdict ELSE LogOf(j)[k]]
    BY DEF LogOf
  <2>3. \A k \in 1 .. n : (IF k = n THEN verdict ELSE LogOf(j)[k])
                            = IF att'[j][k] = "running" THEN "open" ELSE att'[j][k]
    BY <1>0, <1>1, <1>3 DEF LogOf, RowsMatchJob
  <2> QED
    BY <1>2, <2>1, <2>2, <2>3
<1>4. CASE job[j].status # "running"
  <2>1. Log(j)!Judged(verdict) = LogOf(j)
    BY <1>0, <1>4 DEF Log!Judged
  <2>2. \A k \in 1 .. n : att'[j][k] = att[j][k]
    BY <1>0, <1>1, <1>4 DEF RowsMatchJob
  <2> QED
    BY <1>2, <2>1, <2>2 DEF LogOf
<1> QED
  BY <1>3, <1>4

\* A claim opens the next attempt and times out the one it takes over.
LEMMA TakeLeaseBegins ==
  ASSUME IInv, NEW s \in Slots, NEW j \in Jobs, TakeLease(s, j)
  PROVE  Log(j)!Begin
<1> DEFINE n == job[j].attempts
           Old(k) == IF att[j][k] = "running" THEN "open" ELSE att[j][k]
<1>0. /\ n \in Nat /\ n < MaxAttempts /\ Len(LogOf(j)) = n
      /\ Log(j)!HasOpen <=> job[j].status = "running"
      /\ RowsMatchJob(j) /\ job[j].status \in {"queued", "running"}
      /\ job[j].status = "running" => n \in Attempts
  BY LogShape DEF IInv, RowInv, TakeLease, Claimable
<1>1. \A k \in 1 .. n + 1 : k \in Attempts
  BY <1>0, BoundsAssumption DEF Attempts
<1>2. /\ job'[j].attempts = n + 1 /\ job'[j].status = "running"
      /\ att'[j] = ClaimedAttempts(att[j], n + 1)
  BY DEF IInv, TypeOK, JobRow, TakeLease
<1>3. PhaseOf(j) = "pending" /\ PhaseOf(j)' = "pending"
  BY <1>0, <1>2 DEF PhaseOf
<1>4. Log(j)!Judged("timed_out")
        = [k \in 1 .. n |-> IF att[j][k] = "running" THEN "timed_out" ELSE att[j][k]]
  <2>1. CASE job[j].status = "running"
    <3>1. Log(j)!Judged("timed_out") = [LogOf(j) EXCEPT ![n] = "timed_out"]
      BY <1>0, <2>1 DEF Log!Judged
    <3>2. [LogOf(j) EXCEPT ![n] = "timed_out"]
            = [k \in 1 .. n |-> IF k = n THEN "timed_out" ELSE LogOf(j)[k]]
      BY DEF LogOf
    <3>3. \A k \in 1 .. n : (IF k = n THEN "timed_out" ELSE LogOf(j)[k])
                              = IF att[j][k] = "running" THEN "timed_out" ELSE att[j][k]
      BY <1>0, <1>1, <2>1 DEF LogOf, RowsMatchJob
    <3> QED
      BY <3>1, <3>2, <3>3
  <2>2. CASE job[j].status # "running"
    <3>1. Log(j)!Judged("timed_out") = LogOf(j)
      BY <1>0, <2>2 DEF Log!Judged
    <3>2. \A k \in 1 .. n : att[j][k] # "running"
      BY <1>0, <1>1, <2>2 DEF RowsMatchJob
    <3> QED
      BY <3>1, <3>2 DEF LogOf
  <2> QED
    BY <2>1, <2>2
<1>5. LogOf(j)' = [k \in 1 .. n + 1 |-> IF k = n + 1 THEN "open"
                                        ELSE Log(j)!Judged("timed_out")[k]]
  <2>1. LogOf(j)' = [k \in 1 .. n + 1 |->
                       IF att'[j][k] = "running" THEN "open" ELSE att'[j][k]]
    BY <1>2 DEF LogOf
  <2>2. ASSUME NEW k \in 1 .. n + 1
        PROVE  (IF att'[j][k] = "running" THEN "open" ELSE att'[j][k])
                 = IF k = n + 1 THEN "open" ELSE Log(j)!Judged("timed_out")[k]
    <3>1. CASE k = n + 1
      BY <1>0, <1>1, <1>2, <3>1 DEF ClaimedAttempts, RowsMatchJob
    <3>2. CASE k # n + 1
      <4>1. k \in 1 .. n /\ k \in Attempts /\ k < n + 1
        BY <1>0, <1>1, <3>2
      <4>2. att'[j][k] = IF att[j][k] = "running" THEN "timed_out" ELSE att[j][k]
        BY <1>2, <3>2, <4>1 DEF ClaimedAttempts
      <4> QED
        BY <1>4, <3>2, <4>1, <4>2
    <3> QED
      BY <3>1, <3>2
  <2> QED
    BY <2>1, <2>2
<1>6. Append(Log(j)!Judged("timed_out"), "open")
        = [k \in 1 .. n + 1 |-> IF k = n + 1 THEN "open"
                                ELSE Log(j)!Judged("timed_out")[k]]
  <2> DEFINE f == [k \in 1 .. n |-> IF att[j][k] = "running" THEN "timed_out" ELSE att[j][k]]
           Entries == AttemptStatus \cup {"open"}
  <2>1. \A k \in 1 .. n : f[k] \in Entries
    BY <1>1, <1>0 DEF IInv, TypeOK, AttemptStatus
  <2>2. f \in Seq(Entries)
    <3>1. f \in [1 .. n -> Entries]
      BY <2>1
    <3> QED
      BY <1>0, <3>1, SeqDef
  <2> HIDE DEF Entries
  <2>3. Len(f) = n /\ "open" \in Entries
    BY <1>0 DEF Entries
  <2> HIDE DEF f
  <2>4. /\ Append(f, "open") \in Seq(Entries) /\ Len(Append(f, "open")) = n + 1
        /\ \A k \in 1 .. n : Append(f, "open")[k] = f[k]
        /\ Append(f, "open")[n + 1] = "open"
    BY <2>2, <2>3, AppendProperties
  <2>5. Append(f, "open") = [k \in 1 .. n + 1 |-> Append(f, "open")[k]]
    <3> DEFINE g == Append(f, "open")
    <3>1. g \in Seq(Entries) /\ Len(g) = n + 1
      BY <2>4
    <3> HIDE DEF g
    <3>2. g \in [1 .. n + 1 -> Entries]
      BY <1>0, <3>1
    <3>3. g = [k \in 1 .. n + 1 |-> g[k]]
      BY <3>2
    <3> QED
      BY <3>3 DEF g
  <2>6. \A k \in 1 .. n + 1 : Append(f, "open")[k] = IF k = n + 1 THEN "open" ELSE f[k]
    BY <1>0, <2>4
  <2>7. f = Log(j)!Judged("timed_out")
    BY <1>4 DEF f
  <2> QED
    BY <2>5, <2>6, <2>7
<1> QED
  BY <1>0, <1>3, <1>5, <1>6 DEF Log!Begin

\* A slot that ends its job closes the attempt the log has open.
LEMMA EndsOpenAttempt ==
  ASSUME UniqueWorkers, IInv, NEW s \in Slots, NEW verdict \in {"completed", "failed"},
         Complete(s) \/ DeferToProvider(s) \/ RecordFailure(s),
         att' = [att EXCEPT ![slot[s].job][slot[s].attempt] = verdict],
         NEW j \in Jobs, j = slot[s].job, job'[j].attempts = job[j].attempts
  PROVE  /\ Log(j)!HasOpen /\ PhaseOf(j) = "pending"
         /\ LogOf(j)' = Log(j)!Judged(verdict)
         /\ slot[s].attempt = Len(LogOf(j))
<1>1. /\ job[j].status = "running" /\ slot[s].attempt = job[j].attempts
      /\ slot[s].attempt \in Attempts
  BY EndsOwnAttempt
<1>2. /\ Log(j)!HasOpen /\ PhaseOf(j) = "pending" /\ slot[s].attempt = Len(LogOf(j))
  BY <1>1, LogShape DEF PhaseOf
<1>3. \A n \in Attempts :
        att'[j][n] = IF att[j][n] = "running" THEN verdict ELSE att[j][n]
  BY <1>1 DEF IInv, TypeOK, RowInv, RowsMatchJob
<1> QED
  BY <1>2, <1>3, JudgedLog

\* Every step of the queue is, for each job, a step of its log or a stutter.
LEMMA SlotStepMaps ==
  ASSUME UniqueWorkers, IInv, NEW s \in Slots, SlotStep(s), NEW j \in Jobs
  PROVE  Log(j)!Next \/ UNCHANGED <<LogOf(j), PhaseOf(j)>>
<1>0. job[j] \in JobRow /\ job \in [Jobs -> JobRow] /\ att \in [Jobs -> [Attempts -> AttemptStatus]]
  BY DEF IInv, TypeOK
<1>1. ASSUME NEW k \in Jobs, TakeLease(s, k)
      PROVE  Log(j)!Next \/ UNCHANGED <<LogOf(j), PhaseOf(j)>>
  <2>1. CASE k = j
    BY <1>1, <2>1, TakeLeaseBegins DEF Log!Next
  <2>2. CASE k # j
    <3>1. job'[j] = job[j] /\ att'[j] = att[j]
      BY <1>0, <1>1, <2>2 DEF TakeLease
    <3> QED
      BY <3>1, SameLog
  <2> QED
    BY <2>1, <2>2
<1>2. CASE ExtendLease(s)
  <2>1. /\ att'[j] = att[j] /\ job'[j].attempts = job[j].attempts
        /\ job'[j].status = job[j].status
    BY <1>0, <1>2 DEF ExtendLease, JobRow
  <2> QED
    BY <2>1, SameLog
<1>3. CASE UNCHANGED <<job, att>>
  BY <1>3, SameLog
<1>4. ASSUME Complete(s) \/ DeferToProvider(s) \/ RecordFailure(s), j # slot[s].job
      PROVE  UNCHANGED <<LogOf(j), PhaseOf(j)>>
  <2>1. job'[j] = job[j] /\ att'[j] = att[j]
    BY <1>0, <1>4 DEF Complete, DeferToProvider, RecordFailure
  <2> QED
    BY <2>1, SameLog
<1>5. CASE Complete(s) /\ j = slot[s].job
  <2>1. /\ att' = [att EXCEPT ![slot[s].job][slot[s].attempt] = "completed"]
        /\ job'[j] = Unlocked(job[j], "completed")
    BY <1>0, <1>5 DEF Complete
  <2>2. job'[j].status = "completed" /\ job'[j].attempts = job[j].attempts
    BY <1>0, <2>1, UnlockedRow DEF Status
  <2>3. PhaseOf(j)' = "done"
    BY <2>2 DEF PhaseOf
  <2> QED
    BY <1>5, <2>1, <2>2, <2>3, EndsOpenAttempt DEF Log!Next, Log!Succeed
<1>6. CASE DeferToProvider(s) /\ j = slot[s].job
  <2>1. /\ att' = [att EXCEPT ![slot[s].job][slot[s].attempt] = "completed"]
        /\ job'[j] = Unlocked(job[j], "waiting_provider")
    BY <1>0, <1>6 DEF DeferToProvider
  <2>2. job'[j].status = "waiting_provider" /\ job'[j].attempts = job[j].attempts
    BY <1>0, <2>1, UnlockedRow DEF Status
  <2>3. PhaseOf(j)' = "delegated"
    BY <2>2 DEF PhaseOf
  <2> QED
    BY <1>6, <2>1, <2>2, <2>3, EndsOpenAttempt DEF Log!Next, Log!Succeed
<1>7. CASE RecordFailure(s) /\ j = slot[s].job
  <2>1. PICK d \in (IF CanRetry(s) THEN 0 .. MaxDelay ELSE {job[j].delay}) :
          job'[j] = [Unlocked(job[j], IF CanRetry(s) THEN "queued" ELSE "failed")
                       EXCEPT !.delay = d]
    BY <1>0, <1>7 DEF RecordFailure
  <2>2. att' = [att EXCEPT ![slot[s].job][slot[s].attempt] = "failed"]
    BY <1>7 DEF RecordFailure
  <2>3. /\ job'[j].status = IF CanRetry(s) THEN "queued" ELSE "failed"
        /\ job'[j].attempts = job[j].attempts
    BY <1>0, <2>1 DEF Unlocked, JobRow
  <2>4. PhaseOf(j)' = IF CanRetry(s) THEN "pending" ELSE "done"
    BY <2>3 DEF PhaseOf
  <2>5. /\ Log(j)!HasOpen /\ PhaseOf(j) = "pending"
        /\ LogOf(j)' = Log(j)!Judged("failed") /\ slot[s].attempt = Len(LogOf(j))
    BY <1>7, <2>2, <2>3, EndsOpenAttempt
  <2>6. CanRetry(s) => Len(LogOf(j)) < MaxAttempts
    BY <2>5 DEF CanRetry
  <2> QED
    BY <2>4, <2>5, <2>6 DEF Log!Next, Log!Fail
<1> QED
  BY <1>1, <1>2, <1>3, <1>4, <1>5, <1>6, <1>7, QuietSlotStep DEF SlotStep, Claim, ClaimById

LEMMA SubmissionMaps ==
  ASSUME IInv, NEW k \in Jobs, SubmitSource(k) \/ EnqueueNow(k), NEW j \in Jobs
  PROVE  Log(j)!Next \/ UNCHANGED <<LogOf(j), PhaseOf(j)>>
<1>0. /\ job \in [Jobs -> JobRow] /\ job[j] \in JobRow /\ att' = att /\ RowInv(j)
  BY DEF IInv, TypeOK, SubmitSource, EnqueueNow
<1>1. CASE j = k /\ job[j].status = "absent"
  <2>1. job'[j].status = "queued" /\ job'[j].attempts = 0 /\ job[j].attempts = 0
    <3>1. CASE EnqueueNow(k)
      BY <1>0, <1>1, <3>1 DEF EnqueueNow, JobRow, RowInv, AttemptLeft
    <3>2. CASE SubmitSource(k)
      <4> DEFINE new == [AbsentJob EXCEPT !.status = "queued", !.wait = MaxWait]
      <4>1. job'[j] = new \/ \E d : job'[j] = [new EXCEPT !.delay = d]
        BY <1>0, <1>1, <3>2 DEF SubmitSource, QuietWindow
      <4>2. job[j].attempts = 0
        BY <1>0, <1>1 DEF RowInv, AttemptLeft
      <4> QED
        BY <4>1, <4>2 DEF AbsentJob
    <3> QED
      BY <3>1, <3>2
  <2>2. LogOf(j)' = LogOf(j)
    BY <1>0, <2>1 DEF LogOf
  <2>3. PhaseOf(j) = "absent" /\ PhaseOf(j)' = "pending"
    BY <1>1, <2>1 DEF PhaseOf
  <2> QED
    BY <2>2, <2>3 DEF Log!Next, Log!Submit
<1>2. CASE j # k \/ job[j].status # "absent"
  <2>1. job'[j].status = job[j].status /\ job'[j].attempts = job[j].attempts
    <3>1. CASE EnqueueNow(k)
      BY <1>0, <1>2, <3>1 DEF EnqueueNow
    <3>2. CASE SubmitSource(k)
      BY <1>0, <1>2, <3>2 DEF SubmitSource, QuietWindow, JobRow
    <3> QED
      BY <3>1, <3>2
  <2> QED
    BY <1>0, <2>1, SameLog
<1> QED
  BY <1>1, <1>2

LEMMA ReapMaps ==
  ASSUME IInv, NEW k \in Jobs, Reap(k), NEW j \in Jobs
  PROVE  Log(j)!Next \/ UNCHANGED <<LogOf(j), PhaseOf(j)>>
<1>0. job \in [Jobs -> JobRow] /\ att \in [Jobs -> [Attempts -> AttemptStatus]]
  BY DEF IInv, TypeOK
<1>1. CASE j = k
  <2>1. /\ job[j].status = "running" /\ job[j].attempts >= MaxAttempts
        /\ job'[j] = Unlocked(job[j], "failed")
        /\ att'[j] = CloseRunning(att[j], "timed_out")
    BY <1>0, <1>1 DEF Reap, Reapable
  <2>2. job'[j].status = "failed" /\ job'[j].attempts = job[j].attempts
    BY <1>0, <2>1, UnlockedRow DEF Status
  <2>3. LogOf(j)' = Log(j)!Judged("timed_out")
    BY <2>1, <2>2, JudgedLog DEF CloseRunning
  <2>4. Log(j)!HasOpen /\ Len(LogOf(j)) = MaxAttempts
    BY <2>1, LogShape, BoundsAssumption
  <2>5. PhaseOf(j) = "pending" /\ PhaseOf(j)' = "done"
    BY <2>1, <2>2 DEF PhaseOf
  <2> QED
    BY <2>3, <2>4, <2>5 DEF Log!Next, Log!GiveUp
<1>2. CASE j # k
  <2>1. job'[j] = job[j] /\ att'[j] = att[j]
    BY <1>0, <1>2 DEF Reap
  <2> QED
    BY <2>1, SameLog
<1> QED
  BY <1>1, <1>2

LEMMA CompleteWaitingProviderMaps ==
  ASSUME IInv, NEW k \in Jobs, CompleteWaitingProvider(k), NEW j \in Jobs
  PROVE  Log(j)!Next \/ UNCHANGED <<LogOf(j), PhaseOf(j)>>
<1>0. job \in [Jobs -> JobRow] /\ job[j] \in JobRow
  BY DEF IInv, TypeOK
<1>1. CASE j = k
  <2>1. /\ job[j].status = "waiting_provider" /\ job'[j].status = "completed"
        /\ job'[j].attempts = job[j].attempts /\ att' = att
    BY <1>0, <1>1 DEF CompleteWaitingProvider, JobRow
  <2>2. LogOf(j)' = LogOf(j)
    BY <2>1 DEF LogOf
  <2>3. PhaseOf(j) = "delegated" /\ PhaseOf(j)' = "done"
    BY <2>1 DEF PhaseOf
  <2> QED
    BY <2>2, <2>3 DEF Log!Next, Log!Deliver
<1>2. CASE j # k
  BY <1>0, <1>2, SameLog DEF CompleteWaitingProvider
<1> QED
  BY <1>1, <1>2

\* The reset withdraws what is pending; a job it cancelled before has no
\* running attempt left to close.
LEMMA ResetWikiMaps ==
  ASSUME IInv, ResetWiki, NEW j \in Jobs
  PROVE  Log(j)!Next \/ UNCHANGED <<LogOf(j), PhaseOf(j)>>
<1>0. /\ job[j] \in JobRow /\ att[j] \in [Attempts -> AttemptStatus] /\ RowsMatchJob(j)
  BY DEF IInv, TypeOK, RowInv
<1>1. CASE j \in JobsToCancel
  <2>1. job'[j].status = "cancelled" /\ job'[j].attempts = job[j].attempts
    BY <1>0, <1>1, UnlockedRow DEF ResetWiki, Status
  <2>2. /\ att'[j] = CloseRunning(att[j], "failed")
        /\ job[j].status \in {"queued", "running"}
    BY <1>1, <2>1 DEF ResetWiki, JobsToCancel
  <2>3. LogOf(j)' = Log(j)!Judged("failed")
    BY <2>1, <2>2, JudgedLog DEF CloseRunning
  <2>4. PhaseOf(j) = "pending" /\ PhaseOf(j)' = "done"
    BY <2>1, <2>2 DEF PhaseOf
  <2> QED
    BY <2>3, <2>4 DEF Log!Next, Log!Withdraw
<1>2. CASE j \notin JobsToCancel
  <2>1. job'[j] = job[j]
    BY <1>2 DEF ResetWiki
  <2>2. att'[j] = att[j]
    <3>1. CASE job[j].status = "cancelled"
      <4>1. \A n \in Attempts : att[j][n] # "running"
        BY <1>0, <3>1 DEF RowsMatchJob
      <4>2. CloseRunning(att[j], "failed") = [n \in Attempts |-> att[j][n]]
        BY <4>1 DEF CloseRunning
      <4> QED
        BY <1>0, <4>2 DEF ResetWiki
    <3>2. CASE job[j].status # "cancelled"
      BY <2>1, <3>2 DEF ResetWiki
    <3> QED
      BY <3>1, <3>2
  <2> QED
    BY <2>1, <2>2, SameLog
<1> QED
  BY <1>1, <1>2

LEMMA ClockMaps ==
  ASSUME IInv, ReleaseWikiJobs \/ Tick, NEW j \in Jobs
  PROVE  UNCHANGED <<LogOf(j), PhaseOf(j)>>
<1>1. job[j] \in JobRow /\ att' = att
  BY DEF IInv, TypeOK, ReleaseWikiJobs, Tick
<1>2. job'[j].status = job[j].status /\ job'[j].attempts = job[j].attempts
  BY <1>1 DEF ReleaseWikiJobs, Tick, JobRow
<1> QED
  BY <1>1, <1>2, SameLog

LEMMA StepMaps ==
  ASSUME UniqueWorkers, IInv, [Next]_vars, NEW j \in Jobs
  PROVE  Log(j)!Next \/ UNCHANGED <<LogOf(j), PhaseOf(j)>>
<1>1. CASE UNCHANGED vars
  BY <1>1, SameLog DEF vars
<1> QED
  BY <1>1, SlotStepMaps, SubmissionMaps, ReapMaps, CompleteWaitingProviderMaps,
     ResetWikiMaps, ClockMaps DEF Next

LEMMA InitMaps ==
  ASSUME Init, NEW j \in Jobs
  PROVE  Log(j)!Init
<1>1. job[j] = AbsentJob
  BY DEF Init
<1>2. LogOf(j) = <<>> /\ PhaseOf(j) = "absent"
  BY <1>1 DEF LogOf, PhaseOf, AbsentJob
<1> QED
  BY <1>2 DEF Log!Init

\* The queue implements the attempt log of every job: no attempt is judged
\* twice, opened beside another, or opened after the job was decided,
\* whatever leases expire and slots crash (jobs.py, batch_runner.py).
THEOREM QueueImplementsLog ==
  ASSUME UniqueWorkers
  PROVE  Spec => ImplementsAttemptLog
<1> DEFINE A == \A j \in Jobs : Log(j)!Next \/ UNCHANGED <<LogOf(j), PhaseOf(j)>>
           B == \A j \in Jobs : Log(j)!Init
<1>1. Init => B
  BY InitMaps
<1>2. ASSUME IInv, [Next]_vars
      PROVE  [A]_vars
  BY <1>2, StepMaps
<1>3. Spec => [][A]_vars
  <2> HIDE DEF A
  <2> QED
    BY <1>2, InductiveInvariant, PTL DEF Spec
<1>4. Spec => B
  BY <1>1 DEF Spec
<1> QED
  BY <1>3, <1>4 DEF ImplementsAttemptLog
=============================================================================
