------------------------------ MODULE LlmBatch ------------------------------
(***************************************************************************)
(* The OpenAI batch pipeline of bambi-agent-api: the rows of               *)
(* agent.llm_batches and agent.llm_batch_items as                          *)
(* infrastructure/persistence/features/llm_batches.py reads and writes     *)
(* them, and the cycles of workers/features/openai_batch.py that submit    *)
(* batches, poll them and apply their results to the domain.               *)
(*                                                                         *)
(* A cycle is a sequence of short transactions with provider calls between *)
(* them; every action is one transaction or one provider call.  Several    *)
(* worker processes may run cycles at once.  A worker that dies, or whose  *)
(* cycle raises, starts over with a new cycle and forgets what it held.    *)
(*                                                                         *)
(* The statuses submitted, validating, in_progress, finalizing and         *)
(* cancelling are treated alike by every statement and are one status      *)
(* here, submitted; the provider's failed, expired and cancelled are       *)
(* expired; failed is left for a batch the provider never accepted.        *)
(***************************************************************************)
EXTENDS Integers, FiniteSets

CONSTANTS
  Items,        \* llm_batch_items, one per custom_id
  ReportItems,  \* those of workload report_generation, whose job waits
  GroupOf,      \* provider, endpoint, model and workload of an item
  Batches,      \* ids for llm_batches, one per submission attempt
  Workers,      \* processes that run batch cycles
  WorkerId,     \* the id a process claims results with
  MaxAttempts,  \* llm_batch_items.max_attempts
  MaxItems,     \* openai_batch_max_items
  None          \* SQL NULL

Steps == {"idle", "submitting", "accepted", "claiming", "polling", "saving",
          "applying", "raised"}

ASSUME ItemsAssumption == ReportItems \subseteq Items
ASSUME NoneAssumption == None \notin Batches /\ \A w \in Workers : WorkerId[w] /= None
ASSUME BoundsAssumption == MaxAttempts \in Nat \ {0} /\ MaxItems \in Nat \ {0}

VARIABLES
  item,      \* llm_batch_items: status, attempt_count, batch_id, the domain
             \* apply claim and whether domain_applied_at is set
  batch,     \* llm_batches.status
  due,       \* batches whose next_poll_at has come
  job,       \* agent_jobs.status of the job of a report item
  provider,  \* a batch at the provider: its status, requests and result lines
  worker,    \* where the cycle of a process is and what it remembers
  effects,   \* history: committed runs of an item's result handler, up to 2
  stray,     \* history: items of a provider batch whose id no process got
  abandoned  \* history: batches whose process died while it submitted them

vars == <<item, batch, due, job, provider, worker, effects, stray, abandoned>>

ItemStatus == {"absent", "queued", "preparing", "submitted", "completed", "failed"}
Terminal == {"completed", "expired"}
BatchStatus == {"absent", "preparing", "submitted", "failed"} \cup Terminal
Lines == {"none", "ok", "error"}
Ids == {WorkerId[w] : w \in Workers}

ItemRow == [status : ItemStatus, attempts : 0 .. MaxAttempts,
            batch : Batches \cup {None}, applier : Ids \cup {None},
            fresh : BOOLEAN, applied : BOOLEAN]
ProviderBatch == [status : {"absent", "running"} \cup Terminal,
                  items : SUBSET Items, lines : [Items -> Lines]]
CycleState == [pc : Steps, batch : Batches \cup {None},
               seen : {"none", "submitted"} \cup Terminal,
               due : SUBSET Batches, todo : SUBSET Items]

NewItem == [status |-> "absent", attempts |-> 0, batch |-> None,
            applier |-> None, fresh |-> FALSE, applied |-> FALSE]
NoLines == [i \in Items |-> "none"]
NewCycle == [pc |-> "idle", batch |-> None, seen |-> "none", due |-> {}, todo |-> {}]

Init ==
  /\ item = [i \in Items |-> NewItem]
  /\ batch = [b \in Batches |-> "absent"]
  /\ due = {}
  /\ job = [i \in ReportItems |-> "running"]
  /\ provider = [b \in Batches |-> [status |-> "absent", items |-> {}, lines |-> NoLines]]
  /\ worker = [w \in Workers |-> NewCycle]
  /\ effects = [i \in Items |-> 0]
  /\ stray = {}
  /\ abandoned = {}

-----------------------------------------------------------------------------
(* Conditions and effects of the statements.  A definition that ends in    *)
(* _Mutant is the next one with a plausible slip: it is used nowhere in    *)
(* the specification and serves to show that a property can fail.          *)

Submitted(i, b) == item[i].status = "submitted" /\ item[i].batch = b

Preparing_Mutant(i, b) == Submitted(i, b)

\* The WHERE of the UPDATEs after a submission.
Preparing(i, b) == item[i].status = "preparing" /\ item[i].batch = b

\* The items the next local batch of group g takes: queued ones with an
\* attempt left, at most MaxItems.  Which ones come first (created_at, or a
\* row that SKIP LOCKED passes over) is left open.
Queued(g) == {i \in Items : /\ item[i].status = "queued"
                            /\ item[i].attempts < MaxAttempts
                            /\ GroupOf[i] = g}
Chosen(g) == {S \in SUBSET Queued(g) :
                /\ S /= {}
                /\ Cardinality(S) <= MaxItems
                /\ S = Queued(g) \/ Cardinality(S) = MaxItems}

Rejected_Mutant(r) ==
  [r EXCEPT !.batch = None,
            !.status = IF r.attempts + 1 < MaxAttempts THEN "queued" ELSE "failed"]

\* A refused submission uses up an attempt.
Rejected(r) ==
  [r EXCEPT !.batch = None,
            !.attempts = r.attempts + 1,
            !.status = IF r.attempts + 1 < MaxAttempts THEN "queued" ELSE "failed"]

Requeued_Mutant(r) ==
  [r EXCEPT !.batch = None,
            !.status = IF r.attempts <= MaxAttempts THEN "queued" ELSE "failed"]

Requeued(r) ==
  [r EXCEPT !.batch = None,
            !.status = IF r.attempts < MaxAttempts THEN "queued" ELSE "failed"]

Unresolved_Mutant(i, b) == Submitted(i, b) /\ provider[b].status = "completed"

\* The rows the closing UPDATE of apply_llm_batch_result_lines settles.
Unresolved(i, b) == Submitted(i, b)

LinesOf_Mutant(b, terminal) ==
  IF terminal = "completed" THEN provider[b].lines ELSE NoLines

\* The lines of the output and the error file, whatever the terminal status.
LinesOf(b, terminal) == provider[b].lines

\* The WHERE of the UPDATE for one result line; no row means ValueError.
Matches(i, b) == Submitted(i, b)

Succeeded_Mutant(line) == line /= "none"

\* No error, and a 2xx status with a body.
Succeeded(line) == line = "ok"

Settled_Mutant(i, b, terminal) ==
  LET line == LinesOf(b, terminal)[i]
  IN  IF line = "none"
      THEN IF Unresolved(i, b) THEN [item[i] EXCEPT !.status = terminal] ELSE item[i]
      ELSE [item[i] EXCEPT !.status = IF Succeeded(line) THEN "completed" ELSE "failed"]

\* The row of item i after the lines of batch b: its own line decides; an
\* item without one goes back to the queue, or fails if the batch completed.
Settled(i, b, terminal) ==
  LET line == LinesOf(b, terminal)[i]
  IN  IF line /= "none"
      THEN [item[i] EXCEPT !.status = IF Succeeded(line) THEN "completed" ELSE "failed"]
      ELSE IF ~Unresolved(i, b) THEN item[i]
      ELSE IF terminal = "completed" THEN [item[i] EXCEPT !.status = "failed"]
      ELSE Requeued(item[i])

Pollable_Mutant(b) == batch[b] \in {"submitted", "completed"}

\* An active status, and a next_poll_at that is not NULL.
Pollable(b) == batch[b] = "submitted"

Unapplied_Mutant(i) ==
  /\ item[i].status = "completed"
  /\ ~item[i].applied
  /\ item[i].applier = None

\* The candidates of claim_unapplied_batch_results: a claim is fresh until
\* result_apply_lease_seconds have passed.
Unapplied(i) ==
  /\ item[i].status = "completed"
  /\ ~item[i].applied
  /\ item[i].applier = None \/ ~item[i].fresh

MayMark_Mutant(w, i) == item[i].applier = WorkerId[w]

\* The WHERE of mark_batch_result_applied.
MayMark(w, i) == item[i].applier = WorkerId[w] /\ ~item[i].applied

JobAfter_Mutant(i) == job

\* The domain handler: an embedding is upserted; a report is stored and its
\* waiting job completed.
JobAfter(i) ==
  IF i \in ReportItems THEN [job EXCEPT ![i] = "completed"] ELSE job

\* gen_random_uuid(): an id no batch has.  Batches bounds the submissions;
\* when it is used up a cycle goes on without one.
Unused == {b \in Batches : batch[b] = "absent"}
NewBatch == CHOOSE b \in Batches : batch[b] = "absent"

-----------------------------------------------------------------------------
(* Producers.                                                              *)

\* A report job registers its item and waits for the provider in one
\* transaction; a wiki build registers the items of its embeddings.  An item
\* whose custom_id exists is left as it is.
Enqueue(i) ==
  /\ item[i].status = "absent"
  /\ item' = [item EXCEPT ![i].status = "queued"]
  /\ job' = IF i \in ReportItems THEN [job EXCEPT ![i] = "waiting_provider"] ELSE job
  /\ UNCHANGED <<batch, due, provider, worker, effects, stray, abandoned>>

-----------------------------------------------------------------------------
(* Submission.                                                             *)

\* A cycle starts: claim_llm_batch, if an item is queued.
ClaimSubmission(w) ==
  /\ worker[w].pc = "idle"
  /\ Unused /= {}
  /\ \E g \in {GroupOf[i] : i \in Items} : \E S \in Chosen(g) : LET b == NewBatch IN
       /\ batch' = [batch EXCEPT ![b] = "preparing"]
       /\ item' = [i \in Items |->
                     IF i \in S THEN [item[i] EXCEPT !.batch = b, !.status = "preparing"]
                     ELSE item[i]]
       /\ worker' = [worker EXCEPT ![w].pc = "submitting", ![w].batch = b]
  /\ UNCHANGED <<due, job, provider, effects, stray, abandoned>>

NothingToSubmit(w) ==
  /\ worker[w].pc = "idle"
  /\ Unused = {} \/ \A i \in Items : Queued(GroupOf[i]) = {}
  /\ worker' = [worker EXCEPT ![w].pc = "claiming"]
  /\ UNCHANGED <<item, batch, due, job, provider, effects, stray, abandoned>>

\* provider.submit, outside any transaction.  The provider creates a batch
\* but its answer is lost (a timeout, a lost connection).  batches.create is
\* called again, without an idempotency key, or the error is raised: the
\* items are asked for in a batch that nobody will retrieve.
SubmitLost(w) ==
  /\ worker[w].pc = "submitting"
  /\ stray' = stray \cup {i \in Items : item[i].batch = worker[w].batch}
  /\ UNCHANGED <<item, batch, due, job, provider, worker, effects, abandoned>>

\* The call, or a repetition of it, returned the id of a provider batch.
SubmitAccepted(w) ==
  /\ worker[w].pc = "submitting"
  /\ provider' = [provider EXCEPT
       ![worker[w].batch].status = "running",
       ![worker[w].batch].items = {i \in Items : item[i].batch = worker[w].batch}]
  /\ worker' = [worker EXCEPT ![w].pc = "accepted"]
  /\ UNCHANGED <<item, batch, due, job, effects, stray, abandoned>>

\* provider.submit raised, whether or not the provider made batches before
\* (SubmitLost): release_failed_llm_batch_submission.
SubmitRefused(w) ==
  LET b == worker[w].batch
  IN  /\ worker[w].pc = "submitting"
      /\ batch' = [batch EXCEPT ![b] = IF @ = "preparing" THEN "failed" ELSE @]
      /\ item' = [i \in Items |->
                    IF Preparing(i, b) THEN Rejected(item[i]) ELSE item[i]]
      /\ worker' = [worker EXCEPT ![w].pc = "claiming", ![w].batch = None]
      /\ UNCHANGED <<due, job, provider, effects, stray, abandoned>>

MarkSubmitted(w) ==
  LET b == worker[w].batch
  IN  /\ worker[w].pc = "accepted"
      /\ batch' = [batch EXCEPT ![b] = IF @ = "preparing" THEN "submitted" ELSE @]
      /\ item' = [i \in Items |->
                    IF Preparing(i, b)
                    THEN [item[i] EXCEPT !.status = "submitted", !.attempts = @ + 1]
                    ELSE item[i]]
      /\ worker' = [worker EXCEPT ![w].pc = "claiming", ![w].batch = None]
      /\ UNCHANGED <<due, job, provider, effects, stray, abandoned>>

-----------------------------------------------------------------------------
(* Polling.                                                                *)

\* claim_due_llm_batches: the poll lease is a later next_poll_at.
ClaimDue(w) ==
  /\ worker[w].pc = "claiming"
  /\ due' = {b \in due : ~Pollable(b)}
  /\ worker' = [worker EXCEPT ![w].pc = "polling", ![w].due = {b \in due : Pollable(b)}]
  /\ UNCHANGED <<item, batch, job, provider, effects, stray, abandoned>>

\* provider.retrieve, and the files of a terminal batch.
Retrieve(w, b) ==
  /\ worker[w].pc = "polling"
  /\ b \in worker[w].due
  /\ worker' = [worker EXCEPT
       ![w].pc = "saving", ![w].batch = b, ![w].due = @ \ {b},
       ![w].seen = IF provider[b].status = "running" THEN "submitted"
                   ELSE provider[b].status]
  /\ UNCHANGED <<item, batch, due, job, provider, effects, stray, abandoned>>

\* The call raised: the batch waits for its poll lease to run out.
RetrieveFails(w, b) ==
  /\ worker[w].pc = "polling"
  /\ b \in worker[w].due
  /\ worker' = [worker EXCEPT ![w].due = @ \ {b}]
  /\ UNCHANGED <<item, batch, due, job, provider, effects, stray, abandoned>>

Unmatched(w) ==
  LET b == worker[w].batch
  IN  /\ worker[w].seen \in Terminal
      /\ \E i \in Items : LinesOf(b, worker[w].seen)[i] /= "none" /\ ~Matches(i, b)

\* update_llm_batch_snapshot and, for a terminal snapshot,
\* apply_llm_batch_result_lines, in one transaction.  The batch takes the
\* snapshot's status, whatever its own is by now.
SaveSnapshot(w) ==
  LET b == worker[w].batch
      seen == worker[w].seen
  IN  /\ worker[w].pc = "saving"
      /\ ~Unmatched(w)
      /\ batch' = [batch EXCEPT ![b] = seen]
      /\ due' = due \ {b}
      /\ item' = IF seen \in Terminal
                 THEN [i \in Items |-> Settled(i, b, seen)] ELSE item
      /\ worker' = [worker EXCEPT
           ![w].pc = "polling", ![w].batch = None, ![w].seen = "none"]
      /\ UNCHANGED <<job, provider, effects, stray, abandoned>>

\* ValueError: the transaction rolls back and the cycle ends here.
RejectSnapshot(w) ==
  /\ worker[w].pc = "saving"
  /\ Unmatched(w)
  /\ worker' = [worker EXCEPT ![w] = [NewCycle EXCEPT !.pc = "raised"]]
  /\ UNCHANGED <<item, batch, due, job, provider, effects, stray, abandoned>>

-----------------------------------------------------------------------------
(* Applying results to the domain.                                         *)

ClaimResults(w) ==
  /\ worker[w].pc = "polling"
  /\ worker[w].due = {}
  /\ LET todo == {i \in Items : Unapplied(i)}
     IN  /\ item' = [i \in Items |->
                       IF i \in todo
                       THEN [item[i] EXCEPT !.applier = WorkerId[w], !.fresh = TRUE]
                       ELSE item[i]]
         /\ worker' = [worker EXCEPT ![w].pc = "applying", ![w].todo = todo]
  /\ UNCHANGED <<batch, due, job, provider, effects, stray, abandoned>>

\* The handler and mark_batch_result_applied, in one transaction.
ApplyResult(w, i) ==
  /\ worker[w].pc = "applying"
  /\ i \in worker[w].todo
  /\ i \in ReportItems => job[i] = "waiting_provider"
  /\ MayMark(w, i)
  /\ job' = JobAfter(i)
  /\ item' = [item EXCEPT ![i].applied = TRUE]
  /\ effects' = [effects EXCEPT ![i] = IF @ < 2 THEN @ + 1 ELSE @]
  /\ worker' = [worker EXCEPT ![w].todo = @ \ {i}]
  /\ UNCHANGED <<batch, due, provider, stray, abandoned>>

\* The handler raised, or the mark found no row: the transaction rolls back
\* and release_batch_result_application gives the claim up.
ReleaseResult(w, i) ==
  /\ worker[w].pc = "applying"
  /\ i \in worker[w].todo
  /\ item' = [item EXCEPT ![i] =
                IF MayMark(w, i) THEN [@ EXCEPT !.applier = None, !.fresh = FALSE]
                ELSE @]
  /\ worker' = [worker EXCEPT ![w].todo = @ \ {i}]
  /\ UNCHANGED <<batch, due, job, provider, effects, stray, abandoned>>

EndCycle(w) ==
  /\ \/ worker[w].pc = "applying" /\ worker[w].todo = {}
     \/ worker[w].pc = "raised"
  /\ worker' = [worker EXCEPT ![w] = NewCycle]
  /\ UNCHANGED <<item, batch, due, job, provider, effects, stray, abandoned>>

\* The process dies, or a statement raises, and the cycle starts again.
Crash(w) ==
  /\ worker[w].pc /= "idle"
  /\ worker' = [worker EXCEPT ![w] = NewCycle]
  /\ abandoned' = IF worker[w].pc \in {"submitting", "accepted"}
                  THEN abandoned \cup {worker[w].batch} ELSE abandoned
  /\ UNCHANGED <<item, batch, due, job, provider, effects, stray>>

-----------------------------------------------------------------------------
(* The provider and the clock.                                             *)

\* A batch ends with any result for any of its requests: a success, an
\* error, or no line at all.
ProviderEnds(b) ==
  /\ provider[b].status = "running"
  /\ \E status \in Terminal : \E lines \in [Items -> Lines] :
       /\ \A i \in Items \ provider[b].items : lines[i] = "none"
       /\ provider' = [provider EXCEPT ![b].status = status, ![b].lines = lines]
  /\ UNCHANGED <<item, batch, due, job, worker, effects, stray, abandoned>>

\* next_poll_at comes: the poll interval or a poll lease has run out.
PollTimeComes(b) ==
  /\ Pollable(b)
  /\ b \notin due
  /\ due' = due \cup {b}
  /\ UNCHANGED <<item, batch, job, provider, worker, effects, stray, abandoned>>

ApplyLeaseExpires(i) ==
  /\ item[i].fresh
  /\ ~item[i].applied
  /\ item' = [item EXCEPT ![i].fresh = FALSE]
  /\ UNCHANGED <<batch, due, job, provider, worker, effects, stray, abandoned>>

CycleStep(w) ==
  \/ ClaimSubmission(w)
  \/ NothingToSubmit(w)
  \/ SubmitLost(w)
  \/ SubmitAccepted(w)
  \/ SubmitRefused(w)
  \/ MarkSubmitted(w)
  \/ ClaimDue(w)
  \/ \E b \in Batches : Retrieve(w, b) \/ RetrieveFails(w, b)
  \/ SaveSnapshot(w)
  \/ RejectSnapshot(w)
  \/ ClaimResults(w)
  \/ \E i \in Items : ApplyResult(w, i) \/ ReleaseResult(w, i)
  \/ EndCycle(w)
  \/ Crash(w)

Next ==
  \/ \E i \in Items : Enqueue(i) \/ ApplyLeaseExpires(i)
  \/ \E w \in Workers : CycleStep(w)
  \/ \E b \in Batches : ProviderEnds(b) \/ PollTimeComes(b)

Spec == Init /\ [][Next]_vars

\* What the code's scheduling provides: cycles are repeated, calls end, a
\* call or a handler does not fail for ever, a process is not killed at the
\* same step for ever, the provider ends every batch within its window.
Start(w) == ClaimSubmission(w) \/ NothingToSubmit(w)
SubmitEnds(w) == SubmitAccepted(w) \/ SubmitRefused(w)

Fairness ==
  /\ \A w \in Workers :
       /\ SF_vars(Start(w)) /\ SF_vars(SubmitEnds(w)) /\ SF_vars(MarkSubmitted(w))
       /\ SF_vars(ClaimDue(w)) /\ SF_vars(SaveSnapshot(w)) /\ SF_vars(ClaimResults(w))
       /\ WF_vars(EndCycle(w)) /\ WF_vars(RejectSnapshot(w))
       /\ \A b \in Batches : SF_vars(Retrieve(w, b))
       /\ \A i \in Items : SF_vars(ApplyResult(w, i))
       /\ WF_vars(\E i \in Items : ApplyResult(w, i) \/ ReleaseResult(w, i))
       /\ WF_vars(\E b \in Batches : Retrieve(w, b) \/ RetrieveFails(w, b))
  /\ \A b \in Batches : WF_vars(ProviderEnds(b)) /\ WF_vars(PollTimeComes(b))
  /\ \A i \in Items : WF_vars(ApplyLeaseExpires(i))

FairSpec == Spec /\ Fairness

-----------------------------------------------------------------------------
(* Properties.                                                             *)

\* Every row and every cycle has its type; attempt counts stay within the limit.
TypeOK ==
  /\ item \in [Items -> ItemRow]
  /\ batch \in [Batches -> BatchStatus]
  /\ due \subseteq Batches
  /\ job \in [ReportItems -> {"running", "waiting_provider", "completed"}]
  /\ provider \in [Batches -> ProviderBatch]
  /\ worker \in [Workers -> CycleState]
  /\ effects \in [Items -> 0 .. 2]
  /\ stray \subseteq Items
  /\ abandoned \subseteq Batches

\* A queued item can be submitted: it is in no batch and has an attempt left
\* (claim_llm_batch never looks at a queued item without one, and nothing
\* else would end it).
QueuedIsSubmittable ==
  \A i \in Items : item[i].status = "queued"
    => item[i].batch = None /\ item[i].attempts < MaxAttempts

\* The statuses of an item and of its batch agree: the submission moves both
\* together, and once a batch has a terminal status none of its items still
\* waits for a result, for no later poll would bring one.
ItemMatchesBatch ==
  \A i \in Items :
    /\ item[i].status = "preparing"
         => item[i].batch /= None /\ batch[item[i].batch] = "preparing"
    /\ item[i].status = "submitted"
         => item[i].batch /= None /\ batch[item[i].batch] = "submitted"

\* A result is the item's own: a completed item carries the success that the
\* batch it is linked to returned for it, whatever other batches it was in
\* before and however late their results arrive.
ResultIsItsBatchs ==
  \A i \in Items : item[i].status = "completed"
    => item[i].batch /= None /\ provider[item[i].batch].lines[i] = "ok"

\* Partial success is kept: when a batch is saved as terminal, every success
\* it returned is on its item, also when the batch expired or failed
\* (docs/openai-batch-processing-design.md 74-75).
NoResultLost ==
  \A b \in Batches : batch[b] \in Terminal =>
    \A i \in Items : provider[b].lines[i] = "ok"
      => item[i].status = "completed" /\ item[i].batch = b

\* The result of an item reaches the domain once: its handler commits at
\* most one time, although a claim may lapse while the handler runs and
\* another process, perhaps with the same id, takes the item over.
AppliedOnce ==
  \A i \in Items : effects[i] = IF item[i].applied THEN 1 ELSE 0

\* A report job is completed exactly when the result of its item is applied,
\* and waits for the provider from the item's registration until then.
JobFollowsItem ==
  \A i \in ReportItems :
    /\ job[i] = "completed" <=> item[i].applied
    /\ job[i] = "running" <=> item[i].status = "absent"

\* An item in preparation is held by a cycle that will submit or release
\* it, or its process died between the claim and the statement that records
\* the submission.  Such an item stays where it is: no statement looks at a
\* batch in preparation.  No other step, of this process or another, leaves
\* one there.
PreparingIsHeld ==
  \A i \in Items : item[i].status = "preparing"
    => \/ item[i].batch \in abandoned
       \/ \E w \in Workers : /\ worker[w].pc \in {"submitting", "accepted"}
                            /\ worker[w].batch = item[i].batch

\* Items, batches, cycles and report jobs tell one story (llm_batches.py).
ItemsAgree ==
  /\ QueuedIsSubmittable
  /\ ItemMatchesBatch
  /\ PreparingIsHeld
  /\ JobFollowsItem

\* Of the batches whose id the service got, no two return a success for the
\* same item: an item goes back to the queue only when its batch is over and
\* had no success for it.  What a stray batch returns comes on top of that:
\* the provider may answer, and charge for, the items in it once more.
OneKnownSuccess ==
  \A i \in Items : \A b, c \in Batches :
    provider[b].lines[i] = "ok" /\ provider[c].lines[i] = "ok" => b = c

\* Results are not lost or mixed up, and an item is not asked for again
\* after a success the service knows of (openai_batch.py).
ResultsAreKept ==
  /\ ResultIsItsBatchs
  /\ NoResultLost
  /\ OneKnownSuccess

\* Saving a terminal snapshot never raises: the lines of a batch are saved
\* once.  It holds with one process; two that poll one batch after a poll
\* lease lapsed both save its lines, and the second cycle ends in ValueError.
NoSaveRaises == \A w \in Workers : worker[w].pc /= "raised"

\* Every registered item is settled: completed, or failed.  The exception is
\* an item whose process died while it submitted it: it stays in preparation.
Stranded(i) == item[i].status = "preparing" /\ item[i].batch \in abandoned

ItemSettles ==
  \A i \in Items :
    item[i].status = "queued" ~> item[i].status \in {"completed", "failed"} \/ Stranded(i)

\* Every completed result reaches the domain, although claims lapse and
\* processes die while they apply it.
CompletedIsApplied ==
  \A i \in Items : item[i].status = "completed" ~> item[i].applied

\* No item is forgotten, from its registration until its result is in the
\* domain, but for one that is stranded.
ItemsReachTheirEnd == ItemSettles /\ CompletedIsApplied

=============================================================================
