-------------------------------- MODULE Workers --------------------------------
(***************************************************************************)
(* The resident worker processes (src/workers/main.py, runtime/features/   *)
(* queue.py, features/batch_runner.py): batches of slots that share a pool *)
(* of connections, the capacity of the provider they share over all        *)
(* processes (provider_rate_limits.py), the calls of a job with their      *)
(* retries (src/agent/llm/features/client.py and tool_loop.py) and the     *)
(* usage they leave (persistence/features/usage.py).                       *)
(*                                                                         *)
(* The rows of a job are in JobQueue; here a job is queued, running,       *)
(* stranded (its slot is gone and its lease has to lapse) or ended.        *)
(***************************************************************************)
EXTENDS Integers, Sequences, FiniteSets, SequencesExt

CONSTANTS
  Processes,     \* the resident processes; each consumes one type of job
  Jobs,          \* id -> [by, requests, turns]: its process, its estimate, the turns of its tool loop (0: one plain call)
  Concurrency,   \* slots of a batch
  BatchLimit,    \* jobs of a batch
  JobAttempts,   \* max_attempts of a job
  CallAttempts,  \* _DEFAULT_MAX_ATTEMPTS of one call
  MaxDelay,      \* _DEFAULT_MAX_RETRY_SECONDS
  DefaultLimit,  \* default_rpm
  Window,        \* a minute
  Answers,       \* what the provider may answer: [kind, input, cached, headers]
  MaxFaults      \* bound: faults of the database and the pool

VARIABLES
  job,      \* per job: [status, attempt]
  batch,    \* per process: [open, claimed, exhausted, slot]
  run,      \* per job: where its slot is, [pc, orphan, call, try, seen, error]
  rate,     \* the provider's row: [limit, remaining, reset, blocked]
  owed,     \* the attempts at calls that usage_logs has no row of yet, but those whose record a fault lost
  faults

vars == <<job, batch, run, rate, owed, faults>>

NoHeaders == [limit |-> 0, remaining |-> 0, reset |-> 0, retry |-> 0]
Off == [pc |-> "off", orphan |-> FALSE, call |-> 1, try |-> 1, seen |-> <<>>, error |-> "none"]
Closed == [open |-> FALSE, claimed |-> 0, exhausted |-> FALSE, slot |-> [s \in 1..Concurrency |-> 0]]
Free == 0        \* a slot that is about to claim
Returned == -1   \* a slot that found nothing to claim

Init ==
  /\ job = [j \in DOMAIN Jobs |-> [status |-> "queued", attempt |-> 0]]
  /\ batch = [w \in Processes |-> Closed]
  /\ run = [j \in DOMAIN Jobs |-> Off]
  /\ rate = [limit |-> DefaultLimit, remaining |-> DefaultLimit, reset |-> Window, blocked |-> 0]
  /\ owed = {}
  /\ faults = 0

Small(a, b) == IF a < b THEN a ELSE b

-----------------------------------------------------------------------------
(* One batch of a process. *)

_consume_job_batches(w) ==
  /\ ~batch[w].open
  /\ batch' = [batch EXCEPT ![w] = [Closed EXCEPT !.open = TRUE]]
  /\ UNCHANGED <<job, run, rate, owed, faults>>

\* Under the lock of the batch: a slot claims a job, or finds that there is none
\* or that the batch has had its number.
claim_next_job(w, s) ==
  LET queued == {j \in DOMAIN Jobs : Jobs[j].by = w /\ job[j].status = "queued"}
      b == batch[w]
  IN  /\ b.open
      /\ b.slot[s] = Free
      /\ IF b.exhausted \/ b.claimed >= BatchLimit \/ queued = {}
         THEN /\ batch' = [batch EXCEPT ![w].slot[s] = Returned,
                                        ![w].exhausted = @ \/ (b.claimed < BatchLimit /\ queued = {})]
              /\ UNCHANGED <<job, run>>
         ELSE \E j \in queued :
                /\ batch' = [batch EXCEPT ![w].slot[s] = j, ![w].claimed = @ + 1]
                /\ job' = [job EXCEPT ![j] = [status |-> "running", attempt |-> @.attempt + 1]]
                /\ run' = [run EXCEPT ![j] = [Off EXCEPT !.pc = "capacity"]]
      /\ UNCHANGED <<rate, owed, faults>>

run_job_batch(w) ==      \* every slot has returned
  /\ batch[w].open
  /\ \A s \in 1..Concurrency : batch[w].slot[s] = Returned
  /\ batch' = [batch EXCEPT ![w] = Closed]
  /\ UNCHANGED <<job, run, rate, owed, faults>>

\* A claim raises: gather ends with the first exception and the pool is closed,
\* but the other slots are tasks that go on with the connections they hold.
ClaimRaises(w, s) ==
  /\ faults < MaxFaults
  /\ batch[w].open
  /\ batch[w].slot[s] = Free
  /\ batch' = [batch EXCEPT ![w] = Closed]
  /\ run' = [j \in DOMAIN Jobs |-> IF j \in Range(batch[w].slot) THEN [run[j] EXCEPT !.orphan = TRUE] ELSE run[j]]
  /\ faults' = faults + 1
  /\ UNCHANGED <<job, rate, owed>>

-----------------------------------------------------------------------------
(* The provider's row. *)

\* An elapsed window starts again; a job that asks for more than the limit
\* reserves the limit.
Reserved_Mutant(j) == Jobs[j].requests
Reserved(j) == Small(Jobs[j].requests, rate.limit)
reserve_provider_capacity(j) ==
  LET remaining == IF rate.reset = 0 THEN rate.limit ELSE rate.remaining
      reset == IF rate.reset = 0 THEN Window ELSE rate.reset
      allowed == rate.blocked = 0 /\ remaining >= Reserved(j)
  IN  /\ run[j].pc = "capacity"
      /\ ~run[j].orphan
      /\ rate' = [rate EXCEPT !.remaining = IF allowed THEN remaining - Reserved(j) ELSE remaining, !.reset = reset]
      /\ run' = IF allowed THEN [run EXCEPT ![j].pc = "work"] ELSE run
      /\ UNCHANGED <<job, batch, owed, faults>>

Tick ==
  /\ rate.reset > 0 \/ rate.blocked > 0
  /\ rate' = [rate EXCEPT !.reset = IF @ = 0 THEN 0 ELSE @ - 1, !.blocked = IF @ = 0 THEN 0 ELSE @ - 1]
  /\ UNCHANGED <<job, batch, run, owed, faults>>

\* The last answer of the job that had headers; when it was given does not matter.
_latest_observed_headers(j) ==
  LET seen == run[j].seen
      with == {i \in DOMAIN seen : seen[i].headers # NoHeaders}
      latest == {i \in with : \A k \in with : k <= i}
  IN  IF latest = {} THEN NoHeaders ELSE seen[CHOOSE i \in latest : TRUE].headers

\* A remaining count above the limit is cut to it.
observe_provider_rate_limits_Mutant(h) ==
  rate' = [limit |-> IF h.limit = 0 THEN rate.limit ELSE h.limit, remaining |-> h.remaining, reset |-> h.reset,
           blocked |-> IF h.retry = 0 THEN rate.blocked ELSE h.retry]
observe_provider_rate_limits(h) ==
  LET limit == IF h.limit = 0 THEN rate.limit ELSE h.limit
  IN  rate' = [limit |-> limit, remaining |-> Small(h.remaining, limit), reset |-> h.reset,
               blocked |-> IF h.retry = 0 THEN rate.blocked ELSE h.retry]

-----------------------------------------------------------------------------
(* The calls of a job. *)

Attempt(j) == [job |-> j, attempt |-> job[j].attempt, call |-> run[j].call, try |-> run[j].try]

\* The tokens read from the cache are at most those of the input: a row that says
\* otherwise is refused, and the rows written with it.
token_usage_from_value_Mutant(a) == a.cached
token_usage_from_value(a) == Small(a.cached, a.input)

\* A loop whose turns are used up asks once more, without tools: the job has made
\* its last call when the model wants no tool or cannot have one.
run_tool_loop(j, a) == a.kind = "ok" \/ (a.kind = "tools" /\ run[j].call > Jobs[j].turns)

\* One attempt.  Transient errors are tried again while attempts and the time
\* for waiting last; errors of quota or billing are not.  The last call completes
\* the job; a lease that was lost meanwhile makes the completion raise.
complete_with_usage(j, a) ==
  LET seen == Append(run[j].seen, [of |-> Attempt(j), input |-> a.input, cached |-> token_usage_from_value(a), headers |-> a.headers])
      was == run[j]
      again == a.kind = "transient" /\ run[j].try < CallAttempts /\ a.headers.retry <= MaxDelay
  IN  /\ run[j].pc = "work"
      /\ owed' = owed \cup {Attempt(j)}
      /\ run' = [run EXCEPT ![j] =
           IF a.kind = "tools" /\ ~run_tool_loop(j, a) THEN [was EXCEPT !.seen = seen, !.call = was.call + 1, !.try = 1]
           ELSE IF run_tool_loop(j, a) THEN [was EXCEPT !.seen = seen, !.pc = "observe"]
           ELSE IF again THEN [was EXCEPT !.seen = seen, !.try = was.try + 1]
           ELSE [was EXCEPT !.seen = seen, !.pc = "observe", !.error = a.kind]]
      /\ job' = [job EXCEPT ![j].status = IF run_tool_loop(j, a) THEN "completed" ELSE @]
      /\ UNCHANGED <<batch, rate, faults>>

\* The heartbeat raises, as it does when the lease or the pool is gone: the
\* operation is cancelled.  A call that is under way in a thread goes on and tells
\* a list that nobody reads again.
_run_with_job_heartbeat(j) ==
  /\ run[j].pc \in {"capacity", "work"}
  /\ run[j].orphan \/ faults < MaxFaults
  /\ faults' = IF run[j].orphan THEN faults ELSE faults + 1
  /\ run' = [run EXCEPT ![j].pc = "observe", ![j].error = "lost"]
  /\ UNCHANGED <<job, batch, rate, owed>>

-----------------------------------------------------------------------------
(* The end of a job: its headers, its usage, its failure. *)

observe_job_provider_limits(j) ==
  LET h == _latest_observed_headers(j)
  IN  /\ run[j].pc = "observe"
      /\ run' = [run EXCEPT ![j].pc = "usage"]
      /\ \/ h # NoHeaders /\ ~run[j].orphan /\ observe_provider_rate_limits(h)
         \/ (h = NoHeaders \/ run[j].orphan) /\ UNCHANGED rate
      /\ UNCHANGED <<job, batch, owed, faults>>

\* The slot is free again, or its task ends with the closed pool.
LeaveSlot(j) ==
  IF run[j].orphan THEN UNCHANGED batch
  ELSE batch' = [w \in Processes |-> [batch[w] EXCEPT !.slot = [s \in 1..Concurrency |-> IF batch[w].slot[s] = j THEN Free ELSE batch[w].slot[s]]]]

Leave(j) ==     \* a job without an error is done
  IF run[j].error = "none" THEN run' = [run EXCEPT ![j] = Off] /\ LeaveSlot(j)
  ELSE run' = [run EXCEPT ![j].pc = "fail"] /\ UNCHANGED batch

UsageLogRecord(o) == o.cached <= o.input     \* __post_init__ raises otherwise
usage_log_records_from_observations(j) == Range(run[j].seen)
price_and_insert_usage_logs(j) ==
  LET records == usage_log_records_from_observations(j)
  IN  owed' = owed \ IF \A o \in records : UsageLogRecord(o) THEN {o.of : o \in records} ELSE {}

flush_job_llm_usage_logs(j) ==
  LET seen == usage_log_records_from_observations(j)
  IN  /\ run[j].pc = "usage"
      /\ Leave(j)
      /\ \/ /\ ~run[j].orphan
            /\ price_and_insert_usage_logs(j)
            /\ UNCHANGED faults
         \/ /\ run[j].orphan \/ faults < MaxFaults     \* it cannot be stored: the result of the job goes first
            /\ owed' = owed \ {o.of : o \in seen}
            /\ faults' = IF run[j].orphan THEN faults ELSE faults + 1
      /\ UNCHANGED <<job, rate>>

\* A transient error of the last attempt, quota and anything else end the job.  A
\* closed pool raises instead, and an owner that lost its lease is refused.
record_job_failure(j) ==
  LET retried == run[j].error = "transient" /\ job[j].attempt < JobAttempts
  IN  /\ run[j].pc = "fail"
      /\ job' = [job EXCEPT ![j].status = IF run[j].orphan \/ run[j].error = "lost" THEN "stranded"
                                          ELSE IF retried THEN "queued" ELSE "failed"]
      /\ run' = [run EXCEPT ![j] = Off]
      /\ LeaveSlot(j)
      /\ UNCHANGED <<rate, owed, faults>>

LeaseLapses(j) ==      \* claimed again, or closed by the reaper
  /\ job[j].status = "stranded"
  /\ job' = [job EXCEPT ![j].status = IF job[j].attempt < JobAttempts THEN "queued" ELSE "failed"]
  /\ UNCHANGED <<batch, run, rate, owed, faults>>

SlotStep(j) ==
  \/ reserve_provider_capacity(j)
  \/ \E a \in Answers : complete_with_usage(j, a)
  \/ observe_job_provider_limits(j)
  \/ flush_job_llm_usage_logs(j)
  \/ record_job_failure(j)
  \/ LeaseLapses(j)
Next ==
  \/ \E w \in Processes : \/ _consume_job_batches(w)
                          \/ run_job_batch(w)
                          \/ \E s \in 1..Concurrency : claim_next_job(w, s) \/ ClaimRaises(w, s)
  \/ \E j \in DOMAIN Jobs : SlotStep(j) \/ _run_with_job_heartbeat(j)
  \/ Tick

\* The loops run for as long as the process does and the clock goes on; an
\* orphan's next heartbeat finds the pool closed.
Fairness ==
  /\ \A w \in Processes : /\ WF_vars(_consume_job_batches(w)) /\ WF_vars(run_job_batch(w))
                          /\ \A s \in 1..Concurrency : WF_vars(claim_next_job(w, s))
  /\ \A j \in DOMAIN Jobs : WF_vars(SlotStep(j)) /\ WF_vars(run[j].orphan /\ _run_with_job_heartbeat(j))
  /\ WF_vars(Tick)

Spec == Init /\ [][Next]_vars /\ Fairness

-----------------------------------------------------------------------------
\* What is assumed of the constants: job ids are positive, limits and counts are
\* numbers, and an answer is what the client reads from a response.
HeaderRows == [limit : Nat, remaining : Nat, reset : Nat, retry : Nat]
Kinds == {"ok", "tools", "transient", "quota"}
ConstantsAreSound ==
  /\ \A j \in DOMAIN Jobs : j \in Nat \ {0} /\ Jobs[j].requests \in Nat /\ Jobs[j].turns \in Nat
  /\ JobAttempts \in Nat \ {0} /\ CallAttempts \in Nat \ {0}
  /\ Concurrency \in Nat /\ BatchLimit \in Nat /\ MaxFaults \in Nat
  /\ DefaultLimit \in Nat /\ Window \in Nat
  /\ \A a \in Answers : a.kind \in Kinds /\ a.input \in Nat /\ a.cached \in Nat /\ a.headers \in HeaderRows
ASSUME Sound == ConstantsAreSound

\* Every variable stays in the domain its table or its process gives it.
TypeOK ==
  /\ \A j \in DOMAIN Jobs : /\ job[j].status \in {"queued", "running", "stranded", "completed", "failed"}
                            /\ job[j].attempt \in 0..JobAttempts
                            /\ job[j].status \in {"queued", "stranded"} => run[j].pc = "off"
                            /\ run[j].pc = "off" => job[j].status # "running"
                            /\ run[j].try \in 1..CallAttempts /\ run[j].call \in 1..(Jobs[j].turns + 1)
  /\ \A w \in Processes : batch[w].claimed <= BatchLimit
  /\ rate.remaining \in 0..rate.limit
  /\ \A o \in owed : o.job \in DOMAIN Jobs /\ o.attempt <= job[o.job].attempt
  /\ faults \in 0..MaxFaults

\* Every attempt at a call of a job that has left its slot is in the usage logs,
\* those of failed attempts and failed jobs included, unless the row could not be
\* stored or the call went on in a thread after the job was cancelled.
UsageIsComplete == \A o \in owed : run[o.job].pc # "off" /\ job[o.job].attempt = o.attempt

\* Every job is ended in the end, whatever its estimate and whatever the headers
\* say: no job waits for a capacity the provider never has.
JobsSettle == \A j \in DOMAIN Jobs : <>[](job[j].status \in {"completed", "failed"})
=============================================================================
