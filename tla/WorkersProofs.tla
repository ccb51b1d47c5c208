----------------------------- MODULE WorkersProofs -----------------------------
(***************************************************************************)
(* Proofs about Workers for any number of processes, slots, jobs, calls    *)
(* and faults: every row keeps its type, the provider's row is never       *)
(* overdrawn, and a job does not leave its slot before the usage of its    *)
(* calls is logged.                                                        *)
(***************************************************************************)
EXTENDS Workers, SequenceTheorems, TLAPS

JobRows == [status : {"queued", "running", "stranded", "completed", "failed"}, attempt : 0 .. JobAttempts]
Batches == [open : BOOLEAN, claimed : 0 .. BatchLimit, exhausted : BOOLEAN, slot : [1 .. Concurrency -> Int]]
Calls == [job : DOMAIN Jobs, attempt : Nat, call : Nat, try : Nat]
Seen == [of : Calls, input : Nat, cached : Nat, headers : HeaderRows]
Runs == [pc : {"off", "capacity", "work", "observe", "usage", "fail"}, orphan : BOOLEAN, call : Nat,
         try : 1 .. CallAttempts, seen : Seq(Seen), error : {"none", "lost"} \cup Kinds]

Typed ==
  /\ job \in [DOMAIN Jobs -> JobRows]
  /\ batch \in [Processes -> Batches]
  /\ run \in [DOMAIN Jobs -> Runs]
  /\ rate \in [limit : Nat, remaining : Nat, reset : Nat, blocked : Nat] /\ rate.remaining <= rate.limit
  /\ owed \in SUBSET Calls
  /\ faults \in 0 .. MaxFaults

\* Where the slot of a job is, and what the job's row says meanwhile; what its
\* slot saw can all be logged.
Stage(j) ==
  LET r == run[j]
      status == job[j].status
  IN  /\ status \in {"queued", "stranded"} => r.pc = "off"
      /\ status = "queued" => job[j].attempt < JobAttempts
      /\ r.pc = "off" => status # "running"
      /\ r.pc \in {"capacity", "work"} => status = "running" /\ r.error = "none"
      /\ r.pc \in {"observe", "usage"} => status = IF r.error = "none" THEN "completed" ELSE "running"
      /\ r.pc = "fail" => status = "running" /\ r.error # "none"
      /\ r.call \in 1 .. Jobs[j].turns + 1
      /\ \A i \in DOMAIN r.seen : r.seen[i].cached <= r.seen[i].input

\* What is owed is in the list of the slot that owes it, which is before the
\* step that stores the list.
Owing(o) ==
  LET r == run[o.job]
  IN  /\ o.attempt = job[o.job].attempt
      /\ r.pc \in {"work", "observe", "usage"}
      /\ \E i \in DOMAIN r.seen : r.seen[i].of = o

IInv ==
  /\ Typed
  /\ \A j \in DOMAIN Jobs : Stage(j)
  /\ \A o \in owed : Owing(o)

-----------------------------------------------------------------------------
(* Types of the rows.                                                      *)

LEMMA Fields ==
  ASSUME Typed, NEW j \in DOMAIN Jobs
  PROVE  /\ job[j] \in JobRows /\ job[j].attempt \in 0 .. JobAttempts
         /\ run[j] \in Runs /\ run[j].call \in Nat /\ run[j].try \in 1 .. CallAttempts
         /\ run[j].seen \in Seq(Seen) /\ run[j].error \in {"none", "lost"} \cup Kinds
BY DEF Typed, JobRows, Runs

LEMMA RateFields ==
  ASSUME Typed
  PROVE  /\ rate.limit \in Nat /\ rate.remaining \in Nat /\ rate.reset \in Nat /\ rate.blocked \in Nat
         /\ rate.remaining <= rate.limit
BY DEF Typed

LEMMA ClosedIsBatch == ASSUME ConstantsAreSound PROVE Closed \in Batches /\ [Closed EXCEPT !.open = TRUE] \in Batches
<1>1. Closed \in Batches
  BY DEF Closed, Batches, ConstantsAreSound
<1>2. \A b \in Batches : [b EXCEPT !.open = TRUE] \in Batches
  BY DEF Batches
<1> QED
  BY <1>1, <1>2

\* Where a slot begins and ends.
At(pc) == [Off EXCEPT !.pc = pc]

LEMMA AtIsRun ==
  ASSUME ConstantsAreSound
  PROVE  /\ Off \in Runs /\ Off.pc = "off" /\ Off.call = 1 /\ Off.seen = <<>> /\ Off.error = "none"
         /\ At("capacity") \in Runs /\ At("capacity").pc = "capacity" /\ At("capacity").call = 1
         /\ At("capacity").seen = <<>> /\ At("capacity").error = "none"
<1>1. <<>> \in Seq(Seen) /\ 1 \in 1 .. CallAttempts
  BY DEF ConstantsAreSound
<1>2. Off \in Runs /\ Off.pc = "off" /\ Off.call = 1 /\ Off.seen = <<>> /\ Off.error = "none"
  BY <1>1 DEF Off, Runs
<1>3. \A x \in Runs : LET y == [x EXCEPT !.pc = "capacity"]
                      IN  y \in Runs /\ y.pc = "capacity" /\ y.call = x.call /\ y.seen = x.seen /\ y.error = x.error
  BY DEF Runs
<1>4. At("capacity") = [Off EXCEPT !.pc = "capacity"]
  BY DEF At
<1> QED
  BY <1>2, <1>3, <1>4

\* Owed calls are calls of jobs.
LEMMA OwedCalls == ASSUME Typed, NEW o \in owed PROVE o \in Calls /\ o.job \in DOMAIN Jobs
BY DEF Typed, Calls

-----------------------------------------------------------------------------
(* What the steps have in common.                                          *)

\* A step of one job.
LEMMA StepOf ==
  ASSUME IInv, NEW j \in DOMAIN Jobs, Typed', Stage(j)',
         \A i \in DOMAIN Jobs : i # j => run'[i] = run[i] /\ job'[i] = job[i],
         \A o \in owed' : o.job # j => o \in owed,
         \A o \in owed' : o.job = j => Owing(o)'
  PROVE  IInv'
<1>1. ASSUME NEW i \in DOMAIN Jobs PROVE Stage(i)'
  <2>1. CASE i = j
    BY <2>1
  <2>2. CASE i # j
    <3>1. Stage(i) /\ run'[i] = run[i] /\ job'[i] = job[i]
      BY <2>2 DEF IInv
    <3> QED
      BY <3>1 DEF Stage
  <2> QED
    BY <2>1, <2>2
<1>2. ASSUME NEW o \in owed' PROVE Owing(o)'
  <2>1. CASE o.job = j
    BY <2>1
  <2>2. CASE o.job # j
    <3>1. o \in owed /\ Owing(o) /\ o.job \in DOMAIN Jobs
      BY <2>2, OwedCalls DEF IInv
    <3>2. run'[o.job] = run[o.job] /\ job'[o.job] = job[o.job]
      BY <2>2, <3>1
    <3> QED
      BY <3>1, <3>2 DEF Owing
  <2> QED
    BY <2>1, <2>2
<1> QED
  BY <1>1, <1>2 DEF IInv

\* A step beside the jobs.
LEMMA StepBeside ==
  ASSUME IInv, Typed', run' = run, job' = job, owed' = owed
  PROVE  IInv'
<1>1. \A j \in DOMAIN Jobs : Stage(j)'
  BY DEF IInv, Stage
<1>2. \A o \in owed' : Owing(o)'
  BY DEF IInv, Owing
<1> QED
  BY <1>1, <1>2 DEF IInv

\* The rows of job and run after a step that replaces those of one job.
LEMMA RowsOf ==
  ASSUME Typed, NEW j \in DOMAIN Jobs, NEW r \in Runs, NEW row \in JobRows,
         run' = [run EXCEPT ![j] = r], job' = [job EXCEPT ![j] = row]
  PROVE  /\ run' \in [DOMAIN Jobs -> Runs] /\ job' \in [DOMAIN Jobs -> JobRows]
         /\ run'[j] = r /\ job'[j] = row
         /\ \A i \in DOMAIN Jobs : i # j => run'[i] = run[i] /\ job'[i] = job[i]
BY DEF Typed

LEMMA InitInv == ASSUME ConstantsAreSound, Init PROVE IInv
<1>1. Typed
  <2>1. \A j \in DOMAIN Jobs : job[j] \in JobRows
    BY DEF Init, JobRows, ConstantsAreSound
  <2>2. \A j \in DOMAIN Jobs : run[j] \in Runs
    BY AtIsRun DEF Init
  <2>3. \A w \in Processes : batch[w] \in Batches
    BY ClosedIsBatch DEF Init
  <2>4. rate \in [limit : Nat, remaining : Nat, reset : Nat, blocked : Nat] /\ rate.remaining <= rate.limit
    BY DEF Init, ConstantsAreSound
  <2> QED
    BY <2>1, <2>2, <2>3, <2>4 DEF Init, Typed, ConstantsAreSound
<1>2. ASSUME NEW j \in DOMAIN Jobs PROVE Stage(j)
  <2>1. run[j] = Off /\ job[j].status = "queued" /\ job[j].attempt = 0 /\ 0 < JobAttempts /\ 1 \in 1 .. Jobs[j].turns + 1
    BY DEF Init, ConstantsAreSound
  <2>2. \A i \in DOMAIN Off.seen : Off.seen[i].cached <= Off.seen[i].input
    BY DEF Off
  <2> QED
    BY <2>1, <2>2, AtIsRun DEF Stage
<1>3. \A o \in owed : Owing(o)
  BY DEF Init
<1> QED
  BY <1>1, <1>2, <1>3 DEF IInv

-----------------------------------------------------------------------------
(* One lemma per action: the batches.                                      *)

LEMMA BatchKeeps ==
  ASSUME ConstantsAreSound, IInv, NEW w \in Processes, _consume_job_batches(w) \/ run_job_batch(w)
  PROVE  IInv'
<1>1. batch' = [batch EXCEPT ![w] = [Closed EXCEPT !.open = TRUE]] \/ batch' = [batch EXCEPT ![w] = Closed]
  BY DEF _consume_job_batches, run_job_batch
<1>2. batch' \in [Processes -> Batches]
  BY <1>1, ClosedIsBatch DEF IInv, Typed
<1>3. job' = job /\ run' = run /\ rate' = rate /\ owed' = owed /\ faults' = faults
  BY DEF _consume_job_batches, run_job_batch
<1>4. Typed'
  BY <1>2, <1>3 DEF IInv, Typed
<1> QED
  BY <1>3, <1>4, StepBeside

LEMMA ClaimKeeps ==
  ASSUME ConstantsAreSound, IInv, NEW w \in Processes, NEW s \in 1 .. Concurrency, claim_next_job(w, s)
  PROVE  IInv'
<1> DEFINE queued == {j \in DOMAIN Jobs : Jobs[j].by = w /\ job[j].status = "queued"}
           b == batch[w]
<1>1. b \in Batches /\ b.claimed \in 0 .. BatchLimit /\ b.exhausted \in BOOLEAN /\ b.slot \in [1 .. Concurrency -> Int]
  BY DEF IInv, Typed, Batches
<1>2. rate' = rate /\ owed' = owed /\ faults' = faults
  BY DEF claim_next_job
<1>3. CASE b.exhausted \/ b.claimed >= BatchLimit \/ queued = {}
  <2> DEFINE e == b.exhausted \/ (b.claimed < BatchLimit /\ queued = {})
             c == [b EXCEPT !.slot = [b.slot EXCEPT ![s] = Returned], !.claimed = b.claimed, !.exhausted = e]
  <2>1. e \in BOOLEAN /\ Returned \in Int
    BY <1>1 DEF Returned
  <2>2. /\ batch' = [batch EXCEPT ![w].slot[s] = Returned, ![w].exhausted = @ \/ (b.claimed < BatchLimit /\ queued = {})]
        /\ job' = job /\ run' = run
    BY <1>3 DEF claim_next_job
  <2>3. batch'[w] = [b EXCEPT !.slot = [b.slot EXCEPT ![s] = Returned], !.exhausted = e]
    BY <2>2 DEF IInv, Typed
  <2> HIDE DEF e
  <2>4. batch'[w] \in Batches
    <3>1. [b.slot EXCEPT ![s] = Returned] \in [1 .. Concurrency -> Int]
      BY <1>1, <2>1
    <3> QED
      BY <1>1, <2>1, <2>3, <3>1 DEF Batches
  <2>5. \A x \in Processes : x # w => batch'[x] = batch[x]
    BY <2>2 DEF IInv, Typed
  <2>6. DOMAIN batch' = Processes /\ batch' = [x \in Processes |-> batch'[x]]
    BY <2>2 DEF IInv, Typed
  <2>7. batch' \in [Processes -> Batches]
    BY <2>4, <2>5, <2>6 DEF IInv, Typed
  <2>8. Typed'
    BY <1>2, <2>2, <2>7 DEF IInv, Typed
  <2> QED
    BY <1>2, <2>2, <2>8, StepBeside
<1>4. CASE ~(b.exhausted \/ b.claimed >= BatchLimit \/ queued = {})
  <2>1. PICK j \in queued :
          /\ batch' = [batch EXCEPT ![w].slot[s] = j, ![w].claimed = @ + 1]
          /\ job' = [job EXCEPT ![j] = [status |-> "running", attempt |-> @.attempt + 1]]
          /\ run' = [run EXCEPT ![j] = [Off EXCEPT !.pc = "capacity"]]
    BY <1>4 DEF claim_next_job
  <2> DEFINE row == [status |-> "running", attempt |-> job[j].attempt + 1]
  <2>2. j \in DOMAIN Jobs /\ j \in Int /\ job[j].status = "queued" /\ job[j].attempt < JobAttempts /\ run[j].pc = "off"
    BY DEF IInv, Stage, ConstantsAreSound
  <2>3. b.claimed + 1 \in 0 .. BatchLimit
    BY <1>1, <1>4 DEF ConstantsAreSound
  <2>4. batch'[w] = [b EXCEPT !.slot = [b.slot EXCEPT ![s] = j], !.claimed = b.claimed + 1]
    BY <2>1 DEF IInv, Typed
  <2>5. batch'[w] \in Batches
    <3>1. [b.slot EXCEPT ![s] = j] \in [1 .. Concurrency -> Int]
      BY <1>1, <2>2
    <3> QED
      BY <1>1, <2>3, <2>4, <3>1 DEF Batches
  <2>6. \A x \in Processes : x # w => batch'[x] = batch[x]
    BY <2>1 DEF IInv, Typed
  <2>7. DOMAIN batch' = Processes /\ batch' = [x \in Processes |-> batch'[x]]
    BY <2>1 DEF IInv, Typed
  <2>8. batch' \in [Processes -> Batches]
    BY <2>5, <2>6, <2>7 DEF IInv, Typed
  <2>9. row \in JobRows /\ row.status = "running"
    BY <2>2, Fields DEF JobRows, IInv, ConstantsAreSound
  <2>10. job' = [job EXCEPT ![j] = row] /\ run' = [run EXCEPT ![j] = At("capacity")]
    BY <2>1, <2>2 DEF At, IInv, Typed
  <2> HIDE DEF row
  <2>11. /\ run' \in [DOMAIN Jobs -> Runs] /\ job' \in [DOMAIN Jobs -> JobRows]
         /\ run'[j] = At("capacity") /\ job'[j] = row
         /\ \A i \in DOMAIN Jobs : i # j => run'[i] = run[i] /\ job'[i] = job[i]
    BY <2>2, <2>9, <2>10, AtIsRun, RowsOf DEF IInv
  <2>12. Typed'
    BY <1>2, <2>8, <2>11 DEF IInv, Typed
  <2>13. Stage(j)'
    <3>1. 1 \in 1 .. Jobs[j].turns + 1 /\ \A i \in DOMAIN <<>> : FALSE
      BY <2>2 DEF ConstantsAreSound
    <3> QED
      BY <3>1, <2>9, <2>11, AtIsRun DEF Stage
  <2>14. \A o \in owed' : o.job # j
    BY <1>2, <2>2 DEF IInv, Owing
  <2> QED
    BY <1>2, <2>2, <2>11, <2>12, <2>13, <2>14, StepOf
<1> QED
  BY <1>3, <1>4

\* The slots of the closed pool go on as they are.
LEMMA RaisesKeeps ==
  ASSUME ConstantsAreSound, IInv, NEW w \in Processes, NEW s \in 1 .. Concurrency, ClaimRaises(w, s)
  PROVE  IInv'
<1>1. run' = [j \in DOMAIN Jobs |-> IF j \in Range(batch[w].slot) THEN [run[j] EXCEPT !.orphan = TRUE] ELSE run[j]]
  BY DEF ClaimRaises
<1>2. \A r \in Runs : LET o == [r EXCEPT !.orphan = TRUE]
                      IN  o \in Runs /\ o.pc = r.pc /\ o.call = r.call /\ o.seen = r.seen /\ o.error = r.error
  BY DEF Runs
<1>3. \A j \in DOMAIN Jobs : /\ run'[j] \in Runs /\ run'[j].pc = run[j].pc /\ run'[j].call = run[j].call
                             /\ run'[j].seen = run[j].seen /\ run'[j].error = run[j].error
  BY <1>1, <1>2, Fields DEF IInv
<1>4. batch' \in [Processes -> Batches]
  BY ClosedIsBatch DEF ClaimRaises, IInv, Typed
<1>5. job' = job /\ rate' = rate /\ owed' = owed /\ faults' \in 0 .. MaxFaults
  BY DEF ClaimRaises, IInv, Typed, ConstantsAreSound
<1>6. run' \in [DOMAIN Jobs -> Runs]
  BY <1>1, <1>3
<1>7. Typed'
  BY <1>4, <1>5, <1>6 DEF IInv, Typed
<1>8. ASSUME NEW j \in DOMAIN Jobs PROVE Stage(j)'
  <2>1. Stage(j)
    BY DEF IInv
  <2> QED
    BY <2>1, <1>3, <1>5 DEF Stage
<1>9. ASSUME NEW o \in owed' PROVE Owing(o)'
  <2>1. o \in owed /\ Owing(o) /\ o.job \in DOMAIN Jobs
    BY <1>5, OwedCalls DEF IInv
  <2> QED
    BY <2>1, <1>3, <1>5 DEF Owing
<1> QED
  BY <1>7, <1>8, <1>9 DEF IInv

-----------------------------------------------------------------------------
(* The provider's row and the calls.                                       *)

LEMMA ReserveKeeps ==
  ASSUME ConstantsAreSound, IInv, NEW j \in DOMAIN Jobs, reserve_provider_capacity(j)
  PROVE  IInv'
<1> DEFINE remaining == IF rate.reset = 0 THEN rate.limit ELSE rate.remaining
           reset == IF rate.reset = 0 THEN Window ELSE rate.reset
           allowed == rate.blocked = 0 /\ remaining >= Reserved(j)
           left == IF allowed THEN remaining - Reserved(j) ELSE remaining
           r == [run[j] EXCEPT !.pc = "work"]
<1>1. /\ rate' = [rate EXCEPT !.remaining = left, !.reset = reset]
      /\ run' = (IF allowed THEN [run EXCEPT ![j].pc = "work"] ELSE run)
      /\ run[j].pc = "capacity" /\ job' = job /\ batch' = batch /\ owed' = owed /\ faults' = faults
  BY DEF reserve_provider_capacity
<1>2. Reserved(j) \in Nat /\ remaining \in Nat /\ remaining <= rate.limit /\ reset \in Nat
  BY RateFields DEF IInv, Reserved, Small, ConstantsAreSound
<1>3. left \in Nat /\ left <= rate.limit
  BY <1>2, RateFields DEF IInv
<1> HIDE DEF remaining, reset, left
<1>4. rate' \in [limit : Nat, remaining : Nat, reset : Nat, blocked : Nat] /\ rate'.remaining <= rate'.limit
  BY <1>1, <1>2, <1>3 DEF IInv, Typed
<1> HIDE DEF allowed
<1>5. CASE run' = run
  <2>1. Typed'
    BY <1>1, <1>4, <1>5 DEF IInv, Typed
  <2> QED
    BY <1>1, <1>5, <2>1, StepBeside
<1>6. CASE run' = [run EXCEPT ![j].pc = "work"]
  <2>1. r \in Runs /\ r.pc = "work" /\ r.call = run[j].call /\ r.seen = run[j].seen /\ r.error = run[j].error
    BY Fields DEF Runs, IInv
  <2>2. run' = [run EXCEPT ![j] = r]
    BY <1>6 DEF IInv, Typed
  <2> HIDE DEF r
  <2>3. /\ run' \in [DOMAIN Jobs -> Runs] /\ run'[j] = r
        /\ \A i \in DOMAIN Jobs : i # j => run'[i] = run[i] /\ job'[i] = job[i]
    BY <1>1, <2>1, <2>2 DEF IInv, Typed
  <2>4. Typed'
    BY <1>1, <1>4, <2>3 DEF IInv, Typed
  <2>5. Stage(j)'
    <3>1. Stage(j)
      BY DEF IInv
    <3> QED
      BY <3>1, <1>1, <2>1, <2>3 DEF Stage
  <2>6. \A o \in owed' : o.job # j
    BY <1>1 DEF IInv, Owing
  <2> QED
    BY <1>1, <2>3, <2>4, <2>5, <2>6, StepOf
<1> QED
  BY <1>1, <1>5, <1>6

LEMMA TickKeeps == ASSUME ConstantsAreSound, IInv, Tick PROVE IInv'
<1> DEFINE reset == IF rate.reset = 0 THEN 0 ELSE rate.reset - 1
           blocked == IF rate.blocked = 0 THEN 0 ELSE rate.blocked - 1
<1>1. rate' = [rate EXCEPT !.reset = reset, !.blocked = blocked]
  BY DEF Tick
<1>2. reset \in Nat /\ blocked \in Nat
  BY RateFields DEF IInv
<1> HIDE DEF reset, blocked
<1>3. rate' \in [limit : Nat, remaining : Nat, reset : Nat, blocked : Nat] /\ rate'.remaining <= rate'.limit
  BY <1>1, <1>2 DEF IInv, Typed
<1>4. job' = job /\ batch' = batch /\ run' = run /\ owed' = owed /\ faults' = faults
  BY DEF Tick
<1>5. Typed'
  BY <1>3, <1>4 DEF IInv, Typed
<1> QED
  BY <1>4, <1>5, StepBeside

\* What an answer adds to the list can be stored.
LEMMA AnswerSeen ==
  ASSUME ConstantsAreSound, Typed, NEW j \in DOMAIN Jobs, NEW a \in Answers
  PROVE  LET o == [of |-> Attempt(j), input |-> a.input, cached |-> token_usage_from_value(a), headers |-> a.headers]
         IN  o \in Seen /\ Attempt(j) \in Calls /\ o.of = Attempt(j) /\ o.cached <= o.input
<1>1. Attempt(j) \in Calls
  BY Fields DEF Attempt, Calls, ConstantsAreSound
<1>2. a.input \in Nat /\ a.cached \in Nat /\ a.headers \in HeaderRows
  BY DEF ConstantsAreSound
<1>3. token_usage_from_value(a) \in Nat /\ token_usage_from_value(a) <= a.input
  BY <1>2 DEF token_usage_from_value, Small
<1> QED
  BY <1>1, <1>2, <1>3 DEF Seen

\* A list that grows at its end keeps what it had.
LEMMA Grows ==
  ASSUME NEW q \in Seq(Seen), NEW o \in Seen
  PROVE  /\ Append(q, o) \in Seq(Seen)
         /\ \A i \in DOMAIN q : i \in DOMAIN Append(q, o) /\ Append(q, o)[i] = q[i]
         /\ Len(q) + 1 \in DOMAIN Append(q, o) /\ Append(q, o)[Len(q) + 1] = o
         /\ \A i \in DOMAIN Append(q, o) : i \in DOMAIN q \/ Append(q, o)[i] = o
BY AppendProperties, LenProperties

LEMMA CompleteKeeps ==
  ASSUME ConstantsAreSound, IInv, NEW j \in DOMAIN Jobs, NEW a \in Answers, complete_with_usage(j, a)
  PROVE  IInv'
<1> DEFINE was == run[j]
           new == [of |-> Attempt(j), input |-> a.input, cached |-> token_usage_from_value(a), headers |-> a.headers]
           seen == Append(was.seen, new)
           again == a.kind = "transient" /\ was.try < CallAttempts /\ a.headers.retry <= MaxDelay
           done == run_tool_loop(j, a)
           r == IF a.kind = "tools" /\ ~done THEN [was EXCEPT !.seen = seen, !.call = was.call + 1, !.try = 1]
                ELSE IF done THEN [was EXCEPT !.seen = seen, !.pc = "observe"]
                ELSE IF again THEN [was EXCEPT !.seen = seen, !.try = was.try + 1]
                ELSE [was EXCEPT !.seen = seen, !.pc = "observe", !.error = a.kind]
           row == [job[j] EXCEPT !.status = IF done THEN "completed" ELSE job[j].status]
<1>1. /\ was.pc = "work" /\ owed' = owed \cup {Attempt(j)}
      /\ run' = [run EXCEPT ![j] = r] /\ job' = [job EXCEPT ![j].status = IF done THEN "completed" ELSE @]
      /\ batch' = batch /\ rate' = rate /\ faults' = faults
  BY DEF complete_with_usage
<1>2. job' = [job EXCEPT ![j] = row]
  BY <1>1 DEF IInv, Typed
<1>3. new \in Seen /\ Attempt(j) \in Calls /\ new.of = Attempt(j) /\ new.cached <= new.input
  BY AnswerSeen DEF IInv
<1>4. was \in Runs /\ was.seen \in Seq(Seen) /\ was.call \in Nat /\ was.try \in 1 .. CallAttempts /\ job[j] \in JobRows
  BY Fields DEF IInv
<1>5. /\ Stage(j) /\ job[j].status = "running" /\ was.error = "none" /\ was.call \in 1 .. Jobs[j].turns + 1
      /\ \A i \in DOMAIN was.seen : was.seen[i].cached <= was.seen[i].input
  BY <1>1 DEF IInv, Stage
<1> HIDE DEF new
<1>6. /\ seen \in Seq(Seen)
      /\ \A i \in DOMAIN was.seen : i \in DOMAIN seen /\ seen[i] = was.seen[i]
      /\ Len(was.seen) + 1 \in DOMAIN seen /\ seen[Len(was.seen) + 1] = new
      /\ \A i \in DOMAIN seen : i \in DOMAIN was.seen \/ seen[i] = new
  BY <1>3, <1>4, Grows
<1> HIDE DEF seen
<1>7. a.kind \in Kinds /\ Jobs[j].turns \in Nat /\ CallAttempts \in Nat \ {0}
  BY DEF ConstantsAreSound
<1>8. /\ r \in Runs /\ r.seen = seen /\ r.pc \in {"work", "observe"}
      /\ r.call \in 1 .. Jobs[j].turns + 1
      /\ r.pc = "work" => ~done /\ r.error = "none"
      /\ r.pc = "observe" => IF done THEN r.error = "none" ELSE r.error # "none"
  <2>1. CASE a.kind = "tools" /\ ~done
    <3>1. was.call <= Jobs[j].turns
      BY <2>1, <1>4, <1>7 DEF run_tool_loop
    <3>2. was.call + 1 \in Nat /\ was.call + 1 \in 1 .. Jobs[j].turns + 1 /\ 1 \in 1 .. CallAttempts
      BY <3>1, <1>4, <1>7
    <3>3. r = [was EXCEPT !.seen = seen, !.call = was.call + 1, !.try = 1]
      BY <2>1
    <3> HIDE DEF r
    <3>4. r \in Runs /\ r.seen = seen /\ r.pc = was.pc /\ r.call = was.call + 1 /\ r.error = was.error
      BY <3>2, <3>3, <1>4, <1>6 DEF Runs
    <3> QED
      BY <3>2, <3>4, <2>1, <1>1, <1>5
  <2>2. CASE done
    <3>1. r = [was EXCEPT !.seen = seen, !.pc = "observe"]
      BY <2>2
    <3> HIDE DEF r
    <3>2. r \in Runs /\ r.seen = seen /\ r.pc = "observe" /\ r.call = was.call /\ r.error = was.error
      BY <3>1, <1>4, <1>6 DEF Runs
    <3> QED
      BY <3>2, <2>2, <1>5
  <2>3. CASE a.kind # "tools" /\ ~done /\ again
    <3>1. was.try + 1 \in 1 .. CallAttempts
      BY <2>3, <1>4, <1>7
    <3>2. r = [was EXCEPT !.seen = seen, !.try = was.try + 1]
      BY <2>3
    <3> HIDE DEF r
    <3>3. r \in Runs /\ r.seen = seen /\ r.pc = was.pc /\ r.call = was.call /\ r.error = was.error
      BY <3>1, <3>2, <1>4, <1>6 DEF Runs
    <3> QED
      BY <3>3, <2>3, <1>1, <1>5
  <2>4. CASE a.kind # "tools" /\ ~done /\ ~again
    <3>1. r = [was EXCEPT !.seen = seen, !.pc = "observe", !.error = a.kind]
      BY <2>4
    <3> HIDE DEF r
    <3>2. r \in Runs /\ r.seen = seen /\ r.pc = "observe" /\ r.call = was.call /\ r.error = a.kind
      BY <3>1, <1>4, <1>6, <1>7 DEF Runs
    <3> QED
      BY <3>2, <2>4, <1>5, <1>7 DEF Kinds
  <2> QED
    BY <2>1, <2>2, <2>3, <2>4
<1>9. row \in JobRows /\ row.attempt = job[j].attempt /\ row.status = IF done THEN "completed" ELSE "running"
  BY <1>4, <1>5 DEF JobRows
<1> HIDE DEF r, row, done
<1>10. /\ run' \in [DOMAIN Jobs -> Runs] /\ job' \in [DOMAIN Jobs -> JobRows]
       /\ run'[j] = r /\ job'[j] = row
       /\ \A i \in DOMAIN Jobs : i # j => run'[i] = run[i] /\ job'[i] = job[i]
  BY <1>1, <1>2, <1>8, <1>9, RowsOf DEF IInv
<1>11. Typed'
  BY <1>1, <1>3, <1>10 DEF IInv, Typed
<1>12. Stage(j)'
  <2>1. \A i \in DOMAIN r.seen : r.seen[i].cached <= r.seen[i].input
    BY <1>3, <1>5, <1>6, <1>8
  <2>2. job'[j].status \notin {"queued", "stranded"} /\ r.pc \notin {"off", "capacity", "usage", "fail"}
    BY <1>8, <1>9, <1>10
  <2>3. r.pc = "work" => job'[j].status = "running" /\ r.error = "none"
    BY <1>8, <1>9, <1>10
  <2>4. r.pc = "observe" => job'[j].status = IF r.error = "none" THEN "completed" ELSE "running"
    BY <1>8, <1>9, <1>10
  <2> QED
    BY <2>1, <2>2, <2>3, <2>4, <1>8, <1>10 DEF Stage
<1>13. ASSUME NEW o \in owed', o.job = j PROVE Owing(o)'
  <2>1. CASE o \in owed
    <3>1. Owing(o)
      BY <2>1 DEF IInv
    <3>2. o.attempt = job'[j].attempt /\ \E i \in DOMAIN r.seen : r.seen[i].of = o
      BY <3>1, <1>6, <1>8, <1>9, <1>10, <1>13 DEF Owing
    <3> QED
      BY <3>2, <1>8, <1>10, <1>13 DEF Owing
  <2>2. CASE o = Attempt(j)
    <3>1. o.attempt = job[j].attempt
      BY <2>2 DEF Attempt
    <3>2. \E i \in DOMAIN r.seen : r.seen[i].of = o
      BY <2>2, <1>3, <1>6, <1>8
    <3> QED
      BY <3>1, <3>2, <1>8, <1>9, <1>10, <1>13 DEF Owing
  <2> QED
    BY <2>1, <2>2, <1>1
<1>14. \A o \in owed' : o.job # j => o \in owed
  BY <1>1 DEF Attempt
<1> QED
  BY <1>10, <1>11, <1>12, <1>13, <1>14, StepOf

\* A step that only moves the slot of a job, and may say why it ends.
LEMMA SlotMoves ==
  ASSUME ConstantsAreSound, IInv, NEW j \in DOMAIN Jobs, NEW pc \in {"observe", "usage", "fail"},
         NEW e \in {"none", "lost"} \cup Kinds,
         run' = [run EXCEPT ![j].pc = pc, ![j].error = e], job' = job,
         Typed', run[j].pc # "off",
         pc \in {"observe", "usage"} => job[j].status = IF e = "none" THEN "completed" ELSE "running",
         pc = "fail" => job[j].status = "running" /\ e # "none" /\ \A o \in owed' : o.job # j,
         owed' \subseteq owed, run[j].pc \in {"capacity", "work", "observe", "usage"}
  PROVE  IInv'
<1> DEFINE r == [run[j] EXCEPT !.pc = pc, !.error = e]
<1>1. r \in Runs /\ r.pc = pc /\ r.error = e /\ r.call = run[j].call /\ r.seen = run[j].seen
  BY Fields DEF Runs, IInv
<1>2. run'[j] = r /\ \A i \in DOMAIN Jobs : i # j => run'[i] = run[i] /\ job'[i] = job[i]
  BY DEF IInv, Typed
<1> HIDE DEF r
<1>3. Stage(j)'
  <2>1. Stage(j) /\ job[j].status \notin {"queued", "stranded"}
    BY DEF IInv, Stage
  <2> QED
    BY <2>1, <1>1, <1>2 DEF Stage
<1>4. ASSUME NEW o \in owed', o.job = j PROVE Owing(o)'
  <2>1. Owing(o)
    BY <1>4 DEF IInv
  <2>2. pc \in {"observe", "usage"}
    BY <1>4
  <2>3. run'[o.job].pc = pc /\ run'[o.job].seen = run[o.job].seen /\ job'[o.job] = job[o.job]
    BY <1>1, <1>2, <1>4
  <2> QED
    BY <2>1, <2>2, <2>3 DEF Owing
<1> QED
  BY <1>2, <1>3, <1>4, StepOf

LEMMA HeartbeatKeeps ==
  ASSUME ConstantsAreSound, IInv, NEW j \in DOMAIN Jobs, _run_with_job_heartbeat(j)
  PROVE  IInv'
<1>1. /\ run[j].pc \in {"capacity", "work"} /\ run' = [run EXCEPT ![j].pc = "observe", ![j].error = "lost"]
      /\ job' = job /\ batch' = batch /\ rate' = rate /\ owed' = owed
  BY DEF _run_with_job_heartbeat
<1>2. job[j].status = "running"
  BY <1>1 DEF IInv, Stage
<1>3. faults' \in 0 .. MaxFaults
  BY DEF _run_with_job_heartbeat, IInv, Typed, ConstantsAreSound
<1>4. run' \in [DOMAIN Jobs -> Runs]
  <2> DEFINE r == [run[j] EXCEPT !.pc = "observe", !.error = "lost"]
  <2>1. r \in Runs
    BY Fields DEF Runs, IInv
  <2>2. run' = [run EXCEPT ![j] = r]
    BY <1>1 DEF IInv, Typed
  <2> HIDE DEF r
  <2> QED
    BY <2>1, <2>2 DEF IInv, Typed
<1>5. Typed'
  BY <1>1, <1>3, <1>4 DEF IInv, Typed
<1> QED
  BY <1>1, <1>2, <1>5, SlotMoves

-----------------------------------------------------------------------------
(* The end of a job.                                                       *)

LEMMA ObserveKeeps ==
  ASSUME ConstantsAreSound, IInv, NEW j \in DOMAIN Jobs, observe_job_provider_limits(j)
  PROVE  IInv'
<1> DEFINE h == _latest_observed_headers(j)
           seen == run[j].seen
           with == {i \in DOMAIN seen : seen[i].headers # NoHeaders}
           latest == {i \in with : \A k \in with : k <= i}
           limit == IF h.limit = 0 THEN rate.limit ELSE h.limit
<1>1. /\ run[j].pc = "observe" /\ run' = [run EXCEPT ![j].pc = "usage"]
      /\ job' = job /\ batch' = batch /\ owed' = owed /\ faults' = faults
  BY DEF observe_job_provider_limits
<1>2. h \in HeaderRows
  <2>1. CASE latest = {}
    <3>1. h = NoHeaders
      BY <2>1 DEF _latest_observed_headers
    <3> QED
      BY <3>1 DEF NoHeaders, HeaderRows
  <2>2. CASE latest # {}
    <3>1. (CHOOSE i \in latest : TRUE) \in latest
      BY <2>2
    <3>2. \A i \in DOMAIN seen : seen[i] \in Seen
      BY Fields, LenProperties DEF IInv
    <3>3. h = seen[CHOOSE i \in latest : TRUE].headers
      BY <2>2 DEF _latest_observed_headers
    <3>4. \A x \in Seen : x.headers \in HeaderRows
      BY DEF Seen
    <3> QED
      BY <3>1, <3>2, <3>3, <3>4
  <2> QED
    BY <2>1, <2>2
<1> HIDE DEF h
<1>3. rate' \in [limit : Nat, remaining : Nat, reset : Nat, blocked : Nat] /\ rate'.remaining <= rate'.limit
  <2>1. CASE rate' = rate
    BY <2>1 DEF IInv, Typed
  <2>2. CASE observe_provider_rate_limits(h)
    <3>1. h.limit \in Nat /\ h.remaining \in Nat /\ h.reset \in Nat /\ h.retry \in Nat
      BY <1>2 DEF HeaderRows
    <3>2. limit \in Nat /\ Small(h.remaining, limit) \in Nat /\ Small(h.remaining, limit) <= limit
      BY <3>1, RateFields DEF IInv, Small
    <3>3. rate' = [limit |-> limit, remaining |-> Small(h.remaining, limit), reset |-> h.reset,
                   blocked |-> IF h.retry = 0 THEN rate.blocked ELSE h.retry]
      BY <2>2 DEF observe_provider_rate_limits
    <3> HIDE DEF limit
    <3> QED
      BY <3>1, <3>2, <3>3, RateFields DEF IInv
  <2> QED
    BY <2>1, <2>2 DEF observe_job_provider_limits, h
<1> DEFINE r == [run[j] EXCEPT !.pc = "usage"]
<1>4. r \in Runs /\ [run[j] EXCEPT !.pc = "usage", !.error = run[j].error] = r
  BY Fields DEF Runs, IInv
<1>5. run' = [run EXCEPT ![j] = r]
  BY <1>1 DEF IInv, Typed
<1>6. run' = [run EXCEPT ![j].pc = "usage", ![j].error = run[j].error]
  BY <1>4, <1>5 DEF IInv, Typed
<1> HIDE DEF r
<1>7. Typed'
  <2>1. run' \in [DOMAIN Jobs -> Runs]
    BY <1>4, <1>5 DEF IInv, Typed
  <2>2. Typed
    BY DEF IInv
  <2> HIDE DEF limit
  <2> QED
    BY <1>1, <1>3, <2>1, <2>2 DEF Typed
<1>8. job[j].status = IF run[j].error = "none" THEN "completed" ELSE "running"
  BY <1>1 DEF IInv, Stage
<1>9. run[j].error \in {"none", "lost"} \cup Kinds
  BY Fields DEF IInv
<1> QED
  BY <1>1, <1>6, <1>7, <1>8, <1>9, SlotMoves

\* A free slot is a slot.
LEMMA LeaveTyped ==
  ASSUME IInv, NEW j \in DOMAIN Jobs, LeaveSlot(j)
  PROVE  batch' \in [Processes -> Batches]
<1>1. \A b \in Batches : b.slot \in [1 .. Concurrency -> Int]
  BY DEF Batches
<1>2. \A b \in Batches, q \in [1 .. Concurrency -> Int] : [b EXCEPT !.slot = q] \in Batches
  BY DEF Batches
<1> DEFINE q(w) == [s \in 1 .. Concurrency |-> IF batch[w].slot[s] = j THEN Free ELSE batch[w].slot[s]]
<1>3. ASSUME NEW w \in Processes PROVE q(w) \in [1 .. Concurrency -> Int]
  <2>1. batch[w].slot \in [1 .. Concurrency -> Int]
    BY <1>1 DEF IInv, Typed
  <2>2. \A s \in 1 .. Concurrency : batch[w].slot[s] \in Int
    BY <2>1
  <2> QED
    BY <2>2 DEF Free
<1>4. UNCHANGED batch \/ batch' = [w \in Processes |-> [batch[w] EXCEPT !.slot = q(w)]]
  BY DEF LeaveSlot
<1> HIDE DEF q
<1>5. \A w \in Processes : batch[w] \in Batches
  BY DEF IInv, Typed
<1>6. \A w \in Processes : [batch[w] EXCEPT !.slot = q(w)] \in Batches
  BY <1>2, <1>3, <1>5
<1>7. CASE UNCHANGED batch
  BY <1>7 DEF IInv, Typed
<1>8. CASE batch' = [w \in Processes |-> [batch[w] EXCEPT !.slot = q(w)]]
  BY <1>6, <1>8
<1> QED
  BY <1>4, <1>7, <1>8

\* When a slot has flushed, nothing of its job is owed.
LEMMA FlushPays ==
  ASSUME IInv, NEW j \in DOMAIN Jobs, flush_job_llm_usage_logs(j)
  PROVE  owed' \subseteq owed /\ \A o \in owed' : o.job # j
<1> DEFINE records == usage_log_records_from_observations(j)
<1>1. \A o \in records : UsageLogRecord(o)
  BY DEF usage_log_records_from_observations, UsageLogRecord, Range, IInv, Stage
<1>2. owed' = owed \ {o.of : o \in records}
  BY <1>1 DEF flush_job_llm_usage_logs, price_and_insert_usage_logs
<1>3. ASSUME NEW o \in owed, o.job = j PROVE o \in {x.of : x \in records}
  <2>1. PICK i \in DOMAIN run[j].seen : run[j].seen[i].of = o
    BY <1>3 DEF IInv, Owing
  <2> QED
    BY <2>1 DEF usage_log_records_from_observations, Range
<1> QED
  BY <1>2, <1>3

LEMMA FlushKeeps ==
  ASSUME ConstantsAreSound, IInv, NEW j \in DOMAIN Jobs, flush_job_llm_usage_logs(j)
  PROVE  IInv'
<1>1. run[j].pc = "usage" /\ Leave(j) /\ job' = job /\ rate' = rate
  BY DEF flush_job_llm_usage_logs
<1>2. owed' \subseteq owed /\ \A o \in owed' : o.job # j
  BY FlushPays
<1>3. faults' \in 0 .. MaxFaults
  BY DEF flush_job_llm_usage_logs, IInv, Typed, ConstantsAreSound
<1>4. Stage(j) /\ job[j].status = IF run[j].error = "none" THEN "completed" ELSE "running"
  BY <1>1 DEF IInv, Stage
<1>5. CASE run[j].error = "none"
  <2>1. run' = [run EXCEPT ![j] = Off] /\ LeaveSlot(j)
    BY <1>1, <1>5 DEF Leave
  <2>2. /\ run' \in [DOMAIN Jobs -> Runs] /\ run'[j] = Off
        /\ \A i \in DOMAIN Jobs : i # j => run'[i] = run[i] /\ job'[i] = job[i]
    BY <2>1, <1>1, AtIsRun DEF IInv, Typed
  <2>3. Typed'
    BY <1>1, <1>2, <1>3, <2>1, <2>2, LeaveTyped DEF IInv, Typed
  <2>4. Stage(j)'
    <3>1. 1 \in 1 .. Jobs[j].turns + 1 /\ \A i \in DOMAIN <<>> : FALSE
      BY DEF ConstantsAreSound
    <3> QED
      BY <3>1, <1>1, <1>4, <1>5, <2>2, AtIsRun DEF Stage
  <2> QED
    BY <1>2, <2>2, <2>3, <2>4, StepOf
<1>6. CASE run[j].error # "none"
  <2> DEFINE r == [run[j] EXCEPT !.pc = "fail"]
  <2>1. run' = [run EXCEPT ![j].pc = "fail"] /\ batch' = batch
    BY <1>1, <1>6 DEF Leave
  <2>2. r \in Runs /\ [run[j] EXCEPT !.pc = "fail", !.error = run[j].error] = r
    BY Fields DEF Runs, IInv
  <2>3. run' = [run EXCEPT ![j] = r]
    BY <2>1 DEF IInv, Typed
  <2>4. run' = [run EXCEPT ![j].pc = "fail", ![j].error = run[j].error]
    BY <2>2, <2>3 DEF IInv, Typed
  <2> HIDE DEF r
  <2>5. Typed'
    BY <1>1, <1>2, <1>3, <2>1, <2>2, <2>3 DEF IInv, Typed
  <2>6. run[j].error \in {"none", "lost"} \cup Kinds
    BY Fields DEF IInv
  <2> QED
    BY <1>1, <1>2, <1>4, <1>6, <2>4, <2>5, <2>6, SlotMoves
<1> QED
  BY <1>5, <1>6

LEMMA FailureKeeps ==
  ASSUME ConstantsAreSound, IInv, NEW j \in DOMAIN Jobs, record_job_failure(j)
  PROVE  IInv'
<1> DEFINE retried == run[j].error = "transient" /\ job[j].attempt < JobAttempts
           st == IF run[j].orphan \/ run[j].error = "lost" THEN "stranded" ELSE IF retried THEN "queued" ELSE "failed"
           row == [job[j] EXCEPT !.status = st]
<1>1. /\ run[j].pc = "fail" /\ job' = [job EXCEPT ![j].status = st] /\ run' = [run EXCEPT ![j] = Off]
      /\ LeaveSlot(j) /\ rate' = rate /\ owed' = owed /\ faults' = faults
  BY DEF record_job_failure
<1>2. st \in {"stranded", "queued", "failed"} /\ (st = "queued" => job[j].attempt < JobAttempts)
  OBVIOUS
<1> HIDE DEF st
<1>3. row \in JobRows /\ row.status = st /\ row.attempt = job[j].attempt
  BY <1>2, Fields DEF JobRows, IInv
<1>4. job' = [job EXCEPT ![j] = row]
  BY <1>1 DEF IInv, Typed
<1> HIDE DEF row
<1>5. /\ run' \in [DOMAIN Jobs -> Runs] /\ job' \in [DOMAIN Jobs -> JobRows]
      /\ run'[j] = Off /\ job'[j] = row
      /\ \A i \in DOMAIN Jobs : i # j => run'[i] = run[i] /\ job'[i] = job[i]
  BY <1>1, <1>3, <1>4, AtIsRun, RowsOf DEF IInv
<1>6. Typed'
  BY <1>1, <1>5, LeaveTyped DEF IInv, Typed
<1>7. Stage(j)'
  <2>1. 1 \in 1 .. Jobs[j].turns + 1 /\ \A i \in DOMAIN <<>> : FALSE
    BY DEF ConstantsAreSound
  <2> QED
    BY <2>1, <1>2, <1>3, <1>5, AtIsRun DEF Stage
<1>8. \A o \in owed' : o.job # j
  BY <1>1 DEF IInv, Owing
<1> QED
  BY <1>1, <1>5, <1>6, <1>7, <1>8, StepOf

LEMMA LapseKeeps ==
  ASSUME ConstantsAreSound, IInv, NEW j \in DOMAIN Jobs, LeaseLapses(j)
  PROVE  IInv'
<1> DEFINE st == IF job[j].attempt < JobAttempts THEN "queued" ELSE "failed"
           row == [job[j] EXCEPT !.status = st]
<1>1. /\ job[j].status = "stranded" /\ job' = [job EXCEPT ![j].status = st]
      /\ run' = run /\ batch' = batch /\ rate' = rate /\ owed' = owed /\ faults' = faults
  BY DEF LeaseLapses
<1>2. st \in {"queued", "failed"} /\ (st = "queued" => job[j].attempt < JobAttempts)
  OBVIOUS
<1> HIDE DEF st
<1>3. row \in JobRows /\ row.status = st /\ row.attempt = job[j].attempt
  BY <1>2, Fields DEF JobRows, IInv
<1>4. job' = [job EXCEPT ![j] = row]
  BY <1>1 DEF IInv, Typed
<1> HIDE DEF row
<1>5. /\ job' \in [DOMAIN Jobs -> JobRows] /\ job'[j] = row
      /\ \A i \in DOMAIN Jobs : i # j => run'[i] = run[i] /\ job'[i] = job[i]
  BY <1>1, <1>3, <1>4 DEF IInv, Typed
<1>6. Typed'
  BY <1>1, <1>5 DEF IInv, Typed
<1>7. run[j].pc = "off" /\ Stage(j)
  BY <1>1 DEF IInv, Stage
<1>8. Stage(j)'
  BY <1>1, <1>2, <1>3, <1>5, <1>7 DEF Stage
<1>9. \A o \in owed' : o.job # j
  BY <1>1, <1>7 DEF IInv, Owing
<1> QED
  BY <1>1, <1>5, <1>6, <1>8, <1>9, StepOf

LEMMA NextInv == ASSUME ConstantsAreSound, IInv, [Next]_vars PROVE IInv'
<1>1. CASE UNCHANGED vars
  <2>1. job' = job /\ batch' = batch /\ run' = run /\ rate' = rate /\ owed' = owed /\ faults' = faults
    BY <1>1 DEF vars
  <2>2. Typed'
    BY <2>1 DEF IInv, Typed
  <2> QED
    BY <2>1, <2>2, StepBeside
<1>2. ASSUME NEW w \in Processes,
             \/ _consume_job_batches(w) \/ run_job_batch(w)
             \/ \E s \in 1 .. Concurrency : claim_next_job(w, s) \/ ClaimRaises(w, s)
      PROVE  IInv'
  BY <1>2, BatchKeeps, ClaimKeeps, RaisesKeeps
<1>3. ASSUME NEW j \in DOMAIN Jobs, SlotStep(j) \/ _run_with_job_heartbeat(j) PROVE IInv'
  BY <1>3, ReserveKeeps, CompleteKeeps, ObserveKeeps, FlushKeeps, FailureKeeps, LapseKeeps, HeartbeatKeeps DEF SlotStep
<1>4. CASE Tick
  BY <1>4, TickKeeps
<1> QED
  BY <1>1, <1>2, <1>3, <1>4 DEF Next

-----------------------------------------------------------------------------
(* The theorems.                                                           *)

\* The rows agree with the slots, and what is owed is in the list of the slot
\* that will store it.
THEOREM WorkersInvariant == Spec => []IInv
<1>1. Init => IInv
  BY InitInv, Sound
<1>2. IInv /\ [Next]_vars => IInv'
  BY NextInv, Sound
<1> QED
  BY <1>1, <1>2, PTL DEF Spec

\* Every row keeps its type: batches keep to their limit, and the provider's row
\* is never below zero nor above its limit, whatever the headers say.
THEOREM WorkerTypes == Spec => []TypeOK
<1>1. IInv => TypeOK
  <2> SUFFICES ASSUME IInv PROVE TypeOK
    OBVIOUS
  <2>1. ASSUME NEW j \in DOMAIN Jobs
        PROVE  /\ job[j].status \in {"queued", "running", "stranded", "completed", "failed"}
               /\ job[j].attempt \in 0 .. JobAttempts
               /\ job[j].status \in {"queued", "stranded"} => run[j].pc = "off"
               /\ run[j].pc = "off" => job[j].status # "running"
               /\ run[j].try \in 1 .. CallAttempts /\ run[j].call \in 1 .. (Jobs[j].turns + 1)
    <3>1. job[j] \in JobRows /\ run[j].try \in 1 .. CallAttempts /\ Stage(j)
      BY Fields DEF IInv
    <3> QED
      BY <3>1 DEF JobRows, Stage
  <2>2. \A w \in Processes : batch[w].claimed <= BatchLimit
    <3>1. \A b \in Batches : b.claimed <= BatchLimit
      BY Sound DEF Batches, ConstantsAreSound
    <3> QED
      BY <3>1 DEF IInv, Typed
  <2>3. rate.remaining \in 0 .. rate.limit
    BY RateFields DEF IInv
  <2>4. \A o \in owed : o.job \in DOMAIN Jobs /\ o.attempt <= job[o.job].attempt
    <3> SUFFICES ASSUME NEW o \in owed PROVE o.job \in DOMAIN Jobs /\ o.attempt <= job[o.job].attempt
      OBVIOUS
    <3>1. o.job \in DOMAIN Jobs /\ o.attempt = job[o.job].attempt
      BY OwedCalls DEF IInv, Owing
    <3>2. job[o.job].attempt \in Nat
      BY <3>1, Fields, Sound DEF IInv, ConstantsAreSound
    <3> QED
      BY <3>1, <3>2
  <2>5. faults \in 0 .. MaxFaults
    BY DEF IInv, Typed
  <2> QED
    BY <2>1, <2>2, <2>3, <2>4, <2>5 DEF TypeOK
<1> QED
  BY <1>1, WorkersInvariant, PTL

\* No job leaves its slot while a call of it has no row in the usage logs.
THEOREM UsageIsAlwaysComplete == Spec => []UsageIsComplete
<1>1. IInv => UsageIsComplete
  <2> SUFFICES ASSUME IInv, NEW o \in owed PROVE run[o.job].pc # "off" /\ job[o.job].attempt = o.attempt
    BY DEF UsageIsComplete
  <2> QED
    BY DEF IInv, Owing
<1> QED
  BY <1>1, WorkersInvariant, PTL
=============================================================================
