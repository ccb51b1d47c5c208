----------------------------- MODULE JobQueueLog -----------------------------
(***************************************************************************)
(* JobQueue implements AttemptLog, job by job, when no two slots share a   *)
(* worker id.                                                              *)
(***************************************************************************)
EXTENDS JobQueue, Sequences

\* The attempt rows of a job in the order of their numbers.
LogOf(j) ==
  [n \in 1 .. job[j].attempts |-> IF att[j][n] = "running" THEN "open" ELSE att[j][n]]

PhaseOf(j) ==
  CASE job[j].status = "absent"                    -> "absent"
    [] job[j].status \in {"queued", "running"}     -> "pending"
    [] job[j].status = "waiting_provider"          -> "delegated"
    [] OTHER                                       -> "done"

Log(j) == INSTANCE AttemptLog WITH log <- LogOf(j), phase <- PhaseOf(j)

\* Every job's row and attempt rows behave like an attempt log: whatever
\* leases expire, workers crash and heartbeats fail, no attempt is judged
\* twice, opened beside another or opened after the job was decided.
\* This is \A j \in Jobs : Log(j)!Spec, in the form TLC checks.
ImplementsAttemptLog ==
  /\ \A j \in Jobs : Log(j)!Init
  /\ [][\A j \in Jobs : Log(j)!Next \/ UNCHANGED <<LogOf(j), PhaseOf(j)>>]_vars

=============================================================================
