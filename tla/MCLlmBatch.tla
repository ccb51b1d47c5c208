----------------------------- MODULE MCLlmBatch -----------------------------
(***************************************************************************)
(* Instances of LlmBatch for TLC.  Processes on one host have one id       *)
(* (workers/main.py: hostname-worker), and so have all that run the cycle  *)
(* with its default worker_id.                                             *)
(***************************************************************************)
EXTENDS LlmBatch, TLC

CONSTANTS report, embedding, b1, b2, b3, p1, p2, host1, host2

\* Both items are in one group, so that a batch can hold two.  A report and an
\* embedding are of different workloads and would not share one; that they
\* may here only adds behaviours.
OneGroup == [i \in Items |-> "chat"]
SameHost == [w \in Workers |-> host1]
OwnHost == [w \in Workers |-> IF w = p1 THEN host1 ELSE host2]

Processes == Permutations(Workers)

\* What the service can see: all but the stray items.  No action, and no
\* property but the type of stray, reads that variable.
Seen == <<item, batch, due, job, provider, worker, effects, abandoned>>

=============================================================================
