----------------------------- MODULE MCJobQueue -----------------------------
(***************************************************************************)
(* Instances of JobQueue for TLC.  Slots with worker ids of their own are  *)
(* the deployment with one slot per process; slots with one common id are  *)
(* a process with concurrency > 1 (workers/main.py gives all slots of a    *)
(* process the id hostname-worker).                                        *)
(***************************************************************************)
EXTENDS JobQueueLog, TLC

CONSTANTS s1, s2, w1, w2, wiki, wiki2, report

OwnWorker == [s \in Slots |-> IF s = s1 THEN w1 ELSE w2]
SharedWorker == [s \in Slots |-> w1]

=============================================================================
