----------------------------- MODULE AttemptLog -----------------------------
(***************************************************************************)
(* What the queue promises about one job, in terms of the two things its   *)
(* users see: the log of its attempts and whether it still needs work.     *)
(* Attempts are opened one after another, at most MaxAttempts of them.  An *)
(* attempt gets exactly one verdict, the next one is opened only when no   *)
(* other is open any more, and the last verdict decides the job.  Leases,  *)
(* owners, clocks and slots do not appear.                                 *)
(***************************************************************************)
EXTENDS Naturals, Sequences

CONSTANT MaxAttempts

VARIABLES
  log,    \* the attempts so far: open, or their verdict
  phase   \* absent, pending, delegated (to the provider) or done

Init == log = <<>> /\ phase = "absent"

HasOpen == log /= <<>> /\ log[Len(log)] = "open"

\* The log with a verdict for the open attempt, if there is one.
Judged(verdict) == IF HasOpen THEN [log EXCEPT ![Len(log)] = verdict] ELSE log

Submit == phase = "absent" /\ phase' = "pending" /\ UNCHANGED log

\* A new attempt; one that was abandoned is timed out first.
Begin ==
  /\ phase = "pending"
  /\ Len(log) < MaxAttempts
  /\ log' = Append(Judged("timed_out"), "open")
  /\ UNCHANGED phase

Succeed ==
  /\ phase = "pending" /\ HasOpen
  /\ log' = Judged("completed")
  /\ phase' \in {"done", "delegated"}

\* A failed attempt leaves the job pending only when it may be repeated.
Fail ==
  /\ phase = "pending" /\ HasOpen
  /\ log' = Judged("failed")
  /\ phase' \in (IF Len(log) < MaxAttempts THEN {"pending", "done"} ELSE {"done"})

\* The last attempt was abandoned.
GiveUp ==
  /\ phase = "pending" /\ HasOpen /\ Len(log) = MaxAttempts
  /\ log' = Judged("timed_out")
  /\ phase' = "done"

Withdraw ==
  /\ phase = "pending"
  /\ log' = Judged("failed")
  /\ phase' = "done"

Deliver == phase = "delegated" /\ phase' = "done" /\ UNCHANGED log

Next == Submit \/ Begin \/ Succeed \/ Fail \/ GiveUp \/ Withdraw \/ Deliver

Spec == Init /\ [][Next]_<<log, phase>>

=============================================================================
