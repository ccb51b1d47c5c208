-------------------------- MODULE PublishSnapshots --------------------------
(***************************************************************************)
(* Delivery of finished reports to the service: the rows of                *)
(* agent.publish_snapshots and agent.publish_attempts as                   *)
(* infrastructure/persistence/postgres_publish_snapshots.py reads and      *)
(* writes them, and the insert of a new version by the report generator.   *)
(*                                                                         *)
(* Every action is one transaction: the statements lock the rows they      *)
(* decide on.  The service worker that calls claim and ACK over HTTP is    *)
(* outside the repository; it may send any verdict on what it holds, twice *)
(* or late.  A rejected request changes nothing and is no action.          *)
(*                                                                         *)
(* Leases are compared with the clock of the API process that serves the   *)
(* request, so for a while one process may take a lease for expired that   *)
(* another still accepts: a lease is live, then doubtful, then over.       *)
(***************************************************************************)
EXTENDS Integers, FiniteSets

CONSTANTS
  Contents,     \* content ids, one per report job
  MaxVersion,   \* bound: versions of one content
  Workers,      \* worker_id of the service workers
  None,         \* SQL NULL
  MaxAttempts,  \* MAX_PUBLISH_ATTEMPTS
  MaxBatches,   \* bound: claims
  MaxLapses,    \* bound: batches whose lease runs out
  MaxDirect     \* bound: single ACKs of one snapshot

ASSUME NoneAssumption == None \notin Workers
ASSUME BoundsAssumption == MaxAttempts \in Nat \ {0} /\ MaxVersion \in Nat
ASSUME BatchesAssumption == MaxBatches \in Nat /\ MaxLapses \in Nat /\ MaxDirect \in Nat

VARIABLES
  snap,     \* publish_snapshots: status, claim_id, attempt_count, whether
            \* next_attempt_at is still to come
  att,      \* publish_attempts of a claim, by snapshot: the stored verdict
  numbers,  \* the attempt_number values of a snapshot's publish_attempts
  owner,    \* claimed_by of the attempts of a claim
  lease     \* lease_expires_at of the attempts of a claim

vars == <<snap, att, numbers, owner, lease>>

Versions == 1 .. MaxVersion
Snapshots == Contents \X Versions
Batches == 1 .. MaxBatches
PublishStatus == {"published", "failed"}
Verdicts == {"published", "retryable", "fatal"}
AttemptStatus == {"none", "requested", "retry"} \cup PublishStatus
SnapshotRow == [status : {"absent", "ready", "claimed"} \cup PublishStatus,
                claim : Batches \cup {0}, attempts : Nat, backoff : BOOLEAN]

NewSnapshot == [status |-> "absent", claim |-> 0, attempts |-> 0, backoff |-> FALSE]

Init ==
  /\ snap = [s \in Snapshots |-> NewSnapshot]
  /\ att = [k \in Batches |-> [s \in Snapshots |-> "none"]]
  /\ numbers = [s \in Snapshots |-> {}]
  /\ owner = [k \in Batches |-> None]
  /\ lease = [k \in Batches |-> "live"]

----------------------------------------------------------------------------
(* The generator stores a version. *)

Latest(s) ==
  /\ snap[s].status # "absent"
  /\ \A v \in Versions : v > s[2] => snap[<<s[1], v>>].status = "absent"

NextVersion(s) == \A v \in Versions : snap[<<s[1], v>>].status = "absent" <=> v >= s[2]

\* A report job that runs again stores one version more; the older one stays.
Save(s) ==
  /\ NextVersion(s)
  /\ snap' = [snap EXCEPT ![s].status = "ready"]
  /\ UNCHANGED <<att, numbers, owner, lease>>

BackoffOver(s) ==
  /\ snap[s].backoff
  /\ snap' = [snap EXCEPT ![s].backoff = FALSE]
  /\ UNCHANGED <<att, numbers, owner, lease>>

----------------------------------------------------------------------------
(* Claiming a batch. *)

\* Mutant: a failed snapshot is offered again.
Claimable_Mutant(s) ==
  \/ snap[s].status \in {"ready", "failed"} /\ ~snap[s].backoff
  \/ snap[s].status = "claimed" /\ lease[snap[s].claim] # "live"

\* Mutant: the lease is not compared with the clock.
Claimable_NoLease_Mutant(s) ==
  \/ snap[s].status = "ready" /\ ~snap[s].backoff
  \/ snap[s].status = "claimed"

\* Mutant: a claim is never taken over.
Claimable_ReadyOnly_Mutant(s) == snap[s].status = "ready" /\ ~snap[s].backoff

Claimable(s) ==
  \/ snap[s].status = "ready" /\ ~snap[s].backoff
  \/ snap[s].status = "claimed" /\ lease[snap[s].claim] # "live"

Fresh(k) == owner[k] = None /\ \A j \in 1 .. (k - 1) : owner[j] # None

ClaimedRow(row, k) ==
  [row EXCEPT !.status = "claimed", !.claim = k, !.attempts = @ + 1, !.backoff = FALSE]

\* Locked rows are skipped, so a claim may return any of the eligible ones.
Claim(k, w, S) ==
  /\ Fresh(k)
  /\ S # {} /\ \A s \in S : Claimable(s)
  /\ snap' = [s \in Snapshots |-> IF s \in S THEN ClaimedRow(snap[s], k) ELSE snap[s]]
  /\ att' = [att EXCEPT ![k] = [s \in Snapshots |-> IF s \in S THEN "requested" ELSE "none"]]
  /\ numbers' = [s \in Snapshots |->
                   IF s \in S THEN numbers[s] \cup {snap[s].attempts + 1} ELSE numbers[s]]
  /\ owner' = [owner EXCEPT ![k] = w]
  /\ UNCHANGED lease

Lapses == Cardinality({k \in Batches : lease[k] # "live"})

LeaseDoubtful(k) ==
  /\ owner[k] # None /\ lease[k] = "live" /\ Lapses < MaxLapses
  /\ lease' = [lease EXCEPT ![k] = "doubtful"]
  /\ UNCHANGED <<snap, att, numbers, owner>>

LeaseOver(k) ==
  /\ lease[k] = "doubtful"
  /\ lease' = [lease EXCEPT ![k] = "over"]
  /\ UNCHANGED <<snap, att, numbers, owner>>

----------------------------------------------------------------------------
(* The partial ACK of a batch: verdict maps some of its items to Verdicts. *)

Stored(k, s) == att[k][s] \in PublishStatus \cup {"retry"}

\* A stored verdict may be repeated, never contradicted.
Agrees(k, verdict) ==
  \A s \in DOMAIN verdict :
    /\ att[k][s] # "none"
    /\ Stored(k, s) => (verdict[s] = "published" <=> att[k][s] = "published")

AllStored(k, verdict) == \A s \in DOMAIN verdict : Stored(k, s)

\* Mutant: an ACK only compares the attempt, not the snapshot.
StillHeld_Mutant(k, s) == att[k][s] = "requested"

StillHeld(k, s) == snap[s].claim = k /\ snap[s].status = "claimed"

\* One item that is no longer held rejects the whole ACK.
Answered(k, w, verdict) ==
  /\ owner[k] = w
  /\ Agrees(k, verdict)
  /\ \/ AllStored(k, verdict)
     \/ /\ lease[k] # "over"
        /\ \A s \in DOMAIN verdict : Stored(k, s) \/ StillHeld(k, s)

\* Mutant: the last attempt is retried too.
CanRetry_Mutant(s, v) == v = "retryable" /\ snap[s].attempts <= MaxAttempts

CanRetry(s, v) == v = "retryable" /\ snap[s].attempts < MaxAttempts

Result(s, v) ==
  CASE v = "published"   -> "published"
    [] CanRetry(s, v)    -> "retry"
    [] OTHER             -> "failed"

\* A retry puts the snapshot back behind next_attempt_at.
AckedRow(row, result) ==
  [row EXCEPT !.status = IF result = "retry" THEN "ready" ELSE result,
              !.claim = 0, !.backoff = (result = "retry")]

AckBatch(k, w, verdict) ==
  LET new == {s \in DOMAIN verdict : ~Stored(k, s)}
  IN /\ owner[k] # None
     /\ Answered(k, w, verdict) /\ new # {}
     /\ snap' = [s \in Snapshots |->
                   IF s \in new THEN AckedRow(snap[s], Result(s, verdict[s])) ELSE snap[s]]
     /\ att' = [att EXCEPT ![k] = [s \in Snapshots |->
                   IF s \in new THEN Result(s, verdict[s]) ELSE att[k][s]]]
     /\ UNCHANGED <<numbers, owner, lease>>

----------------------------------------------------------------------------
(* The single ACK, kept for manual repair: latest version, any status. *)

\* Mutant: the highest number, without adding one.
NextNumber_Mutant(s) == CHOOSE n \in 0 .. (MaxBatches + MaxDirect) :
                          n \in numbers[s] \cup {0} /\ \A m \in numbers[s] : m <= n

NextNumber(s) == CHOOSE n \in 1 .. (MaxBatches + MaxDirect + 1) :
                   n - 1 \in numbers[s] \cup {0} /\ \A m \in numbers[s] : m < n

\* The attempts no claim made.
Direct(s) == Cardinality(numbers[s]) - snap[s].attempts

Acknowledge(s, status) ==
  /\ Latest(s) /\ Direct(s) < MaxDirect
  /\ snap' = [snap EXCEPT ![s].status = status, ![s].claim = 0, ![s].backoff = FALSE]
  /\ numbers' = [numbers EXCEPT ![s] = @ \cup {NextNumber(s)}]
  /\ UNCHANGED <<att, owner, lease>>

----------------------------------------------------------------------------

Acks(k) == UNION {[T -> Verdicts] : T \in SUBSET {s \in Snapshots : att[k][s] # "none"}}

ClaimsItem(s) == \E k \in Batches, w \in Workers, S \in SUBSET Snapshots :
                   s \in S /\ Claim(k, w, S)
AcksItem(k, s) == \E w \in Workers, verdict \in [{s} -> Verdicts] : AckBatch(k, w, verdict)

Next ==
  \/ \E s \in Snapshots : Save(s) \/ BackoffOver(s)
  \/ \E k \in Batches, w \in Workers, S \in SUBSET Snapshots : Claim(k, w, S)
  \/ \E k \in Batches : LeaseDoubtful(k) \/ LeaseOver(k)
  \/ \E k \in Batches, w \in Workers : \E verdict \in Acks(k) : AckBatch(k, w, verdict)
  \/ \E s \in Snapshots, status \in PublishStatus : Acknowledge(s, status)

Spec == Init /\ [][Next]_vars

\* The service worker's loop polls for batches and ACKs each item it could
\* handle while the lease lasts; leases lapse without fairness.
Fairness ==
  \A s \in Snapshots :
    /\ WF_vars(BackoffOver(s))
    /\ WF_vars(ClaimsItem(s))
    /\ \A k \in Batches : WF_vars(AcksItem(k, s))

FairSpec == Spec /\ Fairness

----------------------------------------------------------------------------
(* Properties *)

\* Every variable has its type.
TypeOK ==
  /\ snap \in [Snapshots -> SnapshotRow]
  /\ att \in [Batches -> [Snapshots -> AttemptStatus]]
  /\ numbers \in [Snapshots -> SUBSET (Nat \ {0})]
  /\ owner \in [Batches -> Workers \cup {None}]
  /\ lease \in [Batches -> {"live", "doubtful", "over"}]

\* A claim numbers its attempt by attempt_count, a single ACK by the highest
\* number plus one; the unique index on (snapshot, number) would reject a
\* claim whose number is taken, and with it the whole batch, at every poll.
ClaimNumberIsFree ==
  \A s \in Snapshots : Claimable(s) => snap[s].attempts + 1 \notin numbers[s]

\* A claimed snapshot has one open attempt in the claim that holds it, and no
\* other batch whose lease is beyond doubt holds an open attempt on it.
ClaimIsExclusive ==
  \A s \in Snapshots : snap[s].status = "claimed" =>
    \A k \in Batches :
      /\ k = snap[s].claim => att[k][s] = "requested"
      /\ k # snap[s].claim /\ lease[k] = "live" => att[k][s] # "requested"

\* A snapshot waiting for another try has one left: a failure on the last
\* attempt is final, so the worker never starts an attempt beyond the limit
\* because of a retry.
RetryHasAttemptLeft ==
  \A s \in Snapshots : snap[s].status = "ready" => snap[s].attempts < MaxAttempts

\* What a claim relies on: its number, its snapshots, and an attempt that is left
\* (postgres_publish_snapshots.py).
ClaimsAreSound ==
  /\ ClaimNumberIsFree
  /\ ClaimIsExclusive
  /\ RetryHasAttemptLeft

\* What the API confirmed to a worker stays so: a snapshot with an attempt
\* stored as published is published, whatever slower workers report later,
\* unless it was acknowledged by hand.
ConfirmedStaysPublished ==
  \A s \in Snapshots, k \in Batches :
    att[k][s] = "published" => snap[s].status = "published" \/ Direct(s) > 0

\* No batch reopens or overrules a snapshot that is published or failed; only
\* the single ACK does.
OnlyDirectAckOverrules ==
  \A s \in Snapshots :
    snap[s].status \in PublishStatus /\ snap'[s] # snap[s]
      => \E status \in PublishStatus : Acknowledge(s, status)

\* A verdict on a snapshot stands against late and duplicate reports of batches.
VerdictsStand == [][ConfirmedStaysPublished' /\ OnlyDirectAckOverrules]_vars

\* With a worker that keeps polling, every stored snapshot is published or
\* given up, through lapsed leases, retries and lost races.
SnapshotSettles ==
  \A s \in Snapshots : snap[s].status = "ready" ~> snap[s].status \in PublishStatus
=============================================================================
