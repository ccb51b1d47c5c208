----------------------- MODULE PublishSnapshotsProofs -----------------------
(***************************************************************************)
(* Proofs about PublishSnapshots, for any number of contents, versions,    *)
(* service workers and batches.  The properties checked by TLC are not     *)
(* inductive; Inv adds what the statements rely on without saying it: a    *)
(* claim id is used once, attempt numbers have no gap, and an open attempt *)
(* whose lease is beyond doubt belongs to the batch that holds the row.    *)
(* Proofs about Report, whose last step makes the snapshots, for any jobs, *)
(* topics, documents and attempts: what a report cites has one document    *)
(* per reference, every topic is collected for once, and the versions that *)
(* are stored are told apart.  They assume ReportsAreSound, which          *)
(* MCReports checks of the constants of its run.                           *)
(***************************************************************************)
EXTENDS PublishSnapshots, Report, SequenceTheorems, FiniteSetTheorems, TLAPS

Undecided(s) == snap[s].status \notin PublishStatus

\* A claim id nobody took names no attempt and no snapshot.
UnusedIsEmpty ==
  \A k \in Batches : owner[k] = None =>
    lease[k] = "live" /\ \A s \in Snapshots : att[k][s] = "none" /\ snap[s].claim # k

\* Claim ids are taken in order, so a snapshot has at most as many attempts.
AttemptsAreClaims ==
  \A s \in Snapshots :
    /\ snap[s].attempts <= MaxBatches
    /\ \A k \in Batches : owner[k] = None => snap[s].attempts < k

\* Attempt numbers have no gap; only single ACKs go beyond attempt_count, and
\* they leave the snapshot decided.
NumbersInOrder ==
  \A s \in Snapshots : \E n \in Nat :
    /\ numbers[s] = 1 .. n /\ snap[s].attempts <= n
    /\ Undecided(s) => n = snap[s].attempts

\* The batch that holds a snapshot has its attempt open.
HeldIsOpen ==
  \A s \in Snapshots : snap[s].status = "claimed" =>
    snap[s].claim \in Batches /\ att[snap[s].claim][s] = "requested"

\* An open attempt with a live lease on an undecided snapshot holds it.
OpenIsHeld ==
  \A s \in Snapshots, k \in Batches :
    Undecided(s) /\ att[k][s] = "requested" /\ lease[k] = "live"
      => snap[s].status = "claimed" /\ snap[s].claim = k

\* A published attempt left its mark: the status, or the number of a single ACK.
Confirmed ==
  \A s \in Snapshots, k \in Batches :
    att[k][s] = "published"
      => snap[s].status = "published" \/ snap[s].attempts + 1 \in numbers[s]

RowShape ==
  \A s \in Snapshots :
    /\ snap[s].backoff => snap[s].status = "ready"
    /\ snap[s].status = "absent" => snap[s].attempts = 0

Inv ==
  /\ TypeOK /\ UnusedIsEmpty /\ AttemptsAreClaims /\ NumbersInOrder
  /\ HeldIsOpen /\ OpenIsHeld /\ Confirmed /\ RowShape /\ RetryHasAttemptLeft

----------------------------------------------------------------------------

\* The number after n extends the numbers up to n.
LEMMA NextInInterval ==
  ASSUME NEW n \in Nat
  PROVE  (1 .. n) \cup {n + 1} = 1 .. (n + 1)
OBVIOUS

\* What a claim writes into a row.
LEMMA ClaimedRowFields ==
  ASSUME NEW row \in SnapshotRow, NEW k \in Batches
  PROVE  /\ ClaimedRow(row, k) \in SnapshotRow
         /\ ClaimedRow(row, k).status = "claimed" /\ ClaimedRow(row, k).claim = k
         /\ ClaimedRow(row, k).attempts = row.attempts + 1
         /\ ClaimedRow(row, k).backoff = FALSE
<1>1. row.attempts + 1 \in Nat /\ k \in Batches \cup {0}
  BY SMT DEF SnapshotRow
<1>2. ClaimedRow(row, k) \in SnapshotRow
  BY <1>1, Zenon DEF SnapshotRow, ClaimedRow
<1> QED
  BY <1>2, SMT DEF SnapshotRow, ClaimedRow

\* What a stored verdict writes into a row.
LEMMA AckedRowFields ==
  ASSUME NEW row \in SnapshotRow, NEW result \in PublishStatus \cup {"retry"}
  PROVE  /\ AckedRow(row, result) \in SnapshotRow
         /\ AckedRow(row, result).status = IF result = "retry" THEN "ready" ELSE result
         /\ AckedRow(row, result).attempts = row.attempts /\ AckedRow(row, result).claim = 0
         /\ AckedRow(row, result).backoff = (result = "retry")
<1>1. /\ (IF result = "retry" THEN "ready" ELSE result)
           \in {"absent", "ready", "claimed"} \cup PublishStatus
      /\ (result = "retry") \in BOOLEAN /\ 0 \in Batches \cup {0}
  BY DEF PublishStatus
<1>2. AckedRow(row, result) \in SnapshotRow
  BY <1>1, Zenon DEF SnapshotRow, AckedRow
<1> QED
  BY <1>2, Zenon DEF SnapshotRow, AckedRow

\* The initial tables satisfy the invariant.
LEMMA InitInv == Init => Inv
<1> SUFFICES ASSUME Init PROVE Inv
  OBVIOUS
<1> USE NoneAssumption, BoundsAssumption, BatchesAssumption
<1>1. TypeOK
  BY DEF Init, TypeOK, NewSnapshot, SnapshotRow, AttemptStatus
<1>2. UnusedIsEmpty
  BY DEF Init, UnusedIsEmpty, NewSnapshot, Batches
<1>3. AttemptsAreClaims
  BY DEF Init, AttemptsAreClaims, NewSnapshot, Batches
<1>4. NumbersInOrder
  <2> SUFFICES ASSUME NEW s \in Snapshots
               PROVE  \E n \in Nat :
                        /\ numbers[s] = 1 .. n /\ snap[s].attempts <= n
                        /\ Undecided(s) => n = snap[s].attempts
    BY DEF NumbersInOrder
  <2>1. numbers[s] = 1 .. 0 /\ snap[s].attempts = 0
    BY DEF Init, NewSnapshot
  <2> WITNESS 0 \in Nat
  <2> QED
    BY <2>1
<1>5. HeldIsOpen /\ OpenIsHeld /\ Confirmed /\ RowShape /\ RetryHasAttemptLeft
  BY DEF Init, HeldIsOpen, OpenIsHeld, Confirmed, RowShape, RetryHasAttemptLeft, NewSnapshot
<1> QED
  BY <1>1, <1>2, <1>3, <1>4, <1>5 DEF Inv

\* Storing a version: an absent row becomes ready, with no attempt yet.
LEMMA SaveInv ==
  ASSUME Inv, NEW t \in Snapshots, Save(t)
  PROVE  Inv'
<1> USE NoneAssumption, BoundsAssumption, BatchesAssumption
<1>0. TypeOK
  BY DEF Inv
<1>1. snap[t].status = "absent"
  <2>1. t = <<t[1], t[2]>> /\ t[2] \in Versions /\ t[2] >= t[2]
    BY DEF Snapshots, Versions
  <2>2. snap[<<t[1], t[2]>>].status = "absent"
    BY <2>1 DEF Save, NextVersion
  <2> QED
    BY <2>1, <2>2
<1>2. /\ snap'[t].status = "ready" /\ snap'[t].claim = snap[t].claim
      /\ snap'[t].attempts = snap[t].attempts /\ snap'[t].backoff = snap[t].backoff
  BY <1>0 DEF Save, TypeOK, SnapshotRow
<1>3. \A s \in Snapshots \ {t} : snap'[s] = snap[s]
  BY <1>0 DEF Save, TypeOK
<1>4. UNCHANGED <<att, numbers, owner, lease>>
  BY DEF Save
<1>5. TypeOK'
  BY <1>0 DEF Save, TypeOK, SnapshotRow
<1>6. UnusedIsEmpty' /\ AttemptsAreClaims'
  BY <1>2, <1>3, <1>4 DEF Inv, UnusedIsEmpty, AttemptsAreClaims
<1>7. NumbersInOrder'
  BY <1>1, <1>2, <1>3, <1>4 DEF Inv, NumbersInOrder, Undecided, PublishStatus
<1>8. HeldIsOpen' /\ OpenIsHeld' /\ Confirmed'
  BY <1>1, <1>2, <1>3, <1>4
  DEF Inv, HeldIsOpen, OpenIsHeld, Confirmed, Undecided, PublishStatus
<1>9. RowShape' /\ RetryHasAttemptLeft'
  BY <1>1, <1>2, <1>3 DEF Inv, RowShape, RetryHasAttemptLeft
<1> QED
  BY <1>5, <1>6, <1>7, <1>8, <1>9 DEF Inv

\* next_attempt_at passes.
LEMMA BackoffOverInv ==
  ASSUME Inv, NEW t \in Snapshots, BackoffOver(t)
  PROVE  Inv'
<1>0. TypeOK
  BY DEF Inv
<1>2. /\ snap'[t].status = snap[t].status /\ snap'[t].claim = snap[t].claim
      /\ snap'[t].attempts = snap[t].attempts /\ snap'[t].backoff = FALSE
  BY <1>0 DEF BackoffOver, TypeOK, SnapshotRow
<1>3. \A s \in Snapshots \ {t} : snap'[s] = snap[s]
  BY <1>0 DEF BackoffOver, TypeOK
<1>4. UNCHANGED <<att, numbers, owner, lease>>
  BY DEF BackoffOver
<1>5. TypeOK'
  BY <1>0 DEF BackoffOver, TypeOK, SnapshotRow
<1>6. UnusedIsEmpty' /\ AttemptsAreClaims' /\ NumbersInOrder'
  BY <1>2, <1>3, <1>4 DEF Inv, UnusedIsEmpty, AttemptsAreClaims, NumbersInOrder, Undecided
<1>8. HeldIsOpen' /\ OpenIsHeld' /\ Confirmed'
  BY <1>2, <1>3, <1>4 DEF Inv, HeldIsOpen, OpenIsHeld, Confirmed, Undecided
<1>9. RowShape' /\ RetryHasAttemptLeft'
  BY <1>2, <1>3 DEF Inv, RowShape, RetryHasAttemptLeft
<1> QED
  BY <1>5, <1>6, <1>8, <1>9 DEF Inv

\* Time takes a lease from live to doubtful to over.
LEMMA LeaseInv ==
  ASSUME Inv, NEW k \in Batches, LeaseDoubtful(k) \/ LeaseOver(k)
  PROVE  Inv'
<1>1. /\ UNCHANGED <<snap, att, numbers, owner>>
      /\ \A j \in Batches : lease'[j] = "live" => lease[j] = "live"
      /\ \A j \in Batches : owner[j] = None => lease'[j] = lease[j]
  BY DEF LeaseDoubtful, LeaseOver, Inv, TypeOK, UnusedIsEmpty
<1>2. lease' \in [Batches -> {"live", "doubtful", "over"}]
  BY DEF LeaseDoubtful, LeaseOver, Inv, TypeOK
<1>3. TypeOK' /\ UnusedIsEmpty' /\ AttemptsAreClaims' /\ NumbersInOrder'
  BY <1>1, <1>2
  DEF Inv, TypeOK, UnusedIsEmpty, AttemptsAreClaims, NumbersInOrder, Undecided
<1>4. HeldIsOpen' /\ OpenIsHeld' /\ Confirmed' /\ RowShape' /\ RetryHasAttemptLeft'
  BY <1>1 DEF Inv, HeldIsOpen, OpenIsHeld, Confirmed, Undecided, RowShape, RetryHasAttemptLeft
<1> QED
  BY <1>3, <1>4 DEF Inv

\* A claim takes ready snapshots and those whose lease is not live, under an
\* id and attempt numbers nobody used.
LEMMA ClaimInv ==
  ASSUME Inv, NEW k \in Batches, NEW w \in Workers, NEW S \in SUBSET Snapshots,
         Claim(k, w, S)
  PROVE  Inv'
<1> USE NoneAssumption, BoundsAssumption, BatchesAssumption
<1>0. TypeOK
  BY DEF Inv
<1>1. /\ \A s \in S : /\ snap'[s].status = "claimed" /\ snap'[s].claim = k
                       /\ snap'[s].attempts = snap[s].attempts + 1
                       /\ snap'[s].backoff = FALSE
      /\ \A s \in Snapshots \ S : snap'[s] = snap[s]
  <2>1. /\ \A s \in S : snap'[s] = ClaimedRow(snap[s], k) /\ snap[s] \in SnapshotRow
        /\ \A s \in Snapshots \ S : snap'[s] = snap[s]
    BY <1>0 DEF Claim, TypeOK
  <2>2. ASSUME NEW s \in S
        PROVE  /\ snap'[s].status = "claimed" /\ snap'[s].claim = k
               /\ snap'[s].attempts = snap[s].attempts + 1 /\ snap'[s].backoff = FALSE
    <3> DEFINE row == snap[s]
    <3>1. row \in SnapshotRow /\ snap'[s] = ClaimedRow(row, k)
      BY <2>1
    <3> HIDE DEF row
    <3>2. /\ ClaimedRow(row, k).status = "claimed" /\ ClaimedRow(row, k).claim = k
          /\ ClaimedRow(row, k).attempts = row.attempts + 1
          /\ ClaimedRow(row, k).backoff = FALSE
      BY <3>1, ClaimedRowFields, Zenon
    <3> QED
      BY <3>1, <3>2 DEF row
  <2> QED
    BY <2>1, <2>2
<1>2. /\ \A s \in S : att'[k][s] = "requested"
      /\ \A s \in Snapshots \ S : att'[k][s] = "none"
      /\ \A j \in Batches \ {k} : att'[j] = att[j]
  BY <1>0 DEF Claim, TypeOK
<1>3. /\ \A s \in S : numbers'[s] = numbers[s] \cup {snap[s].attempts + 1}
      /\ \A s \in Snapshots \ S : numbers'[s] = numbers[s]
  BY DEF Claim
<1>4. /\ owner[k] = None /\ owner'[k] = w /\ w # None
      /\ \A j \in Batches \ {k} : owner'[j] = owner[j]
      /\ \A j \in Batches : owner'[j] = None => owner[j] = None /\ j > k
      /\ lease' = lease
  BY <1>0 DEF Claim, Fresh, TypeOK, Batches
<1>5. /\ \A s \in S : snap[s].status = "claimed" => lease[snap[s].claim] # "live"
      /\ \A s \in S : snap[s].status \in {"ready", "claimed"}
  BY DEF Claim, Claimable
<1>6. TypeOK'
  <2>1. \A s \in Snapshots : snap'[s] \in SnapshotRow
    <3> SUFFICES ASSUME NEW s \in S PROVE ClaimedRow(snap[s], k) \in SnapshotRow
      BY <1>0, <1>1 DEF Claim, TypeOK
    <3> QED
      BY <1>0, ClaimedRowFields DEF TypeOK
  <2>2. snap' \in [Snapshots -> SnapshotRow]
    BY <2>1 DEF Claim
  <2>3. att' \in [Batches -> [Snapshots -> AttemptStatus]]
    BY <1>0 DEF Claim, TypeOK, AttemptStatus
  <2>4. numbers' \in [Snapshots -> SUBSET (Nat \ {0})]
    BY <1>0 DEF Claim, TypeOK, SnapshotRow
  <2>5. owner' \in [Batches -> Workers \cup {None}]
    BY <1>0 DEF Claim, TypeOK
  <2> QED
    BY <1>0, <1>4, <2>2, <2>3, <2>4, <2>5 DEF TypeOK
<1>7. UnusedIsEmpty'
  BY <1>1, <1>2, <1>4 DEF Inv, UnusedIsEmpty
<1>8. AttemptsAreClaims'
  <2> SUFFICES ASSUME NEW s \in Snapshots
               PROVE  /\ snap'[s].attempts <= MaxBatches
                      /\ \A j \in Batches : owner'[j] = None => snap'[s].attempts < j
    BY DEF AttemptsAreClaims
  <2>0. snap[s].attempts \in Nat /\ snap[s].attempts < k
    BY <1>0, <1>4 DEF Inv, AttemptsAreClaims, TypeOK, SnapshotRow
  <2>1. CASE s \in S
    BY <1>1, <1>4, <2>0, <2>1 DEF Batches
  <2>2. CASE s \notin S
    BY <1>1, <1>4, <2>2 DEF Inv, AttemptsAreClaims
  <2> QED
    BY <2>1, <2>2
<1>9. NumbersInOrder'
  <2> SUFFICES ASSUME NEW s \in Snapshots
               PROVE  \E n \in Nat :
                        /\ numbers'[s] = 1 .. n /\ snap'[s].attempts <= n
                        /\ snap'[s].status \notin PublishStatus => n = snap'[s].attempts
    BY DEF NumbersInOrder, Undecided
  <2>1. CASE s \in S
    <3>1. numbers[s] = 1 .. snap[s].attempts /\ snap[s].attempts \in Nat
      BY <1>0, <1>5, <2>1
      DEF Inv, NumbersInOrder, Undecided, PublishStatus, TypeOK, SnapshotRow
    <3>2. numbers'[s] = 1 .. (snap[s].attempts + 1)
      BY <1>3, <2>1, <3>1, NextInInterval
    <3>3. snap[s].attempts + 1 \in Nat
      BY <3>1
    <3> USE <3>3
    <3> WITNESS snap[s].attempts + 1 \in Nat
    <3> QED
      BY <1>1, <2>1, <3>1, <3>2
  <2>2. CASE s \notin S
    BY <1>1, <1>3, <2>2 DEF Inv, NumbersInOrder, Undecided
  <2> QED
    BY <2>1, <2>2
<1>10. HeldIsOpen'
  <2> SUFFICES ASSUME NEW s \in Snapshots, snap'[s].status = "claimed"
               PROVE  snap'[s].claim \in Batches /\ att'[snap'[s].claim][s] = "requested"
    BY DEF HeldIsOpen
  <2>1. CASE s \in S
    BY <1>1, <1>2, <2>1
  <2>2. CASE s \notin S
    BY <1>1, <1>2, <1>4, <2>2 DEF Inv, HeldIsOpen, UnusedIsEmpty
  <2> QED
    BY <2>1, <2>2
<1>11. OpenIsHeld'
  <2> SUFFICES ASSUME NEW s \in Snapshots, NEW j \in Batches,
                      snap'[s].status \notin PublishStatus,
                      att'[j][s] = "requested", lease[j] = "live"
               PROVE  snap'[s].status = "claimed" /\ snap'[s].claim = j
    BY <1>4 DEF OpenIsHeld, Undecided
  <2>1. CASE s \in S /\ j = k
    BY <1>1, <2>1
  <2>2. CASE s \in S /\ j # k
    BY <1>2, <1>5, <2>2 DEF Inv, OpenIsHeld, Undecided, PublishStatus
  <2>3. CASE s \notin S /\ j = k
    BY <1>2, <2>3
  <2>4. CASE s \notin S /\ j # k
    BY <1>1, <1>2, <2>4 DEF Inv, OpenIsHeld, Undecided
  <2> QED
    BY <2>1, <2>2, <2>3, <2>4
<1>12. Confirmed'
  <2> SUFFICES ASSUME NEW s \in Snapshots, NEW j \in Batches, att'[j][s] = "published"
               PROVE  snap'[s].status = "published" \/ snap'[s].attempts + 1 \in numbers'[s]
    BY DEF Confirmed
  <2>1. j # k /\ att[j][s] = "published"
    BY <1>2
  <2>2. CASE s \in S
    <3>1. snap[s].attempts + 1 \in numbers[s]
      BY <1>5, <2>1, <2>2 DEF Inv, Confirmed
    <3>2. numbers[s] = 1 .. snap[s].attempts /\ snap[s].attempts \in Nat
      BY <1>0, <1>5, <2>2
      DEF Inv, NumbersInOrder, Undecided, PublishStatus, TypeOK, SnapshotRow
    <3> QED
      BY <3>1, <3>2
  <2>3. CASE s \notin S
    BY <1>1, <1>3, <2>1, <2>3 DEF Inv, Confirmed
  <2> QED
    BY <2>2, <2>3
<1>13. RowShape' /\ RetryHasAttemptLeft'
  BY <1>1 DEF Inv, RowShape, RetryHasAttemptLeft
<1> QED
  BY <1>6, <1>7, <1>8, <1>9, <1>10, <1>11, <1>12, <1>13 DEF Inv

\* Only items the batch still holds get a verdict.
LEMMA AckBatchFacts ==
  ASSUME Inv, NEW k \in Batches, NEW w \in Workers, NEW verdict, AckBatch(k, w, verdict)
  PROVE  \E new \in SUBSET Snapshots :
           /\ \A s \in new :
                /\ snap[s].status = "claimed" /\ snap[s].claim = k
                /\ Result(s, verdict[s]) \in PublishStatus \cup {"retry"}
                /\ Result(s, verdict[s]) = "retry" => snap[s].attempts < MaxAttempts
                /\ snap'[s] = AckedRow(snap[s], Result(s, verdict[s]))
                /\ att'[k][s] = Result(s, verdict[s])
           /\ \A s \in Snapshots \ new : snap'[s] = snap[s] /\ att'[k][s] = att[k][s]
           /\ att' = [att EXCEPT ![k] = att'[k]]
           /\ att'[k] = [s \in Snapshots |-> att'[k][s]]
           /\ snap' = [s \in Snapshots |-> snap'[s]]
           /\ UNCHANGED <<numbers, owner, lease>>
<1> DEFINE new == {s \in Snapshots : s \in DOMAIN verdict /\ ~Stored(k, s)}
<1>0. TypeOK
  BY DEF Inv
<1>1. \A s \in new : snap[s].status = "claimed" /\ snap[s].claim = k
  BY DEF AckBatch, Answered, AllStored, StillHeld
<1>2. \A s \in new : /\ Result(s, verdict[s]) \in PublishStatus \cup {"retry"}
                     /\ Result(s, verdict[s]) = "retry" => snap[s].attempts < MaxAttempts
  BY DEF Result, CanRetry, PublishStatus
<1>3. /\ snap' = [s \in Snapshots |->
                   IF s \in new THEN AckedRow(snap[s], Result(s, verdict[s])) ELSE snap[s]]
      /\ att' = [att EXCEPT ![k] = [s \in Snapshots |->
                   IF s \in new THEN Result(s, verdict[s]) ELSE att[k][s]]]
      /\ UNCHANGED <<numbers, owner, lease>>
  BY DEF AckBatch
<1>4. att'[k] = [s \in Snapshots |->
                   IF s \in new THEN Result(s, verdict[s]) ELSE att[k][s]]
  BY <1>0, <1>3 DEF TypeOK
<1> HIDE DEF new
<1>5. new \in SUBSET Snapshots
  BY DEF new
<1>6. /\ \A s \in new : /\ snap'[s] = AckedRow(snap[s], Result(s, verdict[s]))
                        /\ att'[k][s] = Result(s, verdict[s])
      /\ \A s \in Snapshots \ new : snap'[s] = snap[s] /\ att'[k][s] = att[k][s]
  BY <1>3, <1>4, <1>5
<1>7. /\ snap' = [s \in Snapshots |-> snap'[s]]
      /\ att'[k] = [s \in Snapshots |-> att'[k][s]]
      /\ att' = [att EXCEPT ![k] = att'[k]]
  BY <1>3, <1>4
<1> WITNESS new \in SUBSET Snapshots
<1> QED
  BY <1>1, <1>2, <1>3, <1>6, <1>7

\* A batch ACK: an open item is published, failed or put back for a try it has.
LEMMA AckBatchInv ==
  ASSUME Inv, NEW k \in Batches, NEW w \in Workers, NEW verdict, AckBatch(k, w, verdict)
  PROVE  Inv'
<1> USE NoneAssumption, BoundsAssumption, BatchesAssumption
<1>0. TypeOK /\ owner[k] # None
  BY DEF Inv, AckBatch
<1>a. PICK new \in SUBSET Snapshots :
           /\ \A s \in new :
                /\ snap[s].status = "claimed" /\ snap[s].claim = k
                /\ Result(s, verdict[s]) \in PublishStatus \cup {"retry"}
                /\ Result(s, verdict[s]) = "retry" => snap[s].attempts < MaxAttempts
                /\ snap'[s] = AckedRow(snap[s], Result(s, verdict[s]))
                /\ att'[k][s] = Result(s, verdict[s])
           /\ \A s \in Snapshots \ new : snap'[s] = snap[s] /\ att'[k][s] = att[k][s]
           /\ att' = [att EXCEPT ![k] = att'[k]]
           /\ att'[k] = [s \in Snapshots |-> att'[k][s]]
           /\ snap' = [s \in Snapshots |-> snap'[s]]
           /\ UNCHANGED <<numbers, owner, lease>>
  BY AckBatchFacts
<1>1. ASSUME NEW s \in new
      PROVE  snap'[s] \in SnapshotRow
  <2> DEFINE row == snap[s] result == Result(s, verdict[s])
  <2>1. row \in SnapshotRow /\ result \in PublishStatus \cup {"retry"}
    BY <1>0, <1>a DEF TypeOK
  <2>2. snap'[s] = AckedRow(row, result)
    BY <1>a
  <2> HIDE DEF row, result
  <2> QED
    BY <2>1, <2>2, AckedRowFields, Zenon
<1>2. ASSUME NEW s \in new
      PROVE  /\ snap'[s].attempts = snap[s].attempts
             /\ att'[k][s] \in PublishStatus \cup {"retry"}
             /\ snap'[s].status = IF att'[k][s] = "retry" THEN "ready" ELSE att'[k][s]
             /\ snap'[s].backoff => att'[k][s] = "retry"
             /\ snap'[s].claim = 0
             /\ att'[k][s] = "retry" => snap[s].attempts < MaxAttempts
  <2> DEFINE row == snap[s] result == att'[k][s]
  <2>1. row \in SnapshotRow /\ result \in PublishStatus \cup {"retry"}
    BY <1>0, <1>a DEF TypeOK
  <2>2. snap'[s] = AckedRow(row, result) /\ (result = "retry" => row.attempts < MaxAttempts)
    BY <1>a
  <2> HIDE DEF row, result
  <2>3. /\ AckedRow(row, result).status = IF result = "retry" THEN "ready" ELSE result
        /\ AckedRow(row, result).attempts = row.attempts /\ AckedRow(row, result).claim = 0
        /\ AckedRow(row, result).backoff = (result = "retry")
    BY <2>1, AckedRowFields, Zenon
  <2> QED
    BY <2>1, <2>2, <2>3, Zenon DEF row, result
<1>3. /\ \A s \in Snapshots \ new : snap'[s] = snap[s] /\ att'[k][s] = att[k][s]
      /\ \A j \in Batches \ {k} : att'[j] = att[j]
      /\ UNCHANGED <<numbers, owner, lease>>
      /\ \A s \in new : snap[s].status = "claimed" /\ snap[s].claim = k
  BY <1>0, <1>a DEF TypeOK
<1>4. TypeOK'
  <2>1. snap' \in [Snapshots -> SnapshotRow]
    <3>1. \A s \in Snapshots : snap'[s] \in SnapshotRow
      BY <1>0, <1>1, <1>3 DEF TypeOK
    <3>2. snap' = [s \in Snapshots |-> snap'[s]]
      BY <1>a
    <3> QED
      BY <3>1, <3>2
  <2>2. att'[k] \in [Snapshots -> AttemptStatus]
    <3>1. \A s \in Snapshots : att'[k][s] \in AttemptStatus
      BY <1>0, <1>2, <1>3 DEF TypeOK, AttemptStatus
    <3>2. att'[k] = [s \in Snapshots |-> att'[k][s]]
      BY <1>a
    <3> QED
      BY <3>1, <3>2
  <2>3. att' \in [Batches -> [Snapshots -> AttemptStatus]]
    BY <1>0, <1>a, <2>2 DEF TypeOK
  <2> QED
    BY <1>0, <1>3, <2>1, <2>3 DEF TypeOK
<1>5. UnusedIsEmpty'
  BY <1>0, <1>2, <1>3 DEF Inv, UnusedIsEmpty, Batches
<1>6. AttemptsAreClaims'
  BY <1>2, <1>3 DEF Inv, AttemptsAreClaims
<1>7. NumbersInOrder'
  BY <1>2, <1>3 DEF Inv, NumbersInOrder, Undecided, PublishStatus
<1>8. HeldIsOpen'
  BY <1>2, <1>3 DEF Inv, HeldIsOpen, OpenIsHeld, PublishStatus
<1>9. OpenIsHeld'
  BY <1>2, <1>3 DEF Inv, OpenIsHeld, Undecided, PublishStatus
<1>10. Confirmed'
  BY <1>2, <1>3 DEF Inv, Confirmed
<1>11. RowShape' /\ RetryHasAttemptLeft'
  BY <1>2, <1>3 DEF Inv, RowShape, RetryHasAttemptLeft, PublishStatus
<1> QED
  BY <1>4, <1>5, <1>6, <1>7, <1>8, <1>9, <1>10, <1>11 DEF Inv

\* The single ACK numbers its attempt without a gap and decides the snapshot.
LEMMA AcknowledgeInv ==
  ASSUME Inv, NEW t \in Snapshots, NEW status \in PublishStatus, Acknowledge(t, status)
  PROVE  Inv'
<1> USE NoneAssumption, BoundsAssumption, BatchesAssumption
<1>0. TypeOK
  BY DEF Inv
<1>1. /\ snap'[t].status = status /\ snap'[t].claim = 0
      /\ snap'[t].attempts = snap[t].attempts /\ snap'[t].backoff = FALSE
  BY <1>0 DEF Acknowledge, TypeOK, SnapshotRow
<1>2. \A s \in Snapshots \ {t} : snap'[s] = snap[s]
  BY <1>0 DEF Acknowledge, TypeOK
<1>3. UNCHANGED <<att, owner, lease>>
  BY DEF Acknowledge
<1>4. PICK n \in Nat : numbers[t] = 1 .. n /\ snap[t].attempts <= n
  BY DEF Inv, NumbersInOrder
<1>5. numbers'[t] = 1 .. (n + 1) /\ \A s \in Snapshots \ {t} : numbers'[s] = numbers[s]
  <2>1. n - snap[t].attempts < MaxDirect
    <3>1. Cardinality(1 .. n) = n
      BY <1>4, FS_Interval
    <3> QED
      BY <1>4, <3>1 DEF Acknowledge, Direct
  <2>2. snap[t].attempts \in Nat /\ snap[t].attempts <= MaxBatches
    BY <1>0 DEF Inv, TypeOK, SnapshotRow, AttemptsAreClaims
  <2>3. n + 1 \in 1 .. (MaxBatches + MaxDirect + 1)
    BY <2>1, <2>2
  <2>4. /\ (n + 1) - 1 \in numbers[t] \cup {0} /\ \A m \in numbers[t] : m < n + 1
    BY <1>4
  <2>5. \A i \in 1 .. (MaxBatches + MaxDirect + 1) :
          i - 1 \in numbers[t] \cup {0} /\ (\A m \in numbers[t] : m < i) => i = n + 1
    <3> SUFFICES ASSUME NEW i \in 1 .. (MaxBatches + MaxDirect + 1),
                        i - 1 \in numbers[t] \cup {0}, \A m \in numbers[t] : m < i
                 PROVE  i = n + 1
      OBVIOUS
    <3>0. i \in Nat /\ i - 1 \in 0 .. n /\ \A m \in 1 .. n : m < i
      <4>1. numbers[t] = 1 .. n
        BY <1>4
      <4>2. i - 1 \in (1 .. n) \cup {0} /\ \A m \in 1 .. n : m < i
        BY <4>1
      <4> QED
        BY <4>2
    <3>1. CASE n = 0
      BY <3>0, <3>1
    <3>2. CASE n # 0
      <4>1. n \in 1 .. n
        BY <3>2
      <4>2. n < i
        BY <3>0, <4>1
      <4> QED
        BY <3>0, <4>2
    <3> QED
      BY <3>1, <3>2
  <2>6. NextNumber(t) = n + 1
    BY <2>3, <2>4, <2>5 DEF NextNumber
  <2>7. numbers'[t] = numbers[t] \cup {n + 1} /\ \A s \in Snapshots \ {t} : numbers'[s] = numbers[s]
    BY <1>0, <2>6 DEF Acknowledge, TypeOK
  <2> QED
    BY <1>4, <2>7, NextInInterval
<1>6. TypeOK'
  <2>1. snap' \in [Snapshots -> SnapshotRow]
    <3> DEFINE row == [snap[t] EXCEPT !.status = status, !.claim = 0, !.backoff = FALSE]
    <3>1. /\ status \in {"absent", "ready", "claimed"} \cup PublishStatus
          /\ 0 \in Batches \cup {0} /\ FALSE \in BOOLEAN /\ snap[t] \in SnapshotRow
      BY <1>0 DEF TypeOK
    <3>2. row \in SnapshotRow
      BY <3>1, Zenon DEF SnapshotRow
    <3>3. snap' = [snap EXCEPT ![t] = row]
      BY <1>0 DEF Acknowledge, TypeOK
    <3> HIDE DEF row
    <3> QED
      BY <1>0, <3>2, <3>3 DEF TypeOK
  <2>2. numbers' \in [Snapshots -> SUBSET (Nat \ {0})]
    <3>1. 1 .. (n + 1) \in SUBSET (Nat \ {0})
      OBVIOUS
    <3>2. DOMAIN numbers' = Snapshots /\ numbers' = [s \in Snapshots |-> numbers'[s]]
      BY <1>0 DEF Acknowledge, TypeOK
    <3> QED
      BY <1>0, <1>5, <3>1, <3>2 DEF TypeOK
  <2> QED
    BY <1>0, <1>3, <2>1, <2>2 DEF TypeOK
<1>7. UnusedIsEmpty' /\ AttemptsAreClaims'
  BY <1>1, <1>2, <1>3 DEF Inv, UnusedIsEmpty, AttemptsAreClaims, Batches
<1>8. NumbersInOrder'
  <2> SUFFICES ASSUME NEW s \in Snapshots
               PROVE  \E i \in Nat :
                        /\ numbers'[s] = 1 .. i /\ snap'[s].attempts <= i
                        /\ snap'[s].status \notin PublishStatus => i = snap'[s].attempts
    BY DEF NumbersInOrder, Undecided
  <2>1. CASE s = t
    <3>1. snap[t].attempts \in Nat /\ n + 1 \in Nat
      BY <1>0 DEF TypeOK, SnapshotRow
    <3> QED
      BY <1>1, <1>4, <1>5, <2>1, <3>1
  <2>2. CASE s # t
    BY <1>2, <1>5, <2>2 DEF Inv, NumbersInOrder, Undecided
  <2> QED
    BY <2>1, <2>2
<1>9. HeldIsOpen' /\ OpenIsHeld' /\ RowShape' /\ RetryHasAttemptLeft'
  BY <1>1, <1>2, <1>3
  DEF Inv, HeldIsOpen, OpenIsHeld, RowShape, RetryHasAttemptLeft, Undecided, PublishStatus
<1>10. Confirmed'
  <2>1. snap[t].attempts + 1 \in 1 .. (n + 1)
    BY <1>0, <1>4 DEF TypeOK, SnapshotRow
  <2> QED
    BY <1>1, <1>2, <1>3, <1>5, <2>1 DEF Inv, Confirmed
<1> QED
  BY <1>6, <1>7, <1>8, <1>9, <1>10 DEF Inv

\* Every step keeps the invariant.
LEMMA NextInv == Inv /\ [Next]_vars => Inv'
<1> SUFFICES ASSUME Inv, [Next]_vars PROVE Inv'
  OBVIOUS
<1>1. CASE \E s \in Snapshots : Save(s) \/ BackoffOver(s)
  BY <1>1, SaveInv, BackoffOverInv
<1>2. CASE \E k \in Batches, w \in Workers, S \in SUBSET Snapshots : Claim(k, w, S)
  BY <1>2, ClaimInv
<1>3. CASE \E k \in Batches : LeaseDoubtful(k) \/ LeaseOver(k)
  BY <1>3, LeaseInv
<1>4. CASE \E k \in Batches, w \in Workers : \E verdict \in Acks(k) : AckBatch(k, w, verdict)
  BY <1>4, AckBatchInv
<1>5. CASE \E s \in Snapshots, status \in PublishStatus : Acknowledge(s, status)
  BY <1>5, AcknowledgeInv
<1>6. CASE UNCHANGED vars
  BY <1>6 DEF vars, Inv, TypeOK, UnusedIsEmpty, AttemptsAreClaims, NumbersInOrder, HeldIsOpen,
              OpenIsHeld, Confirmed, RowShape, RetryHasAttemptLeft, Undecided
<1> QED
  BY <1>1, <1>2, <1>3, <1>4, <1>5, <1>6 DEF Next

----------------------------------------------------------------------------

\* Inv holds in every reachable state.
THEOREM PublishInvariant == Spec => []Inv
  BY InitInv, NextInv, PTL DEF Spec

\* The tables keep their types.
THEOREM PublishTypes == Spec => []TypeOK
<1>1. Inv => TypeOK
  BY DEF Inv
<1> QED
  BY <1>1, PublishInvariant, PTL

\* The number a claim would give to its attempt is free: the unique index never
\* rejects a claim, although single ACKs number attempts in another way.
THEOREM ClaimNumbersAreFree == Spec => []ClaimNumberIsFree
<1>1. Inv => ClaimNumberIsFree
  <2> SUFFICES ASSUME Inv, NEW s \in Snapshots, Claimable(s)
               PROVE  snap[s].attempts + 1 \notin numbers[s]
    BY DEF ClaimNumberIsFree
  <2>1. Undecided(s)
    BY DEF Claimable, Undecided, PublishStatus
  <2>2. numbers[s] = 1 .. snap[s].attempts /\ snap[s].attempts \in Nat
    BY <2>1 DEF Inv, NumbersInOrder, TypeOK, SnapshotRow
  <2> QED
    BY <2>2
<1> QED
  BY <1>1, PublishInvariant, PTL

\* The batch that holds a snapshot has its attempt open, and no other batch
\* with a live lease has one.
THEOREM ClaimsAreExclusive == Spec => []ClaimIsExclusive
<1>1. Inv => ClaimIsExclusive
  BY DEF Inv, ClaimIsExclusive, HeldIsOpen, OpenIsHeld, Undecided, PublishStatus
<1> QED
  BY <1>1, PublishInvariant, PTL

\* A snapshot that waits for another try has one left.
THEOREM RetriesHaveAttempts == Spec => []RetryHasAttemptLeft
<1>1. Inv => RetryHasAttemptLeft
  BY DEF Inv
<1> QED
  BY <1>1, PublishInvariant, PTL

\* A snapshot whose publication was confirmed to a worker is published unless
\* a single ACK overruled it.
THEOREM ConfirmedPublications == Spec => []ConfirmedStaysPublished
<1>1. Inv => ConfirmedStaysPublished
  <2> SUFFICES ASSUME Inv, NEW s \in Snapshots, NEW k \in Batches,
                      att[k][s] = "published", snap[s].status # "published"
               PROVE  Direct(s) > 0
    BY DEF ConfirmedStaysPublished
  <2>1. PICK n \in Nat : numbers[s] = 1 .. n
    BY DEF Inv, NumbersInOrder
  <2>2. snap[s].attempts + 1 \in numbers[s] /\ snap[s].attempts \in Nat
    BY DEF Inv, Confirmed, TypeOK, SnapshotRow
  <2>3. Cardinality(numbers[s]) = n
    BY <2>1, FS_Interval
  <2> QED
    BY <2>1, <2>2, <2>3 DEF Direct
<1> QED
  BY <1>1, PublishInvariant, PTL

\* Only the single ACK changes a snapshot that is published or failed.
THEOREM OnlyDirectAcksOverrule == Spec => [][OnlyDirectAckOverrules]_vars
<1> DEFINE Overrules ==
      \A s \in Snapshots :
        snap[s].status \in PublishStatus /\ snap'[s] # snap[s]
          => \E status \in PublishStatus : Acknowledge(s, status)
<1>1. Inv /\ [Next]_vars => [Overrules]_vars
  <2> SUFFICES ASSUME Inv, Next, NEW t \in Snapshots,
                      snap[t].status \in PublishStatus, snap'[t] # snap[t]
               PROVE  \E status \in PublishStatus : Acknowledge(t, status)
    OBVIOUS
  <2>0. TypeOK
    BY DEF Inv
  <2>1. ASSUME NEW s \in Snapshots, Save(s)
        PROVE  FALSE
    <3>1. s = <<s[1], s[2]>> /\ s[2] \in Versions /\ s[2] >= s[2]
      BY DEF Snapshots, Versions
    <3>2. snap[s].status = "absent"
      BY <2>1, <3>1 DEF Save, NextVersion
    <3> QED
      BY <2>0, <2>1, <3>2 DEF Save, TypeOK, PublishStatus
  <2>2. ASSUME NEW s \in Snapshots, BackoffOver(s)
        PROVE  FALSE
    <3>1. snap[s].status = "ready"
      BY <2>2 DEF BackoffOver, Inv, RowShape
    <3> QED
      BY <2>0, <2>2, <3>1 DEF BackoffOver, TypeOK, PublishStatus
  <2>3. ASSUME NEW k \in Batches, NEW w \in Workers, NEW S \in SUBSET Snapshots, Claim(k, w, S)
        PROVE  FALSE
    <3>1. t \in S
      BY <2>3 DEF Claim
    <3> QED
      BY <2>3, <3>1 DEF Claim, Claimable, PublishStatus
  <2>4. ASSUME NEW k \in Batches, NEW w \in Workers, NEW verdict, AckBatch(k, w, verdict)
        PROVE  FALSE
    BY <2>4, AckBatchFacts DEF PublishStatus
  <2>5. ASSUME NEW s \in Snapshots, NEW status \in PublishStatus, Acknowledge(s, status)
        PROVE  s = t
    BY <2>0, <2>5 DEF Acknowledge, TypeOK
  <2> QED
    BY <2>1, <2>2, <2>3, <2>4, <2>5 DEF Next, LeaseDoubtful, LeaseOver
<1>2. Spec => [][Overrules]_vars
  BY <1>1, PublishInvariant, PTL DEF Spec
<1> QED
  BY <1>2 DEF OnlyDirectAckOverrules

\* A claim has its number and its snapshots for itself, and a retry an attempt left.
THEOREM ClaimsAreAlwaysSound == Spec => []ClaimsAreSound
BY ClaimNumbersAreFree, ClaimsAreExclusive, RetriesHaveAttempts, PTL DEF ClaimsAreSound

\* What a batch confirmed or gave up stands, unless a single ACK says otherwise.
THEOREM VerdictsAlwaysStand == Spec => VerdictsStand
BY ConfirmedPublications, OnlyDirectAcksOverrule, PTL DEF VerdictsStand

-----------------------------------------------------------------------------
(* Report.                                                                 *)

\* A reader of a single topic may fail after it collected.
Slack == IF payload.v2 /\ ~Several THEN 1 ELSE 0

\* The topics an attempt has still to come to.
Ahead(x) == {Asked[k] : k \in x.i .. Len(Asked)}

\* Where a topic was collected for already, no later place collects for it again.
CollectingSound(x) ==
  \A t \in Topics :
    /\ x.live[t] <= 1 + Slack
    /\ x.pc \in {"research", "deferred", "context"} => x.live[t] <= 1
    /\ x.pc = "research" /\ t \in Ahead(x) => x.live[t] = 0 /\ t \notin x.needs
    /\ x.pc \in {"research", "deferred"} =>
         (t \in x.needs => x.live[t] = 0) /\ (t \notin x.attempted => x.live[t] <= Slack)
    /\ x.pc = "context" /\ t \in Ahead(x) /\ t \notin x.attempted => x.live[t] <= Slack

UnwrittenPcs == {"research", "deferred", "context", "merge", "delta", "generate"}

\* A delta is what the change history made, and a body that was generated is none.
BodySound(x) ==
  /\ x.pc \in UnwrittenPcs => x.change # "made"
  /\ x.pc \in {"review", "persist"} => (x.change = "made" <=> x.body = "delta")

WrittenPcs == {"delta", "generate", "review", "persist", "complete", "done"}

ContextsSound(x) ==
  /\ x.pc \in {"research", "deferred"} \/ (x.pc = "context" /\ ~Several)
       => \A t \in Topics : x.picked[t] = <<>>
  /\ x.pc \in WrittenPcs =>
       /\ \A j, k \in DOMAIN x.contexts :
            Reference(x.contexts[j]) = Reference(x.contexts[k]) => j = k
       /\ \A t \in Topics : ToSet(x.picked[t]) \subseteq ToSet(x.contexts)

WriterSound(x) == CollectingSound(x) /\ BodySound(x) /\ ContextsSound(x)

\* A version is of an attempt that began, and that will not store again.
VersionsSound ==
  /\ VersionsTellTheTruth
  /\ \A v \in DOMAIN versions :
       /\ versions[v].attempt \in 1 .. attempts
       /\ writer[versions[v].attempt].pc \in {"complete", "done"}

ReportInv ==
  /\ ReportTypeOK /\ VersionsSound
  /\ \A a \in Attempts :
       /\ WriterSound(writer[a])
       /\ writer[a].pc # "idle" => a \in 1 .. attempts

-----------------------------------------------------------------------------
(* Sequences of documents.                                                 *)

\* A nonempty set of numbers has a least one.
LEMMA LeastOf == ASSUME NEW T \in SUBSET Nat, T # {} PROVE \E x \in T : \A y \in T : x <= y
<1>1. PICK x \in T : \A y \in T : ~ (<<y, x>> \in OpToRel(<, Nat))
  BY NatLessThanWellFounded, WFMin
<1>2. ASSUME NEW y \in T PROVE x <= y
  <2>1. x \in Nat /\ y \in Nat /\ ~ (y < x)
    BY <1>1 DEF OpToRel
  <2> QED
    BY <2>1
<1> QED
  BY <1>2

\* Positions are finitely many.
LEMMA FiniteIs ==
  ASSUME NEW m \in Nat, NEW K, K \subseteq 1 .. m
  PROVE  IsFiniteSet(K) /\ Cardinality(K) \in Nat
<1>1. IsFiniteSet(1 .. m)
  BY FS_Interval
<1>2. IsFiniteSet(K)
  BY <1>1, FS_Subset
<1> QED
  BY <1>2, FS_CardinalityType

\* The positions of a set up to one: none before the first, and one more at each of the set.
UpTo(K, k) == {j \in K : j <= k}
LEMMA UpToIs ==
  ASSUME NEW m \in Nat, NEW K, K \subseteq 1 .. m
  PROVE  /\ UpTo(K, 0) = {} /\ UpTo(K, m) = K
         /\ \A k : UpTo(K, k) \subseteq K
         /\ \A k \in Nat \ {0} :
              /\ k \notin UpTo(K, k - 1)
              /\ k \notin K => UpTo(K, k) = UpTo(K, k - 1)
              /\ k \in K => UpTo(K, k) = UpTo(K, k - 1) \cup {k}
<1>1. \A j \in K : j \in Nat /\ 1 <= j /\ j <= m
  OBVIOUS
<1>2. UpTo(K, 0) = {} /\ UpTo(K, m) = K
  <2>1. (\A j \in K : ~ (j <= 0)) /\ \A j \in K : j <= m
    BY <1>1
  <2> QED
    BY <2>1, Zenon DEF UpTo
<1>3. ASSUME NEW k \in Nat \ {0}
      PROVE  /\ k \notin UpTo(K, k - 1)
             /\ k \notin K => UpTo(K, k) = UpTo(K, k - 1)
             /\ k \in K => UpTo(K, k) = UpTo(K, k - 1) \cup {k}
  <2>1. k \notin UpTo(K, k - 1)
    BY DEF UpTo
  <2>2. \A j \in K : j <= k <=> j <= k - 1 \/ j = k
    BY <1>1
  <2> QED
    BY <2>1, <2>2 DEF UpTo
<1> QED
  BY <1>2, <1>3 DEF UpTo

\* A finite set of positions has one at every place.
LEMMA NthIs ==
  ASSUME NEW m \in Nat, NEW K, K \subseteq 1 .. m, NEW n \in 1 .. Cardinality(K)
  PROVE  /\ Cardinality(K) \in Nat
         /\ \E k \in K : Cardinality(UpTo(K, k)) = n
<1> DEFINE S == {k \in Nat : Cardinality(UpTo(K, k)) >= n}
<1>1. IsFiniteSet(K) /\ Cardinality(K) \in Nat
  BY FiniteIs
<1>2. \A k : IsFiniteSet(UpTo(K, k)) /\ Cardinality(UpTo(K, k)) \in Nat
  <2> TAKE k
  <2>1. UpTo(K, k) \subseteq K
    BY UpToIs
  <2> QED
    BY <1>1, <2>1, FS_Subset, FS_CardinalityType
<1>3. m \in S
  <2>1. UpTo(K, m) = K
    BY UpToIs
  <2> QED
    BY <1>1, <2>1
<1> HIDE DEF S
<1>4. PICK k \in S : \A l \in S : k <= l
  <2>1. S \in SUBSET Nat
    BY DEF S
  <2> QED
    BY <1>3, <2>1, LeastOf
<1>5. k \in Nat /\ Cardinality(UpTo(K, k)) >= n
  BY <1>4 DEF S
<1>6. k # 0
  <2>1. Cardinality(UpTo(K, 0)) = 0
    BY UpToIs, FS_EmptySet
  <2> QED
    BY <1>5, <2>1
<1>7. k - 1 \in Nat /\ Cardinality(UpTo(K, k - 1)) < n
  <2>1. k - 1 \in Nat /\ k - 1 \notin S
    BY <1>4, <1>5, <1>6
  <2>2. ~ (Cardinality(UpTo(K, k - 1)) >= n) /\ Cardinality(UpTo(K, k - 1)) \in Nat
    BY <1>2, <2>1 DEF S
  <2> QED
    BY <2>1, <2>2
<1>8. k \in K
  <2> SUFFICES ASSUME k \notin K PROVE FALSE
    OBVIOUS
  <2>1. UpTo(K, k) = UpTo(K, k - 1)
    BY <1>5, <1>6, UpToIs
  <2> QED
    BY <1>2, <1>5, <1>7, <2>1
<1>9. Cardinality(UpTo(K, k)) = Cardinality(UpTo(K, k - 1)) + 1
  <2>1. UpTo(K, k) = UpTo(K, k - 1) \cup {k} /\ k \notin UpTo(K, k - 1)
    BY <1>5, <1>6, <1>8, UpToIs
  <2> QED
    BY <1>2, <2>1, FS_AddElement
<1>10. Cardinality(UpTo(K, k)) = n
  BY <1>2, <1>5, <1>7, <1>9
<1> QED
  BY <1>1, <1>8, <1>10

\* The documents at some positions are documents of the sequence, each at its place.
LEMMA KeptIs ==
  ASSUME NEW S, NEW docs \in Seq(S), NEW K, K \subseteq DOMAIN docs
  PROVE  /\ Kept(docs, K) \in Seq(S) /\ DOMAIN Kept(docs, K) = 1 .. Cardinality(K)
         /\ Cardinality(K) \in Nat
         /\ \A n \in 1 .. Cardinality(K) : \E k \in K :
              Kept(docs, K)[n] = docs[k] /\ Cardinality(UpTo(K, k)) = n
<1> DEFINE at(n) == CHOOSE k \in K : Cardinality(UpTo(K, k)) = n
<1>1. Len(docs) \in Nat /\ DOMAIN docs = 1 .. Len(docs) /\ K \subseteq 1 .. Len(docs)
  OBVIOUS
<1>2. Cardinality(K) \in Nat
  BY <1>1, FiniteIs
<1>3. ASSUME NEW n \in 1 .. Cardinality(K)
      PROVE  at(n) \in K /\ Cardinality(UpTo(K, at(n))) = n
  <2>1. \E k \in K : Cardinality(UpTo(K, k)) = n
    BY <1>1, NthIs
  <2> QED
    BY <2>1
<1>4. Kept(docs, K) = [n \in 1 .. Cardinality(K) |-> docs[at(n)]]
  BY DEF Kept, UpTo
<1> HIDE DEF at
<1>5. ASSUME NEW n \in 1 .. Cardinality(K) PROVE docs[at(n)] \in S
  <2>1. \A k \in DOMAIN docs : docs[k] \in S
    OBVIOUS
  <2>2. at(n) \in DOMAIN docs
    BY <1>3
  <2> QED
    BY <2>1, <2>2
<1>6. Kept(docs, K) \in [1 .. Cardinality(K) -> S]
  BY <1>4, <1>5
<1>7. Kept(docs, K) \in Seq(S)
  BY <1>2, <1>6
<1> QED
  BY <1>2, <1>3, <1>4, <1>6, <1>7

\* Of the firsts, no two have one id.
LEMMA FirstsIs ==
  ASSUME NEW S, NEW docs \in Seq(S), NEW id
  PROVE  /\ Firsts(docs, id) \in Seq(S)
         /\ \A m, n \in DOMAIN Firsts(docs, id) : \E k, l \in DOMAIN docs :
              /\ Firsts(docs, id)[m] = docs[k] /\ Firsts(docs, id)[n] = docs[l]
              /\ id[k] = id[l] => m = n
<1> DEFINE K == {k \in DOMAIN docs : \A j \in 1 .. (k - 1) : id[j] # id[k]}
<1>1. Firsts(docs, id) = Kept(docs, K) /\ K \subseteq DOMAIN docs
  BY DEF Firsts
<1>2. DOMAIN docs \subseteq Nat \ {0}
  OBVIOUS
<1>3. ASSUME NEW k \in K, NEW l \in K, id[k] = id[l]
      PROVE  k = l
  <2>1. k \in Nat \ {0} /\ l \in Nat \ {0}
    BY <1>1, <1>2
  <2>2. ~ (k \in 1 .. (l - 1)) /\ ~ (l \in 1 .. (k - 1))
    BY <1>3
  <2> QED
    BY <2>1, <2>2
<1> HIDE DEF K
<1>4. ASSUME NEW m \in 1 .. Cardinality(K), NEW n \in 1 .. Cardinality(K)
      PROVE  \E k, l \in DOMAIN docs :
               Kept(docs, K)[m] = docs[k] /\ Kept(docs, K)[n] = docs[l] /\ (id[k] = id[l] => m = n)
  <2>0. \A q \in 1 .. Cardinality(K) : \E k \in K :
          Kept(docs, K)[q] = docs[k] /\ Cardinality(UpTo(K, k)) = q
    <3>1. K \subseteq DOMAIN docs
      BY <1>1
    <3> QED
      BY <3>1, KeptIs
  <2>1. PICK k \in K : Kept(docs, K)[m] = docs[k] /\ Cardinality(UpTo(K, k)) = m
    BY <2>0
  <2>2. PICK l \in K : Kept(docs, K)[n] = docs[l] /\ Cardinality(UpTo(K, l)) = n
    BY <2>0
  <2>3. id[k] = id[l] => m = n
    <3> SUFFICES ASSUME id[k] = id[l] PROVE m = n
      OBVIOUS
    <3>1. k = l
      BY <1>3
    <3> QED
      BY <2>1, <2>2, <3>1
  <2> QED
    BY <1>1, <2>1, <2>2, <2>3
<1>5. Kept(docs, K) \in Seq(S) /\ DOMAIN Kept(docs, K) = 1 .. Cardinality(K)
  BY <1>1, KeptIs
<1> QED
  BY <1>1, <1>4, <1>5

\* What is selected has one document per reference.
LEMMA SelectIs ==
  ASSUME NEW S, NEW docs \in Seq(S), NEW limit \in Nat
  PROVE  /\ Select(docs, limit) \in Seq(S)
         /\ \A m, n \in DOMAIN Select(docs, limit) :
              Reference(Select(docs, limit)[m]) = Reference(Select(docs, limit)[n]) => m = n
<1> DEFINE id == [k \in DOMAIN docs |-> Reference(docs[k])]
           s == Firsts(docs, id)
           last == IF Len(s) < limit THEN Len(s) ELSE limit
<1>1. s \in Seq(S)
  BY FirstsIs
<1>2. \A m, n \in DOMAIN s : Reference(s[m]) = Reference(s[n]) => m = n
  <2> SUFFICES ASSUME NEW m \in DOMAIN s, NEW n \in DOMAIN s, Reference(s[m]) = Reference(s[n])
               PROVE  m = n
    OBVIOUS
  <2> HIDE DEF id
  <2>1. PICK k, l \in DOMAIN docs : s[m] = docs[k] /\ s[n] = docs[l] /\ (id[k] = id[l] => m = n)
    BY FirstsIs
  <2>2. id[k] = id[l]
    BY <2>1 DEF id
  <2> QED
    BY <2>1, <2>2
<1>3. Select(docs, limit) = SubSeq(s, 1, last)
  BY DEF Select
<1> HIDE DEF s
<1>4. last \in Nat /\ last <= Len(s) /\ DOMAIN s = 1 .. Len(s)
  BY <1>1
<1>5. \A k \in 1 .. last : s[k] \in S
  BY <1>1, <1>4
<1> HIDE DEF last
<1>6. /\ SubSeq(s, 1, last) \in Seq(S) /\ Len(SubSeq(s, 1, last)) = last
      /\ \A k \in 1 .. last : SubSeq(s, 1, last)[k] = s[k]
  <2>1. /\ SubSeq(s, 1, last) \in Seq(S)
        /\ Len(SubSeq(s, 1, last)) = IF 1 <= last THEN last - 1 + 1 ELSE 0
        /\ \A k \in 1 .. last - 1 + 1 : SubSeq(s, 1, last)[k] = s[1 + k - 1]
    BY <1>4, <1>5, SubSeqProperties
  <2> QED
    BY <1>4, <2>1
<1>7. DOMAIN SubSeq(s, 1, last) = 1 .. last
  BY <1>6
<1> QED
  BY <1>2, <1>3, <1>4, <1>6, <1>7

\* Merged contexts are numbered by kind.
LEMMA MergeIs ==
  ASSUME NEW docs \in Seq(Context)
  PROVE  /\ MergeContexts(docs) \in Seq(Context)
         /\ \A m, n \in DOMAIN MergeContexts(docs) :
              Reference(MergeContexts(docs)[m]) = Reference(MergeContexts(docs)[n]) => m = n
<1> DEFINE s == Firsts(docs, [k \in DOMAIN docs |-> Key(docs[k])])
           same(k) == {j \in 1 .. k : s[j].kind = s[k].kind}
           all == [k \in DOMAIN s |-> [s[k] EXCEPT !.ref = Cardinality(same(k))]]
<1>1. s \in Seq(Context)
  BY FirstsIs
<1>2. MergeContexts(docs) = all
  BY DEF MergeContexts
<1> HIDE DEF s
<1>3. \A k \in DOMAIN s : s[k] \in Context /\ k \in Nat /\ 1 .. k \subseteq DOMAIN s
  BY <1>1
<1>4. \A k \in DOMAIN s : IsFiniteSet(same(k)) /\ Cardinality(same(k)) \in Nat
  <2> TAKE k \in DOMAIN s
  <2>1. same(k) \subseteq 1 .. k
    OBVIOUS
  <2> HIDE DEF same
  <2> QED
    BY <1>3, <2>1, FiniteIs
<1>5. ASSUME NEW m \in DOMAIN s, NEW n \in DOMAIN s, s[m].kind = s[n].kind, m < n
      PROVE  Cardinality(same(m)) < Cardinality(same(n))
  <2>1. same(m) \cup {n} \subseteq same(n) /\ n \notin same(m)
    BY <1>3, <1>5
  <2> HIDE DEF same
  <2>2. Cardinality(same(m) \cup {n}) = Cardinality(same(m)) + 1
    BY <1>4, <2>1, FS_AddElement
  <2>3. Cardinality(same(m) \cup {n}) <= Cardinality(same(n))
    BY <1>4, <2>1, FS_Subset
  <2> QED
    BY <1>4, <2>2, <2>3
<1>6. \A k \in DOMAIN s : /\ all[k] \in Context /\ all[k].kind = s[k].kind
                          /\ all[k].ref = Cardinality(same(k))
  <2> TAKE k \in DOMAIN s
  <2>1. s[k] \in Context /\ Cardinality(same(k)) \in Nat
    BY <1>3, <1>4
  <2> HIDE DEF same
  <2> QED
    BY <2>1 DEF Context
<1>7. DOMAIN all = DOMAIN s
  OBVIOUS
<1> HIDE DEF all, same
<1>8. all \in Seq(Context)
  <2>1. DOMAIN s = 1 .. Len(s) /\ Len(s) \in Nat
    BY <1>1
  <2>2. all = [k \in 1 .. Len(s) |-> all[k]]
    BY <2>1 DEF all
  <2> QED
    BY <1>6, <2>1, <2>2
<1>9. ASSUME NEW m \in DOMAIN s, NEW n \in DOMAIN s, Reference(all[m]) = Reference(all[n])
      PROVE  m = n
  <2>1. s[m].kind = s[n].kind /\ Cardinality(same(m)) = Cardinality(same(n))
    BY <1>6, <1>9 DEF Reference
  <2>2. ~ (m < n) /\ ~ (n < m)
    BY <1>4, <1>5, <2>1
  <2> QED
    BY <1>3, <2>2
<1> QED
  BY <1>2, <1>7, <1>8, <1>9

\* What the readers find are documents.
LEMMA FoundAre ==
  ASSUME ReportsAreSound, NEW t \in Topics
  PROVE  /\ WikiDocuments(t) \in Seq(Context) /\ PoolDocuments(t) \in Seq(Context)
         /\ LiveDocuments(t) \in Seq(Context) /\ Hybrid(t) \in Seq(Context)
         /\ \A live \in Seq(Context) : Read(t, live) \in Seq(Context)
<1>1. ASSUME NEW kind \in Kinds, NEW srcs \in Seq(Articles)
      PROVE  Numbered(kind, t, srcs) \in Seq(Context)
  <2> DEFINE d(k) == [src |-> srcs[k], kind |-> kind, ref |-> k,
                      chunk |-> IF kind = "wiki" THEN t ELSE "",
                      number |-> IF kind = "live" THEN k ELSE 0]
  <2>1. DOMAIN srcs = 1 .. Len(srcs) /\ Len(srcs) \in Nat /\ \A k \in DOMAIN srcs : srcs[k] \in Articles
    OBVIOUS
  <2>2. ASSUME NEW k \in DOMAIN srcs PROVE d(k) \in Context
    <3>1. k \in Nat /\ srcs[k] \in Articles
      BY <2>1
    <3>2. (IF kind = "wiki" THEN t ELSE "") \in Topics \cup {""} /\ (IF kind = "live" THEN k ELSE 0) \in Nat
      BY <3>1
    <3> QED
      BY <3>1, <3>2 DEF Context
  <2>3. Numbered(kind, t, srcs) = [k \in 1 .. Len(srcs) |-> d(k)]
    BY <2>1 DEF Numbered
  <2> HIDE DEF d
  <2> QED
    BY <2>1, <2>2, <2>3
<1>2. Wiki[t] \in Seq(Articles) /\ Pool[t] \in Seq(Articles) /\ Web[t] \in Seq(Articles)
  <2>1. Range(Wiki[t]) \subseteq Articles /\ Range(Pool[t]) \subseteq Articles /\ Range(Web[t]) \subseteq Articles
    BY DEF Articles
  <2> QED
    BY <2>1, SeqMonotonic DEF ReportsAreSound
<1>3. /\ WikiDocuments(t) \in Seq(Context) /\ PoolDocuments(t) \in Seq(Context)
      /\ LiveDocuments(t) \in Seq(Context)
  BY <1>1, <1>2 DEF WikiDocuments, PoolDocuments, LiveDocuments, Kinds
<1>4. <<>> \in Seq(Context)
  OBVIOUS
<1>5. Hybrid(t) \in Seq(Context)
  <2>1. (IF Bundled(t) THEN WikiDocuments(t) ELSE <<>>) \o PoolDocuments(t) \in Seq(Context)
    BY <1>3, <1>4, ConcatProperties
  <2> QED
    BY <2>1, MergeIs DEF Hybrid
<1>6. ASSUME NEW live \in Seq(Context) PROVE Read(t, live) \in Seq(Context)
  <2>1. WikiDocuments(t) \o PoolDocuments(t) \o live \in Seq(Context)
    BY <1>3, ConcatProperties
  <2> QED
    BY <2>1, MergeIs DEF Read
<1> QED
  BY <1>3, <1>5, <1>6

-----------------------------------------------------------------------------
(* One step of one attempt.                                                *)

\* What the invariant says of one attempt and of the topics that are asked for.
LEMMA WriterIs ==
  ASSUME ReportsAreSound, ReportInv, NEW a \in Attempts
  PROVE  /\ writer[a] \in Writer /\ WriterSound(writer[a])
         /\ Asked \in Seq(Topics) /\ Len(Asked) \in Nat \ {0} /\ DOMAIN Asked = 1 .. Len(Asked)
         /\ \A k \in 1 .. Len(Asked) : Asked[k] \in Topics
         /\ \A j, k \in 1 .. Len(Asked) : Asked[j] = Asked[k] => j = k
         /\ writer[a].i \in 1 .. Len(Asked) /\ Topic(a) \in Topics /\ Topic(a) \in Ahead(writer[a])
         /\ writer[a].pc # "idle" => a \in 1 .. attempts
         /\ Slack \in 0 .. 1
<1>1. /\ writer[a] \in Writer /\ writer[a].i <= Len(Asked) /\ WriterSound(writer[a])
      /\ writer[a].pc # "idle" => a \in 1 .. attempts
  BY DEF ReportInv, ReportTypeOK
<1>2. Asked \in Seq(Topics) /\ Asked # <<>> /\ IsInjective(Asked)
  BY DEF ReportInv, ReportTypeOK, ReportsAreSound, Asked
<1>3. Len(Asked) \in Nat \ {0} /\ DOMAIN Asked = 1 .. Len(Asked)
  BY <1>2
<1>4. \A j, k \in 1 .. Len(Asked) : Asked[j] = Asked[k] => j = k
  BY <1>2, <1>3 DEF IsInjective
<1>5. writer[a].i \in 1 .. Len(Asked)
  <2>1. writer[a].i \in Nat \ {0}
    BY <1>1 DEF Writer
  <2> QED
    BY <1>1, <1>3, <2>1
<1>6. \A k \in 1 .. Len(Asked) : Asked[k] \in Topics
  BY <1>2, <1>3, ElementOfSeq
<1>7. Topic(a) \in Topics
  BY <1>5, <1>6 DEF Topic
<1>8. Topic(a) \in Ahead(writer[a])
  BY <1>3, <1>5 DEF Topic, Ahead
<1> QED
  BY <1>1, <1>2, <1>3, <1>4, <1>5, <1>6, <1>7, <1>8 DEF Slack

\* What is sound of a state stays so for the same report.
LEMMA SoundStays ==
  ASSUME payload' = payload, NEW x, WriterSound(x)
  PROVE  WriterSound(x)'
<1>1. Several' = Several /\ Asked' = Asked /\ Slack' = Slack /\ Ahead(x)' = Ahead(x)
  BY DEF Several, Asked, Slack, Ahead
<1>2. CollectingSound(x)'
  BY <1>1 DEF WriterSound, CollectingSound
<1>3. BodySound(x)'
  BY DEF WriterSound, BodySound, UnwrittenPcs
<1>4. ContextsSound(x)'
  BY <1>1 DEF WriterSound, ContextsSound, WrittenPcs, Reference, ToSet
<1> QED
  BY <1>2, <1>3, <1>4 DEF WriterSound

\* An attempt whose new state is sound, and versions that are, keep the invariant.
LEMMA AttemptMoves ==
  ASSUME ReportInv, NEW a \in Attempts, NEW r \in Writer, Moved(a, r),
         r.i <= Len(Asked), WriterSound(r),
         payload' = payload, attempts' \in attempts .. payload.tries, a \in 1 .. attempts',
         done' \in BOOLEAN, pinned' \in [Topics -> {0} \cup Attempts],
         versions' \in Seq(Version), VersionsSound'
  PROVE  ReportInv'
<1>1. /\ payload \in Reports /\ attempts \in 0 .. payload.tries /\ writer \in [Attempts -> Writer]
      /\ \A b \in Attempts : writer[b].i <= Len(Asked)
  BY DEF ReportInv, ReportTypeOK
<1>2. \A b \in Attempts : writer'[b] = IF b = a THEN r ELSE writer[b]
  BY <1>1 DEF Moved
<1>3. writer' \in [Attempts -> Writer]
  BY <1>1 DEF Moved
<1>4. attempts' \in 0 .. payload'.tries /\ 1 .. attempts \subseteq 1 .. attempts'
  BY <1>1
<1>5. ASSUME NEW x, WriterSound(x) PROVE WriterSound(x)'
  BY <1>5, SoundStays
<1>6. ASSUME NEW b \in Attempts
      PROVE  /\ WriterSound(writer[b])' /\ (writer[b].i <= Len(Asked))'
             /\ writer'[b].pc # "idle" => b \in 1 .. attempts'
  <2>1. CASE b = a
    <3>1. writer'[b] = r
      BY <1>2, <2>1
    <3>2. WriterSound(r)'
      BY <1>5
    <3> QED
      BY <2>1, <3>1, <3>2 DEF Asked
  <2>2. CASE b # a
    <3>1. writer'[b] = writer[b]
      BY <1>2, <2>2
    <3>2. WriterSound(writer[b]) /\ (writer[b].pc # "idle" => b \in 1 .. attempts)
      BY DEF ReportInv
    <3> QED
      BY <1>1, <1>4, <1>5, <3>1, <3>2 DEF Asked
  <2> QED
    BY <2>1, <2>2
<1>7. ReportTypeOK'
  BY <1>1, <1>3, <1>4, <1>6 DEF ReportTypeOK
<1> QED
  BY <1>6, <1>7 DEF ReportInv

\* An attempt that stores no version, and does not go back after it stored one.
LEMMA WriterMoves ==
  ASSUME ReportInv, NEW a \in Attempts, NEW r \in Writer, Moved(a, r),
         r.i <= Len(Asked), WriterSound(r),
         writer[a].pc \in {"complete", "done"} => r.pc \in {"complete", "done"},
         payload' = payload, attempts' \in attempts .. payload.tries, a \in 1 .. attempts',
         done' \in BOOLEAN, pinned' \in [Topics -> {0} \cup Attempts], versions' = versions
  PROVE  ReportInv'
<1>1. /\ versions \in Seq(Version) /\ VersionsSound /\ writer \in [Attempts -> Writer]
      /\ attempts \in Nat
  BY DEF ReportInv, ReportTypeOK
<1>2. VersionsTellTheTruth'
  BY <1>1 DEF VersionsSound, VersionsTellTheTruth
<1>3. ASSUME NEW v \in DOMAIN versions
      PROVE  /\ versions[v].attempt \in 1 .. attempts'
             /\ writer'[versions[v].attempt].pc \in {"complete", "done"}
  <2>1. /\ versions[v].attempt \in 1 .. attempts
        /\ writer[versions[v].attempt].pc \in {"complete", "done"}
    BY <1>1 DEF VersionsSound
  <2>0. versions[v] \in Version
    BY <1>1
  <2>2. versions[v].attempt \in Attempts
    BY <2>0 DEF Version
  <2>3. writer'[versions[v].attempt] = IF versions[v].attempt = a THEN r ELSE writer[versions[v].attempt]
    BY <1>1, <2>2 DEF Moved
  <2> QED
    BY <1>1, <2>1, <2>3
<1>4. VersionsSound'
  BY <1>2, <1>3 DEF VersionsSound
<1> QED
  BY <1>1, <1>4, AttemptMoves

\* What a reader of the topic it is at leaves behind: the other topics as they were.
ReadsFor(x, y, t) ==
  /\ y.pc = "research" /\ y.i = x.i /\ y.change = x.change /\ y.picked = x.picked
  /\ \A u \in Topics : u # t =>
       /\ y.live[u] = x.live[u] /\ (u \in y.needs => u \in x.needs)
       /\ u \in x.attempted => u \in y.attempted
  /\ y.live[t] <= 1 /\ (t \in y.needs => y.live[t] = 0)
  /\ t \notin y.attempted => y.live[t] <= Slack

\* A reader that is done with its topic leaves the attempt sound.
LEMMA Researched ==
  ASSUME ReportsAreSound, ReportInv, NEW a \in Attempts, writer[a].pc = "research",
         NEW y \in Writer, ReadsFor(writer[a], y, Topic(a)), Moved(a, Advance(a, y)),
         UNCHANGED <<payload, attempts, done, versions>>, pinned' \in [Topics -> {0} \cup Attempts]
  PROVE  ReportInv'
<1> DEFINE x == writer[a]
           t == Topic(a)
           r == Advance(a, y)
<1>1. /\ x \in Writer /\ WriterSound(x) /\ x.pc = "research"
      /\ x.i \in 1 .. Len(Asked) /\ Len(Asked) \in Nat \ {0} /\ t = Asked[x.i] /\ t \in Topics
      /\ \A j, k \in 1 .. Len(Asked) : Asked[j] = Asked[k] => j = k
      /\ a \in 1 .. attempts /\ Slack \in 0 .. 1
  BY WriterIs DEF Topic
<1>2. /\ y.i = x.i /\ y.pc = "research" /\ y.change = x.change /\ y.picked = x.picked
      /\ y.live \in [Topics -> Nat] /\ x.live \in [Topics -> Nat]
  <2>1. y.live \in [Topics -> Nat] /\ x.live \in [Topics -> Nat]
    BY <1>1 DEF Writer
  <2> QED
    BY <1>1, <2>1 DEF ReadsFor
<1>3. /\ r \in Writer /\ r.i <= Len(Asked) /\ r.pc \in {"research", "deferred"}
      /\ r.live = y.live /\ r.needs = y.needs /\ r.attempted = y.attempted
      /\ r.change = x.change /\ r.picked = x.picked
      /\ r.pc = "research" => r.i = x.i + 1
  <2>1. y.i \in 1 .. Len(Asked) /\ y.i + 1 \in Nat \ {0} /\ (y.i < Len(Asked) => y.i + 1 <= Len(Asked))
    BY <1>1, <1>2
  <2>2. CASE y.i < Len(Asked)
    <3>1. r = [y EXCEPT !.i = y.i + 1]
      BY <2>2 DEF Advance
    <3>2. /\ r \in Writer /\ r.i = y.i + 1 /\ r.pc = y.pc /\ r.live = y.live /\ r.needs = y.needs
          /\ r.attempted = y.attempted /\ r.change = y.change /\ r.picked = y.picked
      BY <2>1, <3>1 DEF Writer
    <3> QED
      BY <1>2, <2>1, <2>2, <3>2
  <2>3. CASE ~ (y.i < Len(Asked))
    <3>1. r = [y EXCEPT !.pc = "deferred"]
      BY <2>3 DEF Advance
    <3>2. /\ r \in Writer /\ r.i = y.i /\ r.pc = "deferred" /\ r.live = y.live /\ r.needs = y.needs
          /\ r.attempted = y.attempted /\ r.change = y.change /\ r.picked = y.picked
      BY <3>1 DEF Writer
    <3> QED
      BY <1>1, <1>2, <2>1, <3>2
  <2> QED
    BY <2>2, <2>3
<1>4. t \in Ahead(x) /\ (r.pc = "research" => Ahead(r) \subseteq Ahead(x) /\ t \notin Ahead(r))
  <2>1. t \in Ahead(x)
    BY <1>1 DEF Ahead
  <2>2. ASSUME r.pc = "research" PROVE Ahead(r) \subseteq Ahead(x) /\ t \notin Ahead(r)
    <3>1. r.i = x.i + 1
      BY <1>3, <2>2
    <3> HIDE DEF x, r
    <3>2. \A k \in r.i .. Len(Asked) : k \in x.i .. Len(Asked) /\ k \in 1 .. Len(Asked) /\ k # x.i
      BY <1>1, <3>1
    <3> QED
      BY <1>1, <3>2 DEF Ahead
  <2> QED
    BY <2>1, <2>2
<1> HIDE DEF x, r, t
<1>5. CollectingSound(r)
  <2> SUFFICES ASSUME NEW u \in Topics
               PROVE  /\ r.live[u] <= 1
                      /\ r.pc = "research" /\ u \in Ahead(r) => r.live[u] = 0 /\ u \notin r.needs
                      /\ (u \in r.needs => r.live[u] = 0) /\ (u \notin r.attempted => r.live[u] <= Slack)
    BY <1>1, <1>2, <1>3 DEF CollectingSound
  <2>1. CASE u = t
    BY <1>2, <1>3, <1>4, <2>1 DEF ReadsFor, x, t
  <2>2. CASE u # t
    <3>1. /\ r.live[u] = x.live[u] /\ (u \in r.needs => u \in x.needs)
          /\ u \in x.attempted => u \in r.attempted
      BY <1>3, <2>2 DEF ReadsFor, x, t
    <3>2. /\ x.live[u] <= 1
          /\ u \in Ahead(x) => x.live[u] = 0 /\ u \notin x.needs
          /\ (u \in x.needs => x.live[u] = 0) /\ (u \notin x.attempted => x.live[u] <= Slack)
      BY <1>1 DEF WriterSound, CollectingSound
    <3> QED
      BY <1>4, <3>1, <3>2
  <2> QED
    BY <2>1, <2>2
<1>6. BodySound(r) /\ ContextsSound(r)
  BY <1>1, <1>3 DEF WriterSound, BodySound, ContextsSound, UnwrittenPcs, WrittenPcs
<1>7. WriterSound(r)
  BY <1>5, <1>6 DEF WriterSound
<1>8. Moved(a, r) /\ ~ (writer[a].pc \in {"complete", "done"})
  BY DEF r
<1>9. attempts' \in attempts .. payload.tries /\ a \in 1 .. attempts' /\ done' \in BOOLEAN
  BY <1>1 DEF ReportInv, ReportTypeOK
<1> QED
  BY <1>3, <1>7, <1>8, <1>9, WriterMoves

\* The pages that are stored are those of an attempt.
LEMMA PinsAre ==
  ASSUME ReportInv, NEW a \in Attempts, NEW t, NEW stores
  PROVE  /\ Pins(a, t, stores) \in [Topics -> {0} \cup Attempts]
         /\ Repins(a, t) \in [Topics -> {0} \cup Attempts]
  BY DEF ReportInv, ReportTypeOK, Pins, Repins

LEMMA SkipStays ==
  ASSUME ReportsAreSound, ReportInv, NEW a \in Attempts, SkipTopic(a)
  PROVE  ReportInv'
<1>1. /\ writer[a] \in Writer /\ WriterSound(writer[a]) /\ writer[a].pc = "research"
      /\ Topic(a) \in Topics
  BY WriterIs DEF SkipTopic
<1>2. ReadsFor(writer[a], writer[a], Topic(a))
  BY <1>1 DEF ReadsFor, WriterSound, CollectingSound
<1>3. pinned' \in [Topics -> {0} \cup Attempts]
  BY DEF SkipTopic, ReportInv, ReportTypeOK
<1> QED
  BY <1>1, <1>2, <1>3, Researched DEF SkipTopic

\* A reader that collected n times for its topic, and noted that it did unless it may not
\* come back.
LEMMA CollectedIs ==
  ASSUME ReportsAreSound, ReportInv, NEW a \in Attempts, writer[a].pc = "research",
         NEW n \in {0, 1}, NEW T \in SUBSET Topics, writer[a].attempted \subseteq T,
         Topic(a) \in T \/ n <= Slack,
         NEW y \in Writer, y = [writer[a] EXCEPT !.live[Topic(a)] = @ + n, !.attempted = T]
  PROVE  ReadsFor(writer[a], y, Topic(a))
<1> DEFINE x == writer[a]
           t == Topic(a)
<1>1. x \in Writer /\ WriterSound(x) /\ x.pc = "research" /\ t \in Topics /\ t \in Ahead(x)
  BY WriterIs
<1>2. x.live \in [Topics -> Nat] /\ x.live[t] = 0 /\ t \notin x.needs
  BY <1>1 DEF Writer, WriterSound, CollectingSound
<1>3. /\ y.pc = x.pc /\ y.i = x.i /\ y.change = x.change /\ y.picked = x.picked
      /\ y.needs = x.needs /\ y.attempted = T /\ y.live = [x.live EXCEPT ![t] = @ + n]
  BY <1>1 DEF Writer
<1> HIDE DEF x, t
<1>4. y.live[t] = n /\ \A u \in Topics : u # t => y.live[u] = x.live[u]
  BY <1>1, <1>2, <1>3
<1>5. t \in T \/ n <= Slack
  BY DEF t
<1>6. x.attempted \subseteq T
  BY DEF x
<1> QED
  BY <1>1, <1>2, <1>3, <1>4, <1>5, <1>6 DEF ReadsFor, x, t

LEMMA ReadStays ==
  ASSUME ReportsAreSound, ReportInv, NEW a \in Attempts, ReadTopic(a)
  PROVE  ReportInv'
<1> DEFINE x == writer[a]
           t == Topic(a)
<1>1. /\ x \in Writer /\ WriterSound(x) /\ x.pc = "research" /\ t \in Topics /\ t \in Ahead(x)
      /\ UNCHANGED <<payload, attempts, done, versions>>
  BY WriterIs DEF ReadTopic
<1>2. pinned' \in [Topics -> {0} \cup Attempts]
  BY PinsAre DEF ReadTopic
<1>3. /\ x.live \in [Topics -> Nat] /\ x.live[t] = 0 /\ t \notin x.needs
      /\ x.docs \in [Topics -> Seq(Context)] /\ x.completed \in SUBSET Topics
      /\ x.needs \in SUBSET Topics /\ x.attempted \in SUBSET Topics
  <2>1. x.live[t] = 0 /\ t \notin x.needs
    BY <1>1 DEF WriterSound, CollectingSound
  <2> QED
    BY <1>1, <2>1 DEF Writer
<1>4. PICK enough \in Judged(t), found \in {LiveDocuments(t), <<>>} :
        Moved(a, Advance(a,
          IF enough \/ Deferring
          THEN [x EXCEPT !.docs[t] = Read(t, <<>>), !.completed = @ \cup {t},
                         !.needs = IF enough THEN @ ELSE @ \cup {t}]
          ELSE [x EXCEPT !.docs[t] = Read(t, found), !.completed = @ \cup {t},
                         !.attempted = @ \cup {t}, !.live[t] = @ + 1]))
  BY DEF ReadTopic
<1>5. Read(t, <<>>) \in Seq(Context) /\ Read(t, found) \in Seq(Context)
  <2>1. <<>> \in Seq(Context) /\ LiveDocuments(t) \in Seq(Context)
    BY <1>1, FoundAre
  <2> QED
    BY <1>1, <1>4, <2>1, FoundAre
<1>6. CASE enough \/ Deferring
  <2> DEFINE y == [x EXCEPT !.docs[t] = Read(t, <<>>), !.completed = @ \cup {t},
                            !.needs = IF enough THEN @ ELSE @ \cup {t}]
  <2> HIDE DEF x, t
  <2>1. /\ y \in Writer /\ y.pc = x.pc /\ y.i = x.i /\ y.change = x.change /\ y.picked = x.picked
        /\ y.live = x.live /\ y.attempted = x.attempted /\ y.needs \subseteq x.needs \cup {t}
    BY <1>1, <1>3, <1>5 DEF Writer
  <2> HIDE DEF y
  <2>2. ReadsFor(x, y, t)
    BY <1>1, <1>3, <2>1 DEF ReadsFor, WriterSound, CollectingSound
  <2>3. Moved(a, Advance(a, y))
    BY <1>4, <1>6 DEF y
  <2> QED
    BY <1>1, <1>2, <2>1, <2>2, <2>3, Researched DEF x, t
<1>7. CASE ~ (enough \/ Deferring)
  <2> DEFINE y == [x EXCEPT !.docs[t] = Read(t, found), !.completed = @ \cup {t},
                            !.attempted = @ \cup {t}, !.live[t] = @ + 1]
  <2> HIDE DEF x, t
  <2>0. x.live[t] + 1 \in Nat
    BY <1>3
  <2>1. /\ y \in Writer /\ y.pc = x.pc /\ y.i = x.i /\ y.change = x.change /\ y.picked = x.picked
        /\ y.live = [x.live EXCEPT ![t] = @ + 1] /\ y.attempted = x.attempted \cup {t}
        /\ y.needs = x.needs
    <3> DEFINE docs == [x.docs EXCEPT ![t] = Read(t, found)]
               live == [x.live EXCEPT ![t] = @ + 1]
               attempted == x.attempted \cup {t}
               completed == x.completed \cup {t}
    <3>1. docs \in [Topics -> Seq(Context)] /\ live \in [Topics -> Nat]
      BY <1>1, <1>3, <1>5, <2>0
    <3>2. attempted \in SUBSET Topics /\ completed \in SUBSET Topics
      BY <1>1, <1>3
    <3>3. y = [x EXCEPT !.docs = docs, !.completed = completed, !.attempted = attempted, !.live = live]
      BY <1>1 DEF Writer
    <3> HIDE DEF docs, live, completed, attempted, y
    <3>4. /\ y \in Writer /\ y.pc = x.pc /\ y.i = x.i /\ y.change = x.change /\ y.picked = x.picked
          /\ y.live = live /\ y.attempted = attempted /\ y.needs = x.needs
      BY <1>1, <3>1, <3>2, <3>3 DEF Writer
    <3> QED
      BY <3>4 DEF live, attempted
  <2> HIDE DEF y
  <2>2. y.live[t] = 1 /\ \A u \in Topics : u # t => y.live[u] = x.live[u]
    BY <1>1, <1>3, <2>1
  <2>3. ReadsFor(x, y, t)
    BY <1>1, <1>3, <2>1, <2>2 DEF ReadsFor
  <2>4. Moved(a, Advance(a, y))
    BY <1>4, <1>7 DEF y
  <2> QED
    BY <1>1, <1>2, <2>1, <2>3, <2>4, Researched DEF x, t
<1> QED
  BY <1>6, <1>7

LEMMA TimesOutStays ==
  ASSUME ReportsAreSound, ReportInv, NEW a \in Attempts, ReadTimesOut(a)
  PROVE  ReportInv'
<1> DEFINE x == writer[a]
           t == Topic(a)
<1>1. /\ x \in Writer /\ x.pc = "research" /\ t \in Topics
      /\ UNCHANGED <<payload, attempts, done, versions>>
  BY WriterIs DEF ReadTimesOut
<1>2. PICK stores \in BOOLEAN, n \in {0, 1} :
        /\ pinned' = Pins(a, t, stores)
        /\ Moved(a, Advance(a, [x EXCEPT !.live[t] = @ + n, !.attempted = @ \cup {t}]))
  BY DEF ReadTimesOut
<1> DEFINE T == x.attempted \cup {t}
           y == [x EXCEPT !.live[t] = @ + n, !.attempted = T]
<1>3. x.live \in [Topics -> Nat] /\ x.attempted \in SUBSET Topics
  BY <1>1 DEF Writer
<1> HIDE DEF x, t
<1>4. y \in Writer
  <2>1. x.live[t] + n \in Nat /\ T \in SUBSET Topics
    BY <1>1, <1>3
  <2> HIDE DEF T
  <2> QED
    BY <1>1, <1>3, <2>1 DEF Writer
<1>5. Moved(a, Advance(a, y))
  BY <1>1, <1>2 DEF Writer
<1>6. ReadsFor(x, y, t)
  <2>1. t \in T /\ T \in SUBSET Topics /\ x.attempted \subseteq T
    BY <1>1, <1>3
  <2>2. y = [writer[a] EXCEPT !.live[Topic(a)] = @ + n, !.attempted = T]
    BY DEF x, t
  <2> HIDE DEF y, T
  <2> QED
    BY <1>1, <1>4, <2>1, <2>2, CollectedIs DEF x, t
<1>7. pinned' \in [Topics -> {0} \cup Attempts]
  BY <1>2, PinsAre
<1> HIDE DEF y
<1> QED
  BY <1>1, <1>4, <1>5, <1>6, <1>7, Researched DEF x, t

LEMMA FailsStays ==
  ASSUME ReportsAreSound, ReportInv, NEW a \in Attempts, ReadFails(a)
  PROVE  ReportInv'
<1> DEFINE x == writer[a]
           t == Topic(a)
<1>1. /\ x \in Writer /\ x.pc = "research" /\ t \in Topics
      /\ UNCHANGED <<payload, attempts, done, versions>>
  BY WriterIs DEF ReadFails
<1>2. PICK stores \in BOOLEAN, n \in IF payload.v2 /\ ~Several THEN {0, 1} ELSE {0} :
        /\ pinned' = Pins(a, t, stores)
        /\ Moved(a, Advance(a, [x EXCEPT !.live[t] = @ + n]))
  BY DEF ReadFails
<1>3. n \in {0, 1} /\ n <= Slack
  BY <1>2 DEF Slack
<1> DEFINE T == x.attempted
           y == [x EXCEPT !.live[t] = @ + n, !.attempted = T]
<1>4. x.live \in [Topics -> Nat] /\ x.attempted \in SUBSET Topics
  BY <1>1 DEF Writer
<1> HIDE DEF x, t
<1>5. y \in Writer /\ y = [x EXCEPT !.live[t] = @ + n]
  <2>1. x.live[t] + n \in Nat
    BY <1>1, <1>3, <1>4
  <2> QED
    BY <1>1, <1>4, <2>1 DEF Writer
<1>6. Moved(a, Advance(a, y))
  BY <1>2, <1>5
<1>7. ReadsFor(x, y, t)
  <2>1. y = [writer[a] EXCEPT !.live[Topic(a)] = @ + n, !.attempted = T]
    BY DEF x, t
  <2>2. writer[a].attempted \subseteq T /\ T \in SUBSET Topics
    BY <1>4 DEF x
  <2> HIDE DEF y, T
  <2> QED
    BY <1>1, <1>3, <1>5, <2>1, <2>2, CollectedIs DEF x, t
<1>8. pinned' \in [Topics -> {0} \cup Attempts]
  BY <1>2, PinsAre
<1> HIDE DEF y
<1> QED
  BY <1>1, <1>5, <1>6, <1>7, <1>8, Researched DEF x, t

\* An attempt that has not begun.
LEMMA NotBegunIs ==
  ASSUME ReportsAreSound
  PROVE  /\ NotBegun \in Writer /\ NotBegun.pc = "idle" /\ NotBegun.i = 1 /\ NotBegun.change = "none"
         /\ \A t \in Topics : /\ NotBegun.live[t] = 0 /\ NotBegun.picked[t] = <<>>
                              /\ t \notin NotBegun.needs
<1> DEFINE zeros == [t \in Topics |-> 0]
           none == [t \in Topics |-> {}]
           nil == [t \in Topics |-> <<>>]
<1>1. MaxLiveTopics \in Nat
  BY DEF ReportsAreSound
<1>2. <<>> \in Seq(Context) /\ 1 \in Nat \ {0} /\ 0 \in 0 .. MaxLiveTopics
  BY <1>1
<1>3. zeros \in [Topics -> Nat] /\ zeros \in [Topics -> {0} \cup Attempts]
  OBVIOUS
<1>4. none \in [Topics -> SUBSET Articles] /\ nil \in [Topics -> Seq(Context)]
  BY <1>2
<1>5. NotBegun = [pc |-> "idle", i |-> 1, pins |-> zeros, docs |-> nil, completed |-> {},
                  attempted |-> {}, needs |-> {}, live |-> zeros, budget |-> 0, own |-> none,
                  picked |-> nil, contexts |-> <<>>, covered |-> {}, body |-> "none", drafts |-> 0,
                  change |-> "none", reviews |-> 0]
  BY DEF NotBegun
<1>6. \A t \in Topics : zeros[t] = 0 /\ nil[t] = <<>>
  OBVIOUS
<1> HIDE DEF zeros, none, nil
<1>7. NotBegun \in Writer
  BY <1>2, <1>3, <1>4, <1>5 DEF Writer, Bodies
<1> QED
  BY <1>5, <1>6, <1>7

\* An attempt starts with a state of its own.
LEMMA StartStays ==
  ASSUME ReportsAreSound, ReportInv, Start
  PROVE  ReportInv'
<1> DEFINE a == attempts + 1
<1>1. /\ payload \in Reports /\ attempts \in 0 .. payload.tries /\ attempts < payload.tries
      /\ pinned \in [Topics -> {0} \cup Attempts] /\ done \in BOOLEAN
      /\ UNCHANGED <<payload, pinned, done, versions>> /\ attempts' = attempts + 1
  BY DEF ReportInv, ReportTypeOK, Start
<1>2. payload.tries \in Nat /\ 1 .. payload.tries \subseteq Attempts /\ MaxLiveTopics \in Nat
  BY <1>1 DEF ReportsAreSound
<1>3. a \in Attempts /\ a \in 1 .. attempts' /\ attempts' \in attempts .. payload.tries /\ a \notin 1 .. attempts
  BY <1>1, <1>2
<1>4. writer[a].pc = "idle"
  BY <1>3 DEF ReportInv
<1>5. PICK prewarmed \in SUBSET payload.prepared :
        Moved(a, [NotBegun EXCEPT !.pc = "research", !.pins = pinned,
                    !.docs = [t \in Topics |-> IF t \in prewarmed THEN WikiDocuments(t) \o PoolDocuments(t) ELSE <<>>],
                    !.completed = prewarmed])
  BY DEF Start
<1> DEFINE docs == [t \in Topics |-> IF t \in prewarmed THEN WikiDocuments(t) \o PoolDocuments(t) ELSE <<>>]
           r == [NotBegun EXCEPT !.pc = "research", !.pins = pinned, !.docs = docs, !.completed = prewarmed]
<1>6. docs \in [Topics -> Seq(Context)]
  <2>1. ASSUME NEW t \in Topics
        PROVE  (IF t \in prewarmed THEN WikiDocuments(t) \o PoolDocuments(t) ELSE <<>>) \in Seq(Context)
    <3>1. WikiDocuments(t) \in Seq(Context) /\ PoolDocuments(t) \in Seq(Context)
      BY FoundAre
    <3> QED
      BY <3>1, ConcatProperties
  <2> QED
    BY <2>1
<1>7. prewarmed \in SUBSET Topics
  BY <1>1, <1>5 DEF ReportsAreSound
<1> HIDE DEF a, docs
<1>8. /\ r \in Writer /\ r.pc = "research" /\ r.i = 1 /\ r.change = "none"
      /\ \A t \in Topics : r.live[t] = 0 /\ r.picked[t] = <<>> /\ t \notin r.needs
  <2>1. /\ NotBegun \in Writer /\ NotBegun.i = 1 /\ NotBegun.change = "none"
        /\ \A t \in Topics : NotBegun.live[t] = 0 /\ NotBegun.picked[t] = <<>> /\ t \notin NotBegun.needs
    BY NotBegunIs
  <2>2. /\ r \in Writer /\ r.pc = "research" /\ r.i = NotBegun.i /\ r.change = NotBegun.change
        /\ r.live = NotBegun.live /\ r.picked = NotBegun.picked /\ r.needs = NotBegun.needs
    BY <1>1, <1>6, <1>7, <2>1 DEF Writer
  <2> QED
    BY <2>1, <2>2
<1>9. Moved(a, r)
  BY <1>5 DEF docs
<1> HIDE DEF r
<1>10. Len(Asked) \in Nat \ {0} /\ Slack \in 0 .. 1
  BY <1>1 DEF ReportsAreSound, Asked, Slack
<1>11. WriterSound(r)
  BY <1>8, <1>10 DEF WriterSound, CollectingSound, BodySound, ContextsSound, UnwrittenPcs, WrittenPcs
<1> QED
  BY <1>1, <1>3, <1>4, <1>8, <1>9, <1>10, <1>11, WriterMoves

\* The report collects for topics that no reader collected for.
LEMMA DeferredStays ==
  ASSUME ReportsAreSound, ReportInv, NEW a \in Attempts, CollectDeferred(a)
  PROVE  ReportInv'
<1> DEFINE x == writer[a]
           D == Deferred(x)
<1>1. /\ x \in Writer /\ WriterSound(x) /\ x.pc = "deferred" /\ Slack \in 0 .. 1
      /\ Asked \in Seq(Topics) /\ Len(Asked) \in Nat \ {0} /\ a \in 1 .. attempts
      /\ UNCHANGED <<payload, pinned, attempts, done, versions>> /\ MaxLiveTopics \in Nat
  BY WriterIs DEF CollectDeferred, ReportsAreSound
<1>2. D \subseteq x.needs /\ D \subseteq Topics
  <2> DEFINE needy == {k \in DOMAIN Asked : Asked[k] \in x.needs}
             near == {j \in needy : Cardinality({i \in needy : i <= j}) <= MaxLiveTopics}
  <2>1. D = {Asked[k] : k \in near}
    BY DEF Deferred
  <2>2. near \subseteq needy
    OBVIOUS
  <2> HIDE DEF D, near
  <2>3. \A k \in near : Asked[k] \in x.needs /\ Asked[k] \in Topics
    BY <1>1, <2>2
  <2> QED
    BY <2>1, <2>3
<1>3. PICK ok \in SUBSET D :
        Moved(a, [x EXCEPT !.pc = "context", !.i = 1, !.attempted = @ \cup D, !.budget = MaxLiveTopics,
                           !.live = [t \in Topics |-> IF t \in D THEN x.live[t] + 1 ELSE x.live[t]],
                           !.docs = [t \in Topics |-> IF t \in ok THEN MergeContexts(x.docs[t] \o LiveDocuments(t))
                                                      ELSE x.docs[t]]])
  BY DEF CollectDeferred
<1> DEFINE live == [t \in Topics |-> IF t \in D THEN x.live[t] + 1 ELSE x.live[t]]
           docs == [t \in Topics |-> IF t \in ok THEN MergeContexts(x.docs[t] \o LiveDocuments(t)) ELSE x.docs[t]]
           attempted == x.attempted \cup D
           r == [x EXCEPT !.pc = "context", !.i = 1, !.attempted = attempted, !.budget = MaxLiveTopics,
                          !.live = live, !.docs = docs]
<1> HIDE DEF D
<1>4. Moved(a, r)
  BY <1>3
<1>5. /\ x.live \in [Topics -> Nat] /\ x.docs \in [Topics -> Seq(Context)]
      /\ attempted \in SUBSET Topics
  BY <1>1, <1>2 DEF Writer
<1>6. live \in [Topics -> Nat]
  <2>1. \A t \in Topics : x.live[t] \in Nat /\ x.live[t] + 1 \in Nat
    BY <1>5
  <2> HIDE DEF x
  <2> QED
    BY <2>1
<1>7. docs \in [Topics -> Seq(Context)]
  <2>1. ASSUME NEW t \in Topics
        PROVE  x.docs[t] \in Seq(Context) /\ MergeContexts(x.docs[t] \o LiveDocuments(t)) \in Seq(Context)
    <3>1. x.docs[t] \in Seq(Context) /\ LiveDocuments(t) \in Seq(Context)
      BY <1>5, FoundAre
    <3>2. x.docs[t] \o LiveDocuments(t) \in Seq(Context)
      BY <3>1, ConcatProperties
    <3> QED
      BY <3>1, <3>2, MergeIs
  <2> HIDE DEF x
  <2> QED
    BY <2>1
<1> HIDE DEF live, docs, attempted
<1>8. MaxLiveTopics \in 0 .. MaxLiveTopics
  BY <1>1
<1>9. /\ r \in Writer /\ r.pc = "context" /\ r.i = 1 /\ r.live = live /\ r.attempted = attempted
      /\ r.change = x.change /\ r.picked = x.picked
  <2>1. 1 \in Nat \ {0}
    OBVIOUS
  <2> QED
    BY <1>1, <1>5, <1>6, <1>7, <1>8, <2>1 DEF Writer
<1> HIDE DEF x, r
<1>10. CollectingSound(r)
  <2> SUFFICES ASSUME NEW t \in Topics
               PROVE  r.live[t] <= 1 /\ (t \notin r.attempted => r.live[t] <= Slack)
    BY <1>1, <1>5, <1>6, <1>9 DEF CollectingSound
  <2>1. /\ x.live[t] <= 1 /\ (t \in x.needs => x.live[t] = 0)
        /\ t \notin x.attempted => x.live[t] <= Slack
    BY <1>1 DEF WriterSound, CollectingSound
  <2>2. CASE t \in D
    <3>1. r.live[t] = x.live[t] + 1 /\ x.live[t] = 0 /\ t \in r.attempted
      BY <1>2, <1>9, <2>1, <2>2 DEF live, attempted
    <3> QED
      BY <3>1
  <2>3. CASE t \notin D
    BY <1>9, <2>1, <2>3 DEF live, attempted
  <2> QED
    BY <2>2, <2>3
<1>11. BodySound(r) /\ ContextsSound(r)
  BY <1>1, <1>9 DEF WriterSound, BodySound, ContextsSound, UnwrittenPcs, WrittenPcs
<1>12. WriterSound(r) /\ r.i <= Len(Asked)
  BY <1>1, <1>9, <1>10, <1>11 DEF WriterSound
<1>13. /\ attempts' \in attempts .. payload.tries /\ a \in 1 .. attempts' /\ done' \in BOOLEAN
       /\ pinned' \in [Topics -> {0} \cup Attempts]
  BY <1>1 DEF ReportInv, ReportTypeOK
<1>14. writer[a].pc = "deferred"
  BY <1>1 DEF x
<1> QED
  BY <1>1, <1>4, <1>9, <1>12, <1>13, <1>14, WriterMoves

\* Where a report goes once its contexts are there.
LEMMA RoutedIs ==
  ASSUME NEW y \in Writer
  PROVE  /\ Routed(y) \in Writer /\ Routed(y).pc \in {"delta", "generate"}
         /\ Routed(y).i = y.i /\ Routed(y).live = y.live /\ Routed(y).change = y.change
         /\ Routed(y).picked = y.picked /\ Routed(y).contexts = y.contexts
<1>1. CASE payload.delta
  <2>1. Routed(y) = [y EXCEPT !.pc = "delta"]
    BY <1>1 DEF Routed
  <2> QED
    BY <2>1 DEF Writer
<1>2. CASE ~payload.delta
  <2>1. Routed(y) = [y EXCEPT !.pc = "generate"]
    BY <1>2 DEF Routed
  <2> QED
    BY <2>1 DEF Writer
<1> QED
  BY <1>1, <1>2

\* A report on one topic cites what it selects.
LEMMA SingleStays ==
  ASSUME ReportsAreSound, ReportInv, NEW a \in Attempts, SingleContext(a)
  PROVE  ReportInv'
<1> DEFINE x == writer[a]
           t == Asked[1]
           found == x.docs[t] # <<>>
<1>1. /\ x \in Writer /\ WriterSound(x) /\ x.pc = "context" /\ ~Several /\ Slack \in 0 .. 1
      /\ Asked \in Seq(Topics) /\ Len(Asked) \in Nat \ {0} /\ DOMAIN Asked = 1 .. Len(Asked)
      /\ x.i \in 1 .. Len(Asked) /\ a \in 1 .. attempts
      /\ UNCHANGED <<payload, attempts, done, versions>> /\ MaxContexts \in Nat
  BY WriterIs DEF SingleContext, ReportsAreSound
<1>2. t \in Topics /\ t \in Ahead(x)
  <2>1. Len(Asked) = 1
    BY <1>1 DEF Several
  <2> HIDE DEF x
  <2>2. x.i = 1 /\ 1 \in x.i .. Len(Asked)
    BY <1>1, <2>1
  <2>3. t \in Topics
    <3>1. \A k \in 1 .. Len(Asked) : Asked[k] \in Topics
      BY WriterIs
    <3>2. 1 \in 1 .. Len(Asked)
      BY <2>1
    <3> QED
      BY <3>1, <3>2
  <2> QED
    BY <2>2, <2>3 DEF Ahead
<1>3. pinned' \in [Topics -> {0} \cup Attempts]
  <2>1. pinned' = IF found THEN pinned ELSE Repins(a, t)
    BY DEF SingleContext
  <2>2. Repins(a, t) \in [Topics -> {0} \cup Attempts] /\ pinned \in [Topics -> {0} \cup Attempts]
    BY PinsAre DEF ReportInv, ReportTypeOK
  <2> QED
    BY <2>1, <2>2
<1>4. PICK enough \in Judged(t), live \in {LiveDocuments(t), <<>>} :
        LET skip == found \/ enough \/ t \in x.attempted
            all == IF found THEN x.docs[t] ELSE Hybrid(t) \o (IF skip THEN <<>> ELSE live)
            C == Select(all, MaxContexts)
        IN Moved(a, Routed([x EXCEPT !.live[t] = IF skip THEN @ ELSE @ + 1, !.contexts = C,
                                     !.picked[t] = C, !.covered = {t}]))
  BY DEF SingleContext
<1> DEFINE skip == found \/ enough \/ t \in x.attempted
           all == IF found THEN x.docs[t] ELSE Hybrid(t) \o (IF skip THEN <<>> ELSE live)
           C == Select(all, MaxContexts)
           collected == [x.live EXCEPT ![t] = IF skip THEN @ ELSE @ + 1]
           picked == [x.picked EXCEPT ![t] = C]
           y == [x EXCEPT !.live = collected, !.contexts = C, !.picked = picked, !.covered = {t}]
<1>5. Moved(a, Routed(y))
  BY <1>1, <1>4 DEF Writer
<1>6. /\ x.live \in [Topics -> Nat] /\ x.picked \in [Topics -> Seq(Context)]
      /\ x.docs \in [Topics -> Seq(Context)]
  BY <1>1 DEF Writer
<1>7. all \in Seq(Context)
  <2>1. /\ x.docs[t] \in Seq(Context) /\ Hybrid(t) \in Seq(Context)
        /\ LiveDocuments(t) \in Seq(Context) /\ <<>> \in Seq(Context)
    BY <1>2, <1>6, FoundAre
  <2>2. (IF skip THEN <<>> ELSE live) \in Seq(Context)
    BY <1>4, <2>1
  <2> HIDE DEF skip
  <2> QED
    BY <2>1, <2>2, ConcatProperties
<1> HIDE DEF skip, all, x, t
<1>8. /\ C \in Seq(Context)
      /\ \A j, k \in DOMAIN C : Reference(C[j]) = Reference(C[k]) => j = k
  BY <1>1, <1>7, SelectIs
<1> HIDE DEF C
<1>9. /\ collected \in [Topics -> Nat] /\ collected[t] = (IF skip THEN x.live[t] ELSE x.live[t] + 1)
      /\ \A u \in Topics : u # t => collected[u] = x.live[u]
  <2>1. x.live[t] + 1 \in Nat
    BY <1>2, <1>6
  <2> QED
    BY <1>2, <1>6, <2>1
<1>10. /\ picked \in [Topics -> Seq(Context)] /\ picked[t] = C
       /\ \A u \in Topics : u # t => picked[u] = <<>>
  <2>1. \A u \in Topics : x.picked[u] = <<>>
    BY <1>1 DEF WriterSound, ContextsSound
  <2> QED
    BY <1>2, <1>6, <1>8, <2>1
<1> HIDE DEF collected, picked
<1>11. /\ y \in Writer /\ y.i = x.i /\ y.live = collected /\ y.contexts = C /\ y.picked = picked
       /\ y.change = x.change
  BY <1>1, <1>2, <1>8, <1>9, <1>10 DEF Writer
<1> DEFINE r == Routed(y)
<1> HIDE DEF y
<1>12. /\ r \in Writer /\ r.pc \in {"delta", "generate"} /\ r.i = x.i /\ r.live = collected
       /\ r.contexts = C /\ r.picked = picked /\ r.change = x.change
  BY <1>11, RoutedIs
<1> HIDE DEF r
<1>13. CollectingSound(r)
  <2> SUFFICES ASSUME NEW u \in Topics PROVE r.live[u] <= 1 + Slack
    BY <1>12 DEF CollectingSound
  <2>1. x.live[u] <= 1 /\ (u = t /\ u \notin x.attempted => x.live[u] <= Slack)
    BY <1>1, <1>2 DEF WriterSound, CollectingSound
  <2>2. u = t /\ ~skip => u \notin x.attempted
    BY DEF skip
  <2>3. x.live[u] \in Nat
    BY <1>6
  <2> QED
    BY <1>1, <1>9, <1>12, <2>1, <2>2, <2>3
<1>14. BodySound(r)
  BY <1>1, <1>12 DEF WriterSound, BodySound, UnwrittenPcs
<1>15. ContextsSound(r)
  <2>1. \A u \in Topics : ToSet(r.picked[u]) \subseteq ToSet(r.contexts)
    BY <1>10, <1>12 DEF ToSet
  <2> QED
    BY <1>8, <1>12, <2>1 DEF ContextsSound, WrittenPcs
<1>16. WriterSound(r) /\ r.i <= Len(Asked)
  BY <1>1, <1>12, <1>13, <1>14, <1>15 DEF WriterSound
<1>17. /\ attempts' \in attempts .. payload.tries /\ a \in 1 .. attempts' /\ done' \in BOOLEAN
       /\ writer[a].pc = "context" /\ Moved(a, r)
  BY <1>1, <1>5 DEF ReportInv, ReportTypeOK, x, r
<1> QED
  BY <1>1, <1>3, <1>12, <1>16, <1>17, WriterMoves

\* One topic of several collects unless it did, and leaves what is ahead alone.
LEMMA TopicStays ==
  ASSUME ReportsAreSound, ReportInv, NEW a \in Attempts, TopicContext(a)
  PROVE  ReportInv'
<1> DEFINE x == writer[a]
           t == Topic(a)
           found == x.docs[t] # <<>> \/ t \in x.completed
           final == x.i = Len(Asked)
<1>1. /\ x \in Writer /\ WriterSound(x) /\ x.pc = "context" /\ Several /\ Slack = 0
      /\ Len(Asked) \in Nat \ {0} /\ t = Asked[x.i] /\ t \in Topics /\ t \in Ahead(x)
      /\ \A j, k \in 1 .. Len(Asked) : Asked[j] = Asked[k] => j = k
      /\ x.i \in 1 .. Len(Asked) /\ a \in 1 .. attempts
      /\ UNCHANGED <<payload, attempts, done, versions>> /\ MaxLiveTopics \in Nat
  BY WriterIs DEF TopicContext, ReportsAreSound, Slack, Topic
<1>2. Quota \in Nat
  <2>1. MaxContexts \in Nat /\ MinShare \in Nat
    BY DEF ReportsAreSound
  <2>2. MaxContexts \div Len(Asked) \in Nat
    BY <1>1, <2>1
  <2> QED
    BY <2>1, <2>2 DEF Quota
<1>3. pinned' \in [Topics -> {0} \cup Attempts]
  <2>1. pinned' = IF found THEN pinned ELSE Repins(a, t)
    BY DEF TopicContext
  <2>2. Repins(a, t) \in [Topics -> {0} \cup Attempts] /\ pinned \in [Topics -> {0} \cup Attempts]
    BY PinsAre DEF ReportInv, ReportTypeOK
  <2> QED
    BY <2>1, <2>2
<1>4. PICK enough \in Judged(t), live \in {LiveDocuments(t), <<>>} :
        LET skip == found \/ enough \/ t \in x.attempted \/ x.budget = 0
            all == IF found THEN x.docs[t] ELSE Hybrid(t) \o (IF skip THEN <<>> ELSE live)
        IN \E K \in SUBSET (DOMAIN all) :
             LET focused == Kept(all, K)
                 mine == Unseen(Select(Untaken(x, focused), Quota))
             IN Moved(a, [x EXCEPT !.pc = IF final THEN "merge" ELSE @,
                                   !.i = IF final THEN @ ELSE @ + 1,
                                   !.live[t] = IF skip THEN @ ELSE @ + 1,
                                   !.budget = IF skip THEN @ ELSE @ - 1,
                                   !.own[t] = Own(x, focused), !.picked[t] = mine,
                                   !.contexts = @ \o mine,
                                   !.covered = IF mine = <<>> THEN @ ELSE @ \cup {t}])
  BY DEF TopicContext
<1> DEFINE skip == found \/ enough \/ t \in x.attempted \/ x.budget = 0
           all == IF found THEN x.docs[t] ELSE Hybrid(t) \o (IF skip THEN <<>> ELSE live)
<1>5. PICK K \in SUBSET (DOMAIN all) :
        LET focused == Kept(all, K)
            mine == Unseen(Select(Untaken(x, focused), Quota))
        IN Moved(a, [x EXCEPT !.pc = IF final THEN "merge" ELSE @,
                              !.i = IF final THEN @ ELSE @ + 1,
                              !.live[t] = IF skip THEN @ ELSE @ + 1,
                              !.budget = IF skip THEN @ ELSE @ - 1,
                              !.own[t] = Own(x, focused), !.picked[t] = mine,
                              !.contexts = @ \o mine,
                              !.covered = IF mine = <<>> THEN @ ELSE @ \cup {t}])
  BY <1>4
<1> DEFINE focused == Kept(all, K)
           mine == Unseen(Select(Untaken(x, focused), Quota))
           pc == IF final THEN "merge" ELSE "context"
           i == IF final THEN x.i ELSE x.i + 1
           collected == [x.live EXCEPT ![t] = IF skip THEN @ ELSE @ + 1]
           budget == IF skip THEN x.budget ELSE x.budget - 1
           own == [x.own EXCEPT ![t] = Own(x, focused)]
           picked == [x.picked EXCEPT ![t] = mine]
           contexts == x.contexts \o mine
           covered == IF mine = <<>> THEN x.covered ELSE x.covered \cup {t}
           r == [x EXCEPT !.pc = pc, !.i = i, !.live = collected, !.budget = budget, !.own = own,
                          !.picked = picked, !.contexts = contexts, !.covered = covered]
<1>6. Moved(a, r)
  <2> HIDE DEF all, skip, found, t, final
  <2> QED
    BY <1>1, <1>5 DEF Writer
<1>7. /\ x.live \in [Topics -> Nat] /\ x.picked \in [Topics -> Seq(Context)]
      /\ x.docs \in [Topics -> Seq(Context)] /\ x.own \in [Topics -> SUBSET Articles]
      /\ x.contexts \in Seq(Context) /\ x.covered \in SUBSET Topics /\ x.budget \in 0 .. MaxLiveTopics
  BY <1>1 DEF Writer
<1>8. all \in Seq(Context)
  <2>1. /\ x.docs[t] \in Seq(Context) /\ Hybrid(t) \in Seq(Context)
        /\ LiveDocuments(t) \in Seq(Context) /\ <<>> \in Seq(Context)
    <3> HIDE DEF x, t, found, final
    <3>1. x.docs[t] \in Seq(Context) /\ <<>> \in Seq(Context)
      BY <1>1, <1>7
    <3>2. Hybrid(t) \in Seq(Context) /\ LiveDocuments(t) \in Seq(Context)
      BY <1>1, FoundAre
    <3> QED
      BY <3>1, <3>2
  <2>2. (IF skip THEN <<>> ELSE live) \in Seq(Context)
    BY <1>4, <2>1
  <2> HIDE DEF skip, found
  <2> QED
    BY <2>1, <2>2, ConcatProperties
<1> HIDE DEF all, x, t, found
<1>9. focused \in Seq(Context)
  BY <1>5, <1>8, KeptIs
<1> HIDE DEF focused
<1>10. mine \in Seq(Context)
  <2>1. Untaken(x, focused) \in Seq(Context)
    <3> DEFINE left == {k \in DOMAIN focused : Identity(focused[k]) \notin Taken(x)}
    <3>1. Untaken(x, focused) = Kept(focused, left) /\ left \subseteq DOMAIN focused
      BY DEF Untaken
    <3> HIDE DEF left
    <3> QED
      BY <1>9, <3>1, KeptIs
  <2>2. Select(Untaken(x, focused), Quota) \in Seq(Context)
    BY <1>2, <2>1, SelectIs
  <2> QED
    BY <2>2, FirstsIs DEF Unseen
<1>11. Own(x, focused) \in SUBSET Articles
  <2>1. \A e \in ToSet(focused) : e.src \in Articles
    <3>1. \A k \in DOMAIN focused : focused[k] \in Context
      BY <1>9
    <3> QED
      BY <3>1 DEF ToSet, Context
  <2> QED
    BY <2>1 DEF Own
<1> HIDE DEF mine, skip
<1>12. /\ collected \in [Topics -> Nat] /\ collected[t] = (IF skip THEN x.live[t] ELSE x.live[t] + 1)
       /\ \A u \in Topics : u # t => collected[u] = x.live[u]
  <2>1. x.live[t] + 1 \in Nat
    BY <1>1, <1>7
  <2> QED
    BY <1>1, <1>7, <2>1
<1>13. budget \in 0 .. MaxLiveTopics
  <2>1. ~skip => x.budget # 0
    BY DEF skip
  <2> QED
    BY <1>1, <1>7, <2>1
<1>14. /\ own \in [Topics -> SUBSET Articles] /\ picked \in [Topics -> Seq(Context)]
       /\ covered \in SUBSET Topics
  BY <1>1, <1>7, <1>10, <1>11
<1>15. contexts \in Seq(Context)
  BY <1>7, <1>10, ConcatProperties
<1>16. /\ i \in Nat \ {0} /\ i <= Len(Asked) /\ pc \in {"merge", "context"}
       /\ pc = "context" => i = x.i + 1
  BY <1>1
<1> HIDE DEF collected, own, picked, covered, contexts, budget, pc, i
<1>17. /\ r \in Writer /\ r.pc = pc /\ r.i = i /\ r.live = collected /\ r.attempted = x.attempted
       /\ r.change = x.change
  BY <1>1, <1>12, <1>13, <1>14, <1>15, <1>16 DEF Writer
<1> HIDE DEF r
<1>18. r.pc = "context" => Ahead(r) \subseteq Ahead(x) /\ t \notin Ahead(r)
  <2> SUFFICES ASSUME r.pc = "context" PROVE Ahead(r) \subseteq Ahead(x) /\ t \notin Ahead(r)
    OBVIOUS
  <2>1. r.i = x.i + 1
    BY <1>16, <1>17
  <2>2. \A k \in r.i .. Len(Asked) : k \in x.i .. Len(Asked) /\ k \in 1 .. Len(Asked) /\ k # x.i
    BY <1>1, <2>1
  <2> QED
    BY <1>1, <2>2 DEF Ahead
<1>19. CollectingSound(r)
  <2> SUFFICES ASSUME NEW u \in Topics
               PROVE  /\ r.live[u] <= 1
                      /\ r.pc = "context" /\ u \in Ahead(r) /\ u \notin r.attempted => r.live[u] <= Slack
    BY <1>1, <1>7, <1>12, <1>16, <1>17 DEF CollectingSound
  <2>1. x.live[u] <= 1 /\ (u \in Ahead(x) /\ u \notin x.attempted => x.live[u] <= Slack)
    BY <1>1 DEF WriterSound, CollectingSound
  <2>2. x.live[u] \in Nat
    BY <1>7
  <2>3. CASE u = t
    <3>1. ~skip => u \notin x.attempted
      BY <2>3 DEF skip
    <3> QED
      BY <1>1, <1>12, <1>17, <1>18, <2>1, <2>2, <2>3, <3>1
  <2>4. CASE u # t
    BY <1>12, <1>17, <1>18, <2>1, <2>4
  <2> QED
    BY <2>3, <2>4
<1>20. BodySound(r) /\ ContextsSound(r)
  BY <1>1, <1>16, <1>17 DEF WriterSound, BodySound, ContextsSound, UnwrittenPcs, WrittenPcs
<1>21. WriterSound(r) /\ r.i <= Len(Asked)
  BY <1>16, <1>17, <1>19, <1>20 DEF WriterSound
<1>22. /\ attempts' \in attempts .. payload.tries /\ a \in 1 .. attempts' /\ done' \in BOOLEAN
       /\ writer[a].pc = "context"
  BY <1>1 DEF ReportInv, ReportTypeOK, x
<1> QED
  BY <1>1, <1>3, <1>6, <1>17, <1>21, <1>22, WriterMoves

\* The contexts of a topic follow those of the report to their new numbers.
LEMMA RenumberedIs ==
  ASSUME NEW x \in Writer
  PROVE  /\ Renumbered(x) \in Writer
         /\ Renumbered(x).pc = x.pc /\ Renumbered(x).i = x.i /\ Renumbered(x).live = x.live
         /\ Renumbered(x).change = x.change
         /\ \A j, k \in DOMAIN Renumbered(x).contexts :
              Reference(Renumbered(x).contexts[j]) = Reference(Renumbered(x).contexts[k]) => j = k
         /\ \A t \in Topics : ToSet(Renumbered(x).picked[t]) \subseteq ToSet(Renumbered(x).contexts)
<1> DEFINE all == MergeContexts(x.contexts)
           At(d) == {k \in DOMAIN all : Identity(all[k]) = Identity(d)}
           Left(t) == Kept(x.picked[t], {k \in DOMAIN x.picked[t] : At(x.picked[t][k]) # {}})
           mine(t) == [k \in DOMAIN Left(t) |-> all[CHOOSE j \in At(Left(t)[k]) : TRUE]]
           picked == [t \in Topics |-> mine(t)]
<1>1. x.contexts \in Seq(Context) /\ x.picked \in [Topics -> Seq(Context)]
  BY DEF Writer
<1>2. /\ all \in Seq(Context)
      /\ \A j, k \in DOMAIN all : Reference(all[j]) = Reference(all[k]) => j = k
  BY <1>1, MergeIs
<1>3. Renumbered(x) = [x EXCEPT !.contexts = all, !.picked = picked]
  BY DEF Renumbered
<1> HIDE DEF all
<1>4. ASSUME NEW t \in Topics
      PROVE  mine(t) \in Seq(Context) /\ ToSet(mine(t)) \subseteq ToSet(all)
  <2> DEFINE docs == x.picked[t]
             K == {k \in DOMAIN docs : At(docs[k]) # {}}
  <2>1. docs \in Seq(Context) /\ K \subseteq DOMAIN docs
    BY <1>1
  <2>2. Left(t) = Kept(docs, K)
    OBVIOUS
  <2>3. \A k \in K : At(docs[k]) # {}
    OBVIOUS
  <2> HIDE DEF docs, K, At
  <2>4. /\ Left(t) \in Seq(Context) /\ DOMAIN Left(t) = 1 .. Cardinality(K) /\ Cardinality(K) \in Nat
        /\ \A n \in 1 .. Cardinality(K) : \E k \in K : Left(t)[n] = docs[k]
    <3>1. /\ Kept(docs, K) \in Seq(Context) /\ DOMAIN Kept(docs, K) = 1 .. Cardinality(K)
          /\ Cardinality(K) \in Nat
          /\ \A n \in 1 .. Cardinality(K) : \E k \in K :
               Kept(docs, K)[n] = docs[k] /\ Cardinality(UpTo(K, k)) = n
      BY <2>1, KeptIs
    <3> HIDE DEF Left
    <3> QED
      BY <2>2, <3>1
  <2> HIDE DEF Left
  <2>5. ASSUME NEW n \in 1 .. Cardinality(K)
        PROVE  (CHOOSE j \in At(Left(t)[n]) : TRUE) \in DOMAIN all
    <3>1. At(Left(t)[n]) # {}
      BY <2>3, <2>4
    <3>2. (CHOOSE j \in At(Left(t)[n]) : TRUE) \in At(Left(t)[n])
      BY <3>1
    <3>3. At(Left(t)[n]) \subseteq DOMAIN all
      BY DEF At
    <3> QED
      BY <3>2, <3>3
  <2> DEFINE pick(n) == CHOOSE j \in At(Left(t)[n]) : TRUE
  <2>6. \A n \in 1 .. Cardinality(K) : pick(n) \in DOMAIN all
    BY <2>5
  <2>7. mine(t) = [n \in 1 .. Cardinality(K) |-> all[pick(n)]]
    BY <2>4
  <2> HIDE DEF pick, mine
  <2>8. \A j \in DOMAIN all : all[j] \in Context /\ all[j] \in ToSet(all)
    BY <1>2 DEF ToSet
  <2>9. \A n \in 1 .. Cardinality(K) : all[pick(n)] \in Context /\ all[pick(n)] \in ToSet(all)
    BY <2>6, <2>8
  <2>10. mine(t) \in Seq(Context)
    BY <2>4, <2>7, <2>9
  <2>11. ToSet(mine(t)) \subseteq ToSet(all)
    <3>1. DOMAIN mine(t) = 1 .. Cardinality(K) /\ \A n \in 1 .. Cardinality(K) : mine(t)[n] \in ToSet(all)
      BY <2>7, <2>9
    <3>2. ToSet(mine(t)) = {mine(t)[n] : n \in DOMAIN mine(t)}
      BY DEF ToSet
    <3> QED
      BY <3>1, <3>2
  <2> QED
    BY <2>10, <2>11
<1> HIDE DEF mine
<1>5. picked \in [Topics -> Seq(Context)] /\ \A t \in Topics : ToSet(picked[t]) \subseteq ToSet(all)
  BY <1>4
<1> HIDE DEF picked
<1>6. /\ Renumbered(x) \in Writer /\ Renumbered(x).pc = x.pc /\ Renumbered(x).i = x.i
      /\ Renumbered(x).live = x.live /\ Renumbered(x).change = x.change
      /\ Renumbered(x).contexts = all /\ Renumbered(x).picked = picked
  BY <1>2, <1>3, <1>5 DEF Writer
<1> QED
  BY <1>2, <1>5, <1>6

\* An attempt that is past its contexts and changes none of what it collected for.
LEMMA WritingMoves ==
  ASSUME ReportsAreSound, ReportInv, NEW a \in Attempts,
         writer[a].pc \notin {"idle", "research", "deferred", "context"},
         NEW r \in Writer, Moved(a, r), r.i = writer[a].i, r.live = writer[a].live,
         r.pc \notin {"idle", "research", "deferred", "context"},
         BodySound(r), ContextsSound(r),
         writer[a].pc \in {"complete", "done"} => r.pc \in {"complete", "done"},
         UNCHANGED <<payload, pinned, attempts, versions>>, done' \in BOOLEAN
  PROVE  ReportInv'
<1>1. /\ WriterSound(writer[a]) /\ a \in 1 .. attempts /\ writer[a].i \in 1 .. Len(Asked)
      /\ Len(Asked) \in Nat \ {0}
  BY WriterIs
<1>2. CollectingSound(r)
  BY <1>1 DEF WriterSound, CollectingSound
<1>3. WriterSound(r) /\ r.i <= Len(Asked)
  BY <1>1, <1>2 DEF WriterSound
<1>4. /\ attempts' \in attempts .. payload.tries /\ a \in 1 .. attempts'
      /\ pinned' \in [Topics -> {0} \cup Attempts]
  BY <1>1 DEF ReportInv, ReportTypeOK
<1> QED
  BY <1>3, <1>4, WriterMoves

LEMMA MergeStays ==
  ASSUME ReportsAreSound, ReportInv, NEW a \in Attempts, MergeTopics(a)
  PROVE  ReportInv'
<1> DEFINE x == writer[a]
<1>1. /\ x \in Writer /\ WriterSound(x) /\ x.pc = "merge"
      /\ UNCHANGED <<payload, pinned, attempts, done, versions>> /\ done' \in BOOLEAN
  BY WriterIs DEF MergeTopics, ReportInv, ReportTypeOK
<1>2. CASE x.contexts = <<>>
  <2> DEFINE r == [x EXCEPT !.pc = "failed"]
  <2>1. Moved(a, r)
    BY <1>2 DEF MergeTopics
  <2>2. r \in Writer /\ r.pc = "failed" /\ r.i = x.i /\ r.live = x.live
    BY <1>1 DEF Writer
  <2> HIDE DEF r
  <2>3. BodySound(r) /\ ContextsSound(r)
    BY <2>2 DEF BodySound, ContextsSound, UnwrittenPcs, WrittenPcs
  <2> QED
    BY <1>1, <2>1, <2>2, <2>3, WritingMoves
<1>3. CASE x.contexts # <<>>
  <2> DEFINE y == Renumbered(x)
             r == Routed(y)
  <2>1. Moved(a, r)
    BY <1>3 DEF MergeTopics
  <2>2. /\ y \in Writer /\ y.pc = x.pc /\ y.i = x.i /\ y.live = x.live /\ y.change = x.change
        /\ \A j, k \in DOMAIN y.contexts : Reference(y.contexts[j]) = Reference(y.contexts[k]) => j = k
        /\ \A t \in Topics : ToSet(y.picked[t]) \subseteq ToSet(y.contexts)
    BY <1>1, RenumberedIs
  <2> HIDE DEF y
  <2>3. /\ r \in Writer /\ r.pc \in {"delta", "generate"} /\ r.i = y.i /\ r.live = y.live
        /\ r.change = y.change /\ r.picked = y.picked /\ r.contexts = y.contexts
    BY <2>2, RoutedIs
  <2> HIDE DEF r
  <2>4. BodySound(r)
    BY <1>1, <2>2, <2>3 DEF WriterSound, BodySound, UnwrittenPcs
  <2>5. ContextsSound(r)
    BY <2>2, <2>3 DEF ContextsSound, WrittenPcs
  <2> QED
    BY <1>1, <2>1, <2>2, <2>3, <2>4, <2>5, WritingMoves
<1> QED
  BY <1>2, <1>3

LEMMA DeltaStays ==
  ASSUME ReportsAreSound, ReportInv, NEW a \in Attempts, Delta(a)
  PROVE  ReportInv'
<1> DEFINE x == writer[a]
           made == [x EXCEPT !.pc = "review", !.body = "delta", !.change = "made"]
           left == [x EXCEPT !.pc = "generate", !.change = "failed"]
<1>1. /\ x \in Writer /\ WriterSound(x) /\ x.pc = "delta"
      /\ UNCHANGED <<payload, pinned, attempts, done, versions>> /\ done' \in BOOLEAN
  BY WriterIs DEF Delta, ReportInv, ReportTypeOK
<1>2. Moved(a, made) \/ Moved(a, left)
  BY DEF Delta
<1>3. /\ made \in Writer /\ made.pc = "review" /\ made.i = x.i /\ made.live = x.live
      /\ made.body = "delta" /\ made.change = "made"
      /\ made.contexts = x.contexts /\ made.picked = x.picked
  BY <1>1 DEF Writer, Bodies
<1>4. /\ left \in Writer /\ left.pc = "generate" /\ left.i = x.i /\ left.live = x.live
      /\ left.change = "failed" /\ left.contexts = x.contexts /\ left.picked = x.picked
  BY <1>1 DEF Writer
<1> HIDE DEF made, left
<1>5. BodySound(made) /\ BodySound(left)
  BY <1>3, <1>4 DEF BodySound, UnwrittenPcs
<1>6. ContextsSound(made) /\ ContextsSound(left)
  BY <1>1, <1>3, <1>4 DEF WriterSound, ContextsSound, WrittenPcs
<1>7. CASE Moved(a, made)
  BY <1>1, <1>3, <1>5, <1>6, <1>7, WritingMoves
<1>8. CASE Moved(a, left)
  BY <1>1, <1>4, <1>5, <1>6, <1>8, WritingMoves
<1> QED
  BY <1>2, <1>7, <1>8

LEMMA GenerateStays ==
  ASSUME ReportsAreSound, ReportInv, NEW a \in Attempts, Generate(a)
  PROVE  ReportInv'
<1> DEFINE x == writer[a]
<1>1. /\ x \in Writer /\ WriterSound(x) /\ x.pc = "generate"
      /\ UNCHANGED <<payload, pinned, attempts, done, versions>> /\ done' \in BOOLEAN
  BY WriterIs DEF Generate, ReportInv, ReportTypeOK
<1>2. PICK n \in {1, 2}, q \in Qualities : Moved(a, Drafted([x EXCEPT !.drafts = @ + n], q))
  BY DEF Generate, Qualities
<1> DEFINE y == [x EXCEPT !.drafts = @ + n]
           r == Drafted(y, q)
<1>3. /\ y \in Writer /\ y.i = x.i /\ y.live = x.live /\ y.change = x.change
      /\ y.contexts = x.contexts /\ y.picked = x.picked
  <2>1. x.drafts \in Nat
    BY <1>1 DEF Writer
  <2>2. x.drafts + n \in Nat
    BY <2>1
  <2> QED
    BY <1>1, <2>2 DEF Writer
<1> HIDE DEF y
<1>4. /\ r \in Writer /\ r.i = y.i /\ r.live = y.live /\ r.change = y.change
      /\ r.contexts = y.contexts /\ r.picked = y.picked
      /\ r.pc = "failed" \/ (r.pc = "review" /\ r.body = "generated")
  <2>1. CASE q = "broken"
    <3>1. r = [y EXCEPT !.pc = "failed"]
      BY <2>1 DEF Drafted
    <3> QED
      BY <1>3, <3>1 DEF Writer
  <2>2. CASE q # "broken"
    <3>1. r = [y EXCEPT !.pc = "review", !.body = "generated"]
      BY <2>2 DEF Drafted
    <3> QED
      BY <1>3, <3>1 DEF Writer, Bodies
  <2> QED
    BY <2>1, <2>2
<1>5. Moved(a, r)
  BY <1>2 DEF y
<1> HIDE DEF r
<1>6. BodySound(r)
  BY <1>1, <1>3, <1>4 DEF WriterSound, BodySound, UnwrittenPcs
<1>7. ContextsSound(r)
  BY <1>1, <1>3, <1>4 DEF WriterSound, ContextsSound, WrittenPcs
<1> QED
  BY <1>1, <1>3, <1>4, <1>5, <1>6, <1>7, WritingMoves

LEMMA ReviewStays ==
  ASSUME ReportsAreSound, ReportInv, NEW a \in Attempts, Review(a)
  PROVE  ReportInv'
<1> DEFINE x == writer[a]
           again == [x EXCEPT !.pc = "generate", !.reviews = @ + 1]
           passed == [x EXCEPT !.pc = "persist"]
<1>1. /\ x \in Writer /\ WriterSound(x) /\ x.pc = "review"
      /\ UNCHANGED <<payload, pinned, attempts, done, versions>> /\ done' \in BOOLEAN
  BY WriterIs DEF Review, ReportInv, ReportTypeOK
<1>2. (Moved(a, again) /\ x.change # "made") \/ Moved(a, passed)
  BY DEF Review, Rewrites, Changed
<1>3. /\ again \in Writer /\ again.pc = "generate" /\ again.i = x.i /\ again.live = x.live
      /\ again.change = x.change /\ again.contexts = x.contexts /\ again.picked = x.picked
  <2>1. x.reviews \in Nat
    BY <1>1 DEF Writer
  <2>2. x.reviews + 1 \in Nat
    BY <2>1
  <2> QED
    BY <1>1, <2>2 DEF Writer
<1>4. /\ passed \in Writer /\ passed.pc = "persist" /\ passed.i = x.i /\ passed.live = x.live
      /\ passed.change = x.change /\ passed.body = x.body
      /\ passed.contexts = x.contexts /\ passed.picked = x.picked
  BY <1>1 DEF Writer
<1> HIDE DEF again, passed
<1>5. BodySound(passed) /\ (x.change # "made" => BodySound(again))
  BY <1>1, <1>3, <1>4 DEF WriterSound, BodySound, UnwrittenPcs
<1>6. ContextsSound(again) /\ ContextsSound(passed)
  BY <1>1, <1>3, <1>4 DEF WriterSound, ContextsSound, WrittenPcs
<1>7. CASE Moved(a, again) /\ x.change # "made"
  BY <1>1, <1>3, <1>5, <1>6, <1>7, WritingMoves
<1>8. CASE Moved(a, passed)
  BY <1>1, <1>4, <1>5, <1>6, <1>8, WritingMoves
<1> QED
  BY <1>2, <1>7, <1>8

\* The version that is stored says what was written, and replaces the one before.
LEMMA PersistStays ==
  ASSUME ReportsAreSound, ReportInv, NEW a \in Attempts, PersistReport(a)
  PROVE  ReportInv'
<1> DEFINE x == writer[a]
           r == [x EXCEPT !.pc = "complete"]
           old == Superseded(versions)
           new == NewVersion(a)
<1>1. /\ x \in Writer /\ WriterSound(x) /\ x.pc = "persist" /\ a \in 1 .. attempts
      /\ x.i \in 1 .. Len(Asked) /\ Len(Asked) \in Nat \ {0}
      /\ UNCHANGED <<payload, pinned, attempts, done>>
  BY WriterIs DEF PersistReport
<1>2. /\ versions \in Seq(Version) /\ VersionsSound /\ writer \in [Attempts -> Writer]
      /\ attempts' \in attempts .. payload.tries /\ a \in 1 .. attempts' /\ done' \in BOOLEAN
      /\ pinned' \in [Topics -> {0} \cup Attempts]
  BY <1>1 DEF ReportInv, ReportTypeOK
<1>3. versions' = Append(old, new) /\ Moved(a, r)
  BY DEF PersistReport
<1>4. /\ r \in Writer /\ r.pc = "complete" /\ r.i = x.i /\ r.live = x.live
      /\ r.contexts = x.contexts /\ r.picked = x.picked
  BY <1>1 DEF Writer
<1>5. new \in Version /\ new.attempt = a /\ new.status = "ready" /\ (new.changes <=> new.body = "delta")
  <2>1. x.body \in Bodies /\ Changed(x) \in BOOLEAN
    BY <1>1 DEF Writer, Changed
  <2>2. Changed(x) <=> x.body = "delta"
    BY <1>1 DEF WriterSound, BodySound, Changed
  <2>3. new = [attempt |-> a, status |-> "ready", body |-> x.body, changes |-> Changed(x)]
    BY DEF NewVersion
  <2> HIDE DEF x, new
  <2> QED
    BY <2>1, <2>2, <2>3 DEF Version
<1> HIDE DEF r, x, new
<1>6. /\ old \in Seq(Version) /\ Len(old) = Len(versions) /\ DOMAIN versions = 1 .. Len(versions)
      /\ Len(versions) \in Nat
      /\ \A v \in 1 .. Len(versions) :
           /\ old[v].attempt = versions[v].attempt /\ old[v].status = "superseded"
           /\ old[v].changes = versions[v].changes /\ old[v].body = versions[v].body
  <2>1. DOMAIN versions = 1 .. Len(versions) /\ Len(versions) \in Nat
        /\ \A v \in 1 .. Len(versions) : versions[v] \in Version
    BY <1>2
  <2> DEFINE gone(v) == [versions[v] EXCEPT !.status = "superseded"]
  <2>2. \A v \in 1 .. Len(versions) :
          /\ gone(v) \in Version /\ gone(v).status = "superseded"
          /\ gone(v).attempt = versions[v].attempt /\ gone(v).changes = versions[v].changes
          /\ gone(v).body = versions[v].body
    BY <2>1 DEF Version
  <2>3. old = [v \in 1 .. Len(versions) |-> gone(v)]
    BY <2>1 DEF Superseded
  <2> HIDE DEF old, gone
  <2>4. old \in [1 .. Len(versions) -> Version]
    BY <2>2, <2>3
  <2>5. old \in Seq(Version) /\ Len(old) = Len(versions)
    BY <2>1, <2>4
  <2> QED
    BY <2>1, <2>2, <2>3, <2>5
<1> HIDE DEF old
<1> DEFINE n == Len(versions) + 1
<1>7. /\ versions' \in Seq(Version) /\ Len(versions') = n /\ DOMAIN versions' = 1 .. n
      /\ versions'[n] = new
      /\ \A v \in 1 .. Len(versions) : versions'[v] = old[v]
  BY <1>3, <1>5, <1>6, AppendProperties
<1>8. n \in Nat \ {0} /\ \A v \in 1 .. n : v = n \/ (v \in 1 .. Len(versions) /\ v # n)
  BY <1>6
<1> HIDE DEF n
<1>9. ASSUME NEW v \in 1 .. Len(versions)
      PROVE  /\ versions[v].attempt \in 1 .. attempts /\ versions[v].attempt \in Attempts
             /\ versions[v].attempt # a
             /\ writer[versions[v].attempt].pc \in {"complete", "done"}
             /\ versions[v].changes <=> versions[v].body = "delta"
  <2>1. /\ versions[v].attempt \in 1 .. attempts
        /\ writer[versions[v].attempt].pc \in {"complete", "done"}
        /\ versions[v].changes <=> versions[v].body = "delta"
    BY <1>2, <1>6 DEF VersionsSound, VersionsTellTheTruth
  <2>2. versions[v] \in Version
    BY <1>2, <1>6
  <2>3. versions[v].attempt \in Attempts
    BY <2>2 DEF Version
  <2>4. versions[v].attempt # a
    BY <1>1, <2>1 DEF x
  <2> QED
    BY <2>1, <2>3, <2>4
<1>10. ASSUME NEW v \in 1 .. n
       PROVE  /\ versions'[v].changes <=> versions'[v].body = "delta"
              /\ versions'[v].status = "ready" <=> v = n
              /\ versions'[v].attempt \in 1 .. attempts'
              /\ writer'[versions'[v].attempt].pc \in {"complete", "done"}
  <2>1. writer'[a] = r /\ \A b \in Attempts : b # a => writer'[b] = writer[b]
    BY <1>2, <1>3 DEF Moved
  <2>2. CASE v = n
    BY <1>2, <1>4, <1>5, <1>7, <2>1, <2>2
  <2>3. CASE v \in 1 .. Len(versions) /\ v # n
    <3>1. /\ versions'[v].attempt = versions[v].attempt /\ versions'[v].status = "superseded"
          /\ versions'[v].changes = versions[v].changes /\ versions'[v].body = versions[v].body
      BY <1>6, <1>7, <2>3
    <3>2. attempts' = attempts
      BY <1>1
    <3> QED
      BY <1>9, <2>1, <2>3, <3>1, <3>2
  <2> QED
    BY <1>8, <2>2, <2>3
<1>11. ASSUME NEW v \in 1 .. n, NEW w \in 1 .. n, versions'[v].attempt = versions'[w].attempt
       PROVE  v = w
  <2>1. \A u \in 1 .. Len(versions) : versions'[u].attempt = versions[u].attempt /\ versions'[u].attempt # a
    BY <1>6, <1>7, <1>9
  <2>2. versions'[n].attempt = a
    BY <1>5, <1>7
  <2>3. CASE v = n \/ w = n
    BY <1>8, <1>11, <2>1, <2>2, <2>3
  <2>4. CASE v # n /\ w # n
    <3>1. v \in 1 .. Len(versions) /\ w \in 1 .. Len(versions)
      BY <1>8, <2>4
    <3>2. versions[v].attempt = versions[w].attempt
      BY <1>11, <2>1, <3>1
    <3> QED
      BY <1>2, <1>6, <3>1, <3>2 DEF VersionsSound, VersionsTellTheTruth
  <2> QED
    BY <2>3, <2>4
<1>12. VersionsSound'
  BY <1>7, <1>10, <1>11 DEF VersionsSound, VersionsTellTheTruth
<1>13. WriterSound(r) /\ r.i <= Len(Asked)
  BY <1>1, <1>4 DEF WriterSound, CollectingSound, BodySound, ContextsSound, UnwrittenPcs, WrittenPcs
<1> QED
  BY <1>1, <1>2, <1>3, <1>4, <1>7, <1>12, <1>13, AttemptMoves

LEMMA CompleteStays ==
  ASSUME ReportsAreSound, ReportInv, NEW a \in Attempts, Complete(a)
  PROVE  ReportInv'
<1> DEFINE x == writer[a]
           r == [x EXCEPT !.pc = "done"]
<1>1. /\ x \in Writer /\ WriterSound(x) /\ x.pc = "complete"
      /\ UNCHANGED <<payload, pinned, attempts, versions>> /\ done' \in BOOLEAN
  BY WriterIs DEF Complete, ReportInv, ReportTypeOK
<1>2. Moved(a, r)
  BY DEF Complete
<1>3. /\ r \in Writer /\ r.pc = "done" /\ r.i = x.i /\ r.live = x.live
      /\ r.contexts = x.contexts /\ r.picked = x.picked
  BY <1>1 DEF Writer
<1> HIDE DEF r
<1>4. BodySound(r) /\ ContextsSound(r)
  BY <1>1, <1>3 DEF WriterSound, BodySound, ContextsSound, UnwrittenPcs, WrittenPcs
<1> QED
  BY <1>1, <1>2, <1>3, <1>4, WritingMoves

LEMMA ReportBegins ==
  ASSUME ReportsAreSound, ReportInit
  PROVE  ReportInv
<1>1. /\ payload \in Reports /\ payload.tries \in Nat /\ Asked \in Seq(Topics) /\ Asked # <<>>
  BY DEF ReportsAreSound, ReportInit, Asked
<1>2. \A a \in Attempts : writer[a] = NotBegun
  BY DEF ReportInit
<1>3. Len(Asked) \in Nat \ {0} /\ attempts \in 0 .. payload.tries
  BY <1>1 DEF ReportInit
<1>4. WriterSound(NotBegun)
  <2>1. Slack \in 0 .. 1
    BY DEF Slack
  <2> QED
    BY <2>1, NotBegunIs DEF WriterSound, CollectingSound, BodySound, ContextsSound, UnwrittenPcs, WrittenPcs
<1>5. ReportTypeOK
  <2>1. writer \in [Attempts -> Writer]
    <3>1. NotBegun \in Writer
      BY NotBegunIs
    <3>2. writer = [a \in Attempts |-> NotBegun]
      BY DEF ReportInit
    <3> QED
      BY <3>1, <3>2
  <2>2. pinned \in [Topics -> {0} \cup Attempts] /\ versions \in Seq(Version) /\ done \in BOOLEAN
    <3>1. pinned = [t \in Topics |-> 0] /\ versions = <<>> /\ done = FALSE
      BY DEF ReportInit
    <3>2. <<>> \in Seq(Version)
      OBVIOUS
    <3> QED
      BY <3>1, <3>2
  <2>3. \A a \in Attempts : writer[a].i <= Len(Asked)
    BY <1>2, <1>3, NotBegunIs
  <2> QED
    BY <1>1, <1>3, <2>1, <2>2, <2>3 DEF ReportTypeOK
<1>6. VersionsSound
  BY DEF ReportInit, VersionsSound, VersionsTellTheTruth
<1> QED
  BY <1>2, <1>4, <1>5, <1>6, NotBegunIs DEF ReportInv

LEMMA ReportGoesOn ==
  ASSUME ReportsAreSound, ReportInv, [ReportNext]_reportVars
  PROVE  ReportInv'
<1>1. CASE Start
  BY <1>1, StartStays
<1>2. ASSUME NEW a \in Attempts, ReportStep(a) PROVE ReportInv'
  <2>1. CASE SkipTopic(a)
    BY <2>1, SkipStays
  <2>2. CASE ReadTopic(a)
    BY <2>2, ReadStays
  <2>3. CASE ReadTimesOut(a)
    BY <2>3, TimesOutStays
  <2>4. CASE ReadFails(a)
    BY <2>4, FailsStays
  <2>5. CASE CollectDeferred(a)
    BY <2>5, DeferredStays
  <2>6. CASE SingleContext(a)
    BY <2>6, SingleStays
  <2>7. CASE TopicContext(a)
    BY <2>7, TopicStays
  <2>8. CASE MergeTopics(a)
    BY <2>8, MergeStays
  <2>9. CASE Delta(a)
    BY <2>9, DeltaStays
  <2>10. CASE Generate(a)
    BY <2>10, GenerateStays
  <2>11. CASE Review(a)
    BY <2>11, ReviewStays
  <2>12. CASE PersistReport(a)
    BY <2>12, PersistStays
  <2>13. CASE Complete(a)
    BY <2>13, CompleteStays
  <2> QED
    BY <1>2, <2>1, <2>2, <2>3, <2>4, <2>5, <2>6, <2>7, <2>8, <2>9, <2>10, <2>11, <2>12, <2>13
       DEF ReportStep
<1>3. CASE UNCHANGED reportVars
  <2>1. UNCHANGED <<payload, pinned, attempts, done, versions, writer>>
    BY <1>3 DEF reportVars
  <2>2. ReportTypeOK' /\ VersionsSound'
    BY <2>1 DEF ReportInv, ReportTypeOK, VersionsSound, VersionsTellTheTruth, Asked
  <2>3. ASSUME NEW a \in Attempts PROVE WriterSound(writer[a])'
    <3>1. WriterSound(writer[a])
      BY DEF ReportInv
    <3>2. WriterSound(writer[a])'
      BY <2>1, <3>1, SoundStays
    <3> QED
      BY <3>2
  <2> QED
    BY <2>1, <2>2, <2>3 DEF ReportInv
<1> QED
  BY <1>1, <1>2, <1>3 DEF ReportNext

\* The invariant says that reports agree.
LEMMA ReportInvAgrees ==
  ASSUME ReportsAreSound, ReportInv
  PROVE  ReportsAgree
<1>1. ReportTypeOK /\ VersionsTellTheTruth
  BY DEF ReportInv, VersionsSound
<1>2. ReferencesAreUnique
  BY DEF ReportInv, WriterSound, ContextsSound, WrittenPcs, ReferencesAreUnique, Writing
<1>3. CollectedOnce
  <2> SUFFICES ASSUME NEW a \in Attempts, NEW t \in Topics
               PROVE  writer[a].live[t] <= IF payload.v2 /\ ~Several THEN 2 ELSE 1
    BY DEF CollectedOnce
  <2>1. writer[a].live[t] <= 1 + Slack
    BY DEF ReportInv, WriterSound, CollectingSound
  <2> QED
    BY <2>1 DEF Slack
<1> QED
  BY <1>1, <1>2, <1>3 DEF ReportsAgree

\* The invariant of the attempts at a report holds in every behaviour: where a topic was
\* collected for already, no later place collects for it again, and a version is of an
\* attempt that will not store again.
THEOREM ReportInvariant == ASSUME ReportsAreSound PROVE ReportSpec => []ReportInv
<1>1. ReportInit => ReportInv
  BY ReportBegins
<1>2. ReportInv /\ [ReportNext]_reportVars => ReportInv'
  BY ReportGoesOn
<1> QED
  BY <1>1, <1>2, PTL DEF ReportSpec

\* What a report cites, collects and stores agree, whatever fails, times out or runs side by
\* side: references stand for one document, a topic is collected for once, versions say what
\* they show.
THEOREM ReportsAlwaysAgree == ASSUME ReportsAreSound PROVE ReportSpec => []ReportsAgree
<1>1. ReportInv => ReportsAgree
  BY ReportInvAgrees
<1> QED
  BY <1>1, ReportInvariant, PTL
=============================================================================
