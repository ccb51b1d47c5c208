--------------------------- MODULE LlmBatchProofs ---------------------------
(***************************************************************************)
(* Proofs about LlmBatch for any number of items, batches, processes and   *)
(* attempts: what is queued can be submitted, an item and its batch agree, *)
(* results are kept, and each reaches the domain once.                     *)
(***************************************************************************)
EXTENDS LlmBatch, TLAPS

Holding == {"submitting", "accepted"}
Live == {"submitted"} \cup Terminal

\* What the row of an item says of the batch it is linked to.
RowOf(i) ==
  /\ item[i].status = "absent"
       => item[i].batch = None /\ item[i].attempts = 0
  /\ item[i].status = "queued"
       => item[i].batch = None /\ item[i].attempts < MaxAttempts
  /\ item[i].status = "preparing"
       => /\ item[i].batch \in Batches /\ batch[item[i].batch] = "preparing"
          /\ item[i].attempts < MaxAttempts
  /\ item[i].status = "submitted"
       => item[i].batch \in Batches /\ batch[item[i].batch] = "submitted"
  /\ item[i].status = "completed"
       => /\ item[i].batch \in Batches /\ batch[item[i].batch] \in Live
          /\ provider[item[i].batch].lines[i] = "ok"
  /\ item[i].status = "failed" /\ item[i].batch # None
       => batch[item[i].batch] \in Live
  /\ item[i].applier # None \/ item[i].applied => item[i].status = "completed"
RowInv == \A i \in Items : RowOf(i)

\* What the provider has of a batch: lines once it ended, and requests and
\* successes only of items that are still linked to it.
ProviderOf(b) ==
  /\ provider[b].status \notin Terminal => provider[b].lines = NoLines
  /\ batch[b] = "absent" => provider[b].status = "absent"
  /\ batch[b] \in Live => provider[b].status # "absent"
  /\ batch[b] \in Terminal => provider[b].status \in Terminal
LinkedTo(b, i) ==
  /\ provider[b].status = "running" /\ i \in provider[b].items
       => item[i].batch = b /\ item[i].status \in {"preparing", "submitted"}
  /\ provider[b].lines[i] = "ok"
       => item[i].batch = b /\ item[i].status \in {"preparing", "submitted", "completed"}
ProviderInv == \A b \in Batches : ProviderOf(b)
LinkInv == \A b \in Batches : \A i \in Items : LinkedTo(b, i)

\* What a cycle remembers is no longer true of a batch that went on, but the
\* batch did not go back.
CycleOf(w) ==
  /\ worker[w].pc \in Holding
       => worker[w].batch \in Batches /\ batch[worker[w].batch] = "preparing"
  /\ worker[w].pc = "submitting" => provider[worker[w].batch].status = "absent"
  /\ worker[w].pc = "accepted" => provider[worker[w].batch].status # "absent"
  /\ worker[w].pc = "saving"
       => /\ worker[w].batch \in Batches /\ batch[worker[w].batch] \in Live
          /\ worker[w].seen # "none"
          /\ worker[w].seen \in Terminal
               => provider[worker[w].batch].status = worker[w].seen
  /\ \A b \in worker[w].due : batch[b] \in Live
CycleInv == \A w \in Workers : CycleOf(w)

\* A batch in submission is held by one cycle.
HoldersDiffer ==
  \A w, v \in Workers :
    worker[w].pc \in Holding /\ worker[v].pc \in Holding /\ worker[w].batch = worker[v].batch
      => w = v

IInv ==
  /\ TypeOK /\ RowInv /\ ProviderInv /\ LinkInv /\ CycleInv /\ HoldersDiffer
  /\ NoResultLost /\ JobFollowsItem /\ AppliedOnce /\ PreparingIsHeld

-----------------------------------------------------------------------------
(* Frames: what an action need not be looked at for.                       *)

USE ItemsAssumption, NoneAssumption, BoundsAssumption

\* What a row of worker is made of, one field a fact.
LEMMA CycleFields ==
  ASSUME TypeOK, NEW w \in Workers
  PROVE  /\ worker[w] \in CycleState /\ worker[w].pc \in Steps
         /\ worker[w].batch \in Batches \cup {None}
         /\ worker[w].seen \in {"none", "submitted"} \cup Terminal
         /\ worker[w].due \subseteq Batches /\ worker[w].todo \subseteq Items
BY DEF TypeOK, CycleState

\* What a row of item is made of.
LEMMA ItemFields ==
  ASSUME TypeOK, NEW i \in Items
  PROVE  /\ item[i] \in ItemRow /\ item[i].status \in ItemStatus
         /\ item[i].attempts \in 0 .. MaxAttempts
         /\ item[i].batch \in Batches \cup {None} /\ item[i].applier \in Ids \cup {None}
         /\ item[i].fresh \in BOOLEAN /\ item[i].applied \in BOOLEAN
BY DEF TypeOK, ItemRow

\* A step that writes no item, batch or job.
LEMMA SameTables ==
  ASSUME IInv, UNCHANGED <<item, batch, job, provider, effects>>
  PROVE  /\ RowInv' /\ ProviderInv' /\ LinkInv' /\ NoResultLost'
         /\ JobFollowsItem' /\ AppliedOnce'
<1>1. RowInv'
  BY DEF IInv, RowInv, RowOf
<1>2. ProviderInv' /\ LinkInv'
  BY DEF IInv, ProviderInv, ProviderOf, LinkInv, LinkedTo
<1>3. NoResultLost' /\ JobFollowsItem' /\ AppliedOnce'
  BY DEF IInv, NoResultLost, JobFollowsItem, AppliedOnce
<1> QED
  BY <1>1, <1>2, <1>3

\* A step that moves one cycle, which holds nothing it did not hold before.
LEMMA OneCycleMoves ==
  ASSUME IInv, NEW w \in Workers, UNCHANGED <<batch, provider>>,
         \A v \in Workers \ {w} : worker'[v] = worker[v],
         CycleOf(w)',
         worker'[w].pc \in Holding
           => worker[w].pc \in Holding /\ worker'[w].batch = worker[w].batch
  PROVE  CycleInv' /\ HoldersDiffer'
<1>1. CycleInv'
  <2> SUFFICES ASSUME NEW v \in Workers PROVE CycleOf(v)'
    BY DEF CycleInv
  <2>1. CASE v = w
    BY <2>1
  <2>2. CASE v # w
    BY <2>2 DEF IInv, CycleInv, CycleOf
  <2> QED
    BY <2>1, <2>2
<1>2. HoldersDiffer'
  BY DEF IInv, HoldersDiffer
<1> QED
  BY <1>1, <1>2

\* A step that leaves all cycles where they are.
LEMMA NoCycleMoves ==
  ASSUME IInv, UNCHANGED <<batch, worker>>,
         \A b \in Batches : provider'[b] # provider[b]
           => provider[b].status = "running" /\ provider'[b].status \in Terminal
  PROVE  CycleInv' /\ HoldersDiffer'
<1>1. ASSUME NEW w \in Workers PROVE CycleOf(w)'
  BY <1>1 DEF IInv, CycleInv, CycleOf, Terminal, Holding, Live
<1> QED
  BY <1>1 DEF IInv, CycleInv, HoldersDiffer

\* A step that changes only who applies a result.
LEMMA SameStatus ==
  ASSUME IInv, UNCHANGED <<batch, provider>>,
         \A i \in Items : /\ item'[i].status = item[i].status
                          /\ item'[i].batch = item[i].batch
                          /\ item'[i].attempts = item[i].attempts
                          /\ item'[i].applier # None \/ item'[i].applied
                               => item[i].status = "completed"
  PROVE  RowInv' /\ ProviderInv' /\ LinkInv' /\ NoResultLost'
<1>1. RowInv'
  <2> SUFFICES ASSUME NEW i \in Items PROVE RowOf(i)'
    BY DEF RowInv
  <2> QED
    BY DEF IInv, RowInv, RowOf
<1>2. ProviderInv'
  BY DEF IInv, ProviderInv, ProviderOf
<1>3. LinkInv' /\ NoResultLost'
  BY DEF IInv, LinkInv, LinkedTo, NoResultLost
<1> QED
  BY <1>1, <1>2, <1>3

\* Items in preparation keep their holder when only cycle w moves, and w
\* keeps, settles or abandons what it held.
LEMMA HeldStays ==
  ASSUME IInv, NEW w \in Workers, abandoned \subseteq abandoned',
         \A v \in Workers \ {w} : worker'[v] = worker[v],
         \A i \in Items : item'[i].status = "preparing"
           => item[i].status = "preparing" /\ item'[i].batch = item[i].batch,
         \/ worker[w].pc \notin Holding
         \/ worker'[w].pc \in Holding /\ worker'[w].batch = worker[w].batch
         \/ worker[w].batch \in abandoned'
         \/ \A i \in Items : item[i].batch = worker[w].batch
                              => item'[i].status # "preparing"
  PROVE  PreparingIsHeld'
<1> SUFFICES ASSUME NEW i \in Items, item'[i].status = "preparing"
             PROVE  \/ item'[i].batch \in abandoned'
                    \/ \E v \in Workers : /\ worker'[v].pc \in Holding
                                          /\ worker'[v].batch = item'[i].batch
  BY DEF PreparingIsHeld, Holding
<1>1. item[i].status = "preparing" /\ item'[i].batch = item[i].batch
  OBVIOUS
<1>2. CASE item[i].batch \in abandoned
  BY <1>1, <1>2
<1>3. ASSUME NEW v \in Workers, worker[v].pc \in Holding, worker[v].batch = item[i].batch
      PROVE  \/ item'[i].batch \in abandoned'
             \/ \E u \in Workers : /\ worker'[u].pc \in Holding
                                   /\ worker'[u].batch = item'[i].batch
  <2>1. CASE v = w
    BY <1>1, <1>3, <2>1
  <2>2. CASE v # w
    BY <1>1, <1>3, <2>2
  <2> QED
    BY <2>1, <2>2
<1> QED
  BY <1>1, <1>2, <1>3 DEF IInv, PreparingIsHeld, Holding

LEMMA SameHolders ==
  ASSUME IInv, UNCHANGED <<worker, abandoned>>,
         \A i \in Items : item'[i].status = "preparing"
           => item[i].status = "preparing" /\ item'[i].batch = item[i].batch
  PROVE  PreparingIsHeld'
BY DEF IInv, PreparingIsHeld

LEMMA InitInv == Init => IInv
<1> SUFFICES ASSUME Init PROVE IInv
  OBVIOUS
<1>1. TypeOK
  <2>1. NewItem \in ItemRow
    BY DEF NewItem, ItemRow, ItemStatus
  <2>2. NewCycle \in CycleState
    BY DEF NewCycle, CycleState, Steps
  <2>3. [status |-> "absent", items |-> {}, lines |-> NoLines] \in ProviderBatch
    BY DEF ProviderBatch, NoLines, Lines
  <2> QED
    BY <2>1, <2>2, <2>3 DEF Init, TypeOK, BatchStatus
<1>2. RowInv /\ ProviderInv /\ LinkInv
  BY DEF Init, RowInv, RowOf, ProviderInv, ProviderOf, LinkInv, LinkedTo, NewItem, NoLines,
         Live, Terminal
<1>3. CycleInv /\ HoldersDiffer
  BY DEF Init, CycleInv, CycleOf, HoldersDiffer, NewCycle, Holding
<1>4. NoResultLost /\ JobFollowsItem /\ AppliedOnce
  BY DEF Init, NoResultLost, JobFollowsItem, AppliedOnce, NewItem, NoLines, Terminal
<1>held. PreparingIsHeld
  BY DEF Init, PreparingIsHeld, NewItem
<1> QED
  BY <1>held, <1>1, <1>2, <1>3, <1>4 DEF IInv

-----------------------------------------------------------------------------
(* Producers and the clock.                                                *)

LEMMA EnqueueInv ==
  ASSUME IInv, NEW i \in Items, Enqueue(i)
  PROVE  IInv'
<1>0. TypeOK /\ RowOf(i)
  BY DEF IInv, RowInv
<1>1. item[i].status = "absent" /\ item[i].batch = None /\ item[i].attempts = 0
      /\ item[i].applier = None /\ ~item[i].applied
  BY <1>0 DEF Enqueue, RowOf
<1>2. /\ item'[i] \in ItemRow /\ item'[i].status = "queued" /\ item'[i].batch = None
      /\ item'[i].attempts = 0 /\ item'[i].applier = None /\ ~item'[i].applied
      /\ \A k \in Items \ {i} : item'[k] = item[k]
      /\ UNCHANGED <<batch, due, provider, worker, effects, stray, abandoned>>
  BY <1>0, <1>1 DEF Enqueue, TypeOK, ItemRow, ItemStatus
<1>3. TypeOK'
  BY <1>0, <1>2 DEF Enqueue, TypeOK
<1>4. RowInv'
  BY <1>2 DEF IInv, RowInv, RowOf
<1>5. ProviderInv' /\ LinkInv' /\ NoResultLost'
  <2>1. ProviderInv'
    BY <1>2 DEF IInv, ProviderInv, ProviderOf
  <2>2. \A b \in Batches : /\ ~(provider[b].status = "running" /\ i \in provider[b].items)
                           /\ provider[b].lines[i] # "ok"
    BY <1>1 DEF IInv, LinkInv, LinkedTo
  <2> QED
    BY <1>2, <2>1, <2>2 DEF IInv, LinkInv, LinkedTo, NoResultLost
<1>6. CycleInv' /\ HoldersDiffer'
  BY <1>2, NoCycleMoves
<1>7. JobFollowsItem'
  BY <1>0, <1>1, <1>2 DEF Enqueue, IInv, JobFollowsItem, TypeOK
<1>8. AppliedOnce'
  BY <1>1, <1>2 DEF IInv, AppliedOnce
<1>held. PreparingIsHeld'
  BY <1>2, SameHolders
<1> QED
  BY <1>held, <1>3, <1>4, <1>5, <1>6, <1>7, <1>8 DEF IInv

LEMMA ApplyLeaseExpiresInv ==
  ASSUME IInv, NEW i \in Items, ApplyLeaseExpires(i)
  PROVE  IInv'
<1>0. TypeOK
  BY DEF IInv
<1>1. /\ item'[i] \in ItemRow /\ item'[i].status = item[i].status
      /\ item'[i].batch = item[i].batch /\ item'[i].attempts = item[i].attempts
      /\ item'[i].applier = item[i].applier /\ item'[i].applied = item[i].applied
      /\ \A k \in Items \ {i} : item'[k] = item[k]
      /\ UNCHANGED <<batch, due, job, provider, worker, effects, stray, abandoned>>
  BY <1>0 DEF ApplyLeaseExpires, TypeOK, ItemRow
<1>2. TypeOK'
  BY <1>0, <1>1 DEF ApplyLeaseExpires, TypeOK
<1>3. RowInv' /\ ProviderInv' /\ LinkInv' /\ NoResultLost'
  <2>1. \A k \in Items : item[k].applier # None \/ item[k].applied
                            => item[k].status = "completed"
    BY DEF IInv, RowInv, RowOf
  <2> QED
    BY <1>1, <2>1, SameStatus
<1>4. CycleInv' /\ HoldersDiffer'
  BY <1>1, NoCycleMoves
<1>5. JobFollowsItem' /\ AppliedOnce'
  BY <1>1 DEF IInv, JobFollowsItem, AppliedOnce
<1>held. PreparingIsHeld'
  BY <1>1, SameHolders
<1> QED
  BY <1>held, <1>2, <1>3, <1>4, <1>5 DEF IInv

LEMMA ProviderEndsInv ==
  ASSUME IInv, NEW b \in Batches, ProviderEnds(b)
  PROVE  IInv'
<1>0. TypeOK
  BY DEF IInv
<1>1. PICK status \in Terminal, lines \in [Items -> Lines] :
        /\ provider[b].status = "running"
        /\ \A i \in Items \ provider[b].items : lines[i] = "none"
        /\ provider' = [provider EXCEPT ![b].status = status, ![b].lines = lines]
        /\ UNCHANGED <<item, batch, due, job, worker, effects, stray, abandoned>>
  BY DEF ProviderEnds
<1>2. /\ provider'[b] \in ProviderBatch /\ provider'[b].status = status
      /\ provider'[b].lines = lines
      /\ \A c \in Batches \ {b} : provider'[c] = provider[c]
  BY <1>0, <1>1 DEF TypeOK, ProviderBatch
<1>3. TypeOK'
  BY <1>0, <1>1, <1>2 DEF TypeOK
<1>4. batch[b] \notin Terminal /\ provider[b].lines = NoLines
  BY <1>1 DEF IInv, ProviderInv, ProviderOf, Terminal
<1>5. RowInv'
  <2> SUFFICES ASSUME NEW i \in Items PROVE RowOf(i)'
    BY DEF RowInv
  <2>1. item[i].status = "completed" => item[i].batch # b
    BY <1>4 DEF IInv, RowInv, RowOf, NoLines
  <2>2. RowOf(i) /\ item' = item /\ batch' = batch
    BY <1>1 DEF IInv, RowInv
  <2>3. item[i].batch \in Batches /\ item[i].batch # b
          => provider'[item[i].batch] = provider[item[i].batch]
    BY <1>2
  <2> QED
    BY <2>1, <2>2, <2>3 DEF RowOf
<1>6. ProviderInv'
  BY <1>1, <1>2 DEF IInv, ProviderInv, ProviderOf, Terminal
<1>7. LinkInv'
  <2> SUFFICES ASSUME NEW c \in Batches, NEW i \in Items PROVE LinkedTo(c, i)'
    BY DEF LinkInv
  <2>1. CASE c = b
    <3>1. lines[i] = "ok" => i \in provider[b].items
      BY <1>1
    <3> QED
      BY <1>1, <1>2, <2>1, <3>1 DEF IInv, LinkInv, LinkedTo, Terminal
  <2>2. CASE c # b
    <3>1. provider'[c] = provider[c] /\ item' = item /\ LinkedTo(c, i)
      BY <1>1, <1>2, <2>2 DEF IInv, LinkInv
    <3> QED
      BY <3>1 DEF LinkedTo
  <2> QED
    BY <2>1, <2>2
<1>8. CycleInv' /\ HoldersDiffer'
  BY <1>1, <1>2, NoCycleMoves
<1>9. NoResultLost'
  BY <1>1, <1>2, <1>4 DEF IInv, NoResultLost
<1>10. JobFollowsItem' /\ AppliedOnce'
  BY <1>1 DEF IInv, JobFollowsItem, AppliedOnce
<1>held. PreparingIsHeld'
  BY <1>1, SameHolders
<1> QED
  BY <1>held, <1>3, <1>5, <1>6, <1>7, <1>8, <1>9, <1>10 DEF IInv

LEMMA PollTimeComesInv ==
  ASSUME IInv, NEW b \in Batches, PollTimeComes(b)
  PROVE  IInv'
<1>1. UNCHANGED <<item, batch, job, provider, worker, effects, stray, abandoned>> /\ due' = due \cup {b}
  BY DEF PollTimeComes
<1>2. TypeOK'
  BY <1>1 DEF IInv, TypeOK
<1>held. PreparingIsHeld'
  BY <1>1, SameHolders
<1> QED
  BY <1>held, <1>1, <1>2, SameTables, NoCycleMoves DEF IInv

-----------------------------------------------------------------------------
(* Submission.                                                             *)

\* A batch no submission has used is nowhere.
LEMMA AbsentBatch ==
  ASSUME IInv, NEW b \in Batches, batch[b] = "absent"
  PROVE  /\ provider[b].status = "absent" /\ provider[b].lines = NoLines
         /\ \A i \in Items : item[i].batch # b
         /\ \A v \in Workers : /\ worker[v].pc \in Holding => worker[v].batch # b
                               /\ worker[v].pc = "saving" => worker[v].batch # b
                               /\ b \notin worker[v].due
<1>1. provider[b].status = "absent" /\ provider[b].lines = NoLines
  BY DEF IInv, ProviderInv, ProviderOf, Terminal
<1>2. ASSUME NEW i \in Items PROVE item[i].batch # b
  <2>1. item[i].status \in ItemStatus /\ RowOf(i) /\ b # None
    BY ItemFields DEF IInv, RowInv
  <2> QED
    BY <2>1 DEF RowOf, ItemStatus, Live, Terminal
<1>3. ASSUME NEW v \in Workers
      PROVE  /\ worker[v].pc \in Holding => worker[v].batch # b
             /\ worker[v].pc = "saving" => worker[v].batch # b
             /\ b \notin worker[v].due
  BY DEF IInv, CycleInv, CycleOf, Live, Terminal
<1> QED
  BY <1>1, <1>2, <1>3

LEMMA ClaimSubmissionInv ==
  ASSUME IInv, NEW w \in Workers, ClaimSubmission(w)
  PROVE  IInv'
<1> DEFINE b == NewBatch
<1>0. TypeOK
  BY DEF IInv
<1>1. b \in Batches /\ batch[b] = "absent"
  BY DEF ClaimSubmission, Unused, NewBatch
<1> HIDE DEF b
<1>2. PICK S \in SUBSET Items :
        /\ \A i \in S : item[i].status = "queued" /\ item[i].attempts < MaxAttempts
        /\ batch' = [batch EXCEPT ![b] = "preparing"]
        /\ item' = [i \in Items |->
                      IF i \in S THEN [item[i] EXCEPT !.batch = b, !.status = "preparing"]
                      ELSE item[i]]
        /\ worker' = [worker EXCEPT ![w].pc = "submitting", ![w].batch = b]
        /\ UNCHANGED <<due, job, provider, effects, stray, abandoned>>
  BY DEF ClaimSubmission, Chosen, Queued, b
<1>3. /\ provider[b].status = "absent" /\ provider[b].lines = NoLines
      /\ \A i \in Items : item[i].batch # b
      /\ \A v \in Workers : /\ worker[v].pc \in Holding => worker[v].batch # b
                            /\ worker[v].pc = "saving" => worker[v].batch # b
                            /\ b \notin worker[v].due
  BY <1>1, AbsentBatch
<1>4. /\ \A c \in Batches \ {b} : batch'[c] = batch[c]
      /\ batch'[b] = "preparing" /\ batch' \in [Batches -> BatchStatus]
  BY <1>0, <1>1, <1>2 DEF TypeOK, BatchStatus
<1>5. ASSUME NEW i \in Items
      PROVE  /\ item'[i] \in ItemRow /\ item'[i].applied = item[i].applied
             /\ item'[i].applier = item[i].applier
             /\ item'[i].attempts = item[i].attempts
             /\ i \in S => item'[i].status = "preparing" /\ item'[i].batch = b
             /\ i \notin S => item'[i] = item[i]
  <2>1. item[i] \in ItemRow
    BY <1>0, ItemFields
  <2>2. "preparing" \in ItemStatus
    BY DEF ItemStatus
  <2> QED
    BY <1>1, <1>2, <2>1, <2>2 DEF ItemRow
<1>6. /\ worker'[w] \in CycleState /\ worker'[w].pc = "submitting" /\ worker'[w].batch = b
      /\ worker'[w].due = worker[w].due
      /\ \A v \in Workers \ {w} : worker'[v] = worker[v]
  <2>1. /\ worker'[w] = [worker[w] EXCEPT !.pc = "submitting", !.batch = b]
        /\ \A v \in Workers \ {w} : worker'[v] = worker[v]
    BY <1>0, <1>2 DEF TypeOK
  <2>2. worker[w] \in CycleState /\ "submitting" \in Steps
    BY <1>0, CycleFields DEF Steps
  <2> QED
    BY <1>1, <2>1, <2>2 DEF CycleState
<1>7. TypeOK'
  BY <1>0, <1>2, <1>4, <1>5, <1>6 DEF TypeOK
<1>8. RowInv'
  <2> SUFFICES ASSUME NEW i \in Items PROVE RowOf(i)'
    BY DEF RowInv
  <2>1. CASE i \in S
    <3>1. RowOf(i) /\ item[i].status = "queued"
      BY <1>2, <2>1 DEF IInv, RowInv
    <3> QED
      BY <1>1, <1>2, <1>4, <1>5, <2>1, <3>1 DEF RowOf
  <2>2. CASE i \notin S
    <3>1. item'[i] = item[i] /\ RowOf(i) /\ item[i].batch # b /\ provider' = provider
      BY <1>2, <1>3, <1>5, <2>2 DEF IInv, RowInv
    <3>2. item[i].batch \in Batches \cup {None}
      BY <1>0, ItemFields
    <3> QED
      BY <1>4, <3>1, <3>2 DEF RowOf
  <2> QED
    BY <2>1, <2>2
<1>9. ProviderInv'
  BY <1>2, <1>3, <1>4 DEF IInv, ProviderInv, ProviderOf, Live, Terminal
<1>10. LinkInv'
  <2> SUFFICES ASSUME NEW c \in Batches, NEW i \in Items PROVE LinkedTo(c, i)'
    BY DEF LinkInv
  <2>1. LinkedTo(c, i) /\ provider' = provider
    BY <1>2 DEF IInv, LinkInv
  <2>2. i \in S => item[i].status = "queued"
    BY <1>2
  <2> QED
    BY <1>5, <2>1, <2>2 DEF LinkedTo
<1>11. CycleInv'
  <2> SUFFICES ASSUME NEW v \in Workers PROVE CycleOf(v)'
    BY DEF CycleInv
  <2>1. CycleOf(v) /\ provider' = provider /\ worker[v].due \subseteq Batches
    BY <1>0, <1>2, CycleFields DEF IInv, CycleInv
  <2>2. CASE v = w
    BY <1>1, <1>3, <1>4, <1>6, <2>1, <2>2 DEF CycleOf
  <2>3. CASE v # w
    BY <1>3, <1>4, <1>6, <2>1, <2>3 DEF CycleOf
  <2> QED
    BY <2>2, <2>3
<1>12. HoldersDiffer'
  BY <1>3, <1>6 DEF IInv, HoldersDiffer
<1>13. NoResultLost'
  <2> SUFFICES ASSUME NEW c \in Batches, batch'[c] \in Terminal, NEW i \in Items,
                      provider'[c].lines[i] = "ok"
               PROVE  item'[i].status = "completed" /\ item'[i].batch = c
    BY DEF NoResultLost
  <2>1. c # b
    BY <1>4 DEF Terminal
  <2>2. item[i].status = "completed" /\ item[i].batch = c
    BY <1>2, <1>4, <2>1 DEF IInv, NoResultLost
  <2> QED
    BY <1>2, <1>5, <2>2
<1>14. JobFollowsItem' /\ AppliedOnce'
  <2>1. \A i \in Items : /\ item'[i].applied = item[i].applied
                         /\ item'[i].status = "absent" <=> item[i].status = "absent"
    BY <1>2, <1>5
  <2> QED
    BY <1>2, <2>1 DEF IInv, JobFollowsItem, AppliedOnce
<1>held. PreparingIsHeld'
  <2> SUFFICES ASSUME NEW i \in Items, item'[i].status = "preparing"
               PROVE  \/ item'[i].batch \in abandoned'
                      \/ \E v \in Workers : worker'[v].pc \in Holding
                                             /\ worker'[v].batch = item'[i].batch
    BY DEF PreparingIsHeld, Holding
  <2>1. CASE i \in S
    BY <1>5, <1>6, <2>1 DEF Holding
  <2>2. CASE i \notin S
    <3>1. item'[i] = item[i] /\ abandoned' = abandoned
      BY <1>2, <1>5, <2>2
    <3>2. ASSUME NEW v \in Workers, worker[v].pc \in Holding, worker[v].batch = item[i].batch
          PROVE  worker'[v].pc \in Holding /\ worker'[v].batch = item'[i].batch
      <4>1. v # w
        BY <3>2 DEF ClaimSubmission, Holding
      <4> QED
        BY <1>6, <3>1, <3>2, <4>1
    <3> QED
      BY <3>1, <3>2 DEF IInv, PreparingIsHeld, Holding
  <2> QED
    BY <2>1, <2>2
<1> QED
  BY <1>held, <1>7, <1>8, <1>9, <1>10, <1>11, <1>12, <1>13, <1>14 DEF IInv

LEMMA NothingToSubmitInv ==
  ASSUME IInv, NEW w \in Workers, NothingToSubmit(w)
  PROVE  IInv'
<1>0. TypeOK
  BY DEF IInv
<1>1. worker[w].pc = "idle" /\ UNCHANGED <<item, batch, due, job, provider, effects, stray, abandoned>>
  BY DEF NothingToSubmit
<1>2. /\ worker'[w] \in CycleState /\ worker'[w].pc = "claiming"
      /\ worker'[w].due = worker[w].due
      /\ \A v \in Workers \ {w} : worker'[v] = worker[v]
  BY <1>0, CycleFields DEF NothingToSubmit, TypeOK, CycleState, Steps
<1>3. TypeOK'
  BY <1>0, <1>1, <1>2 DEF TypeOK, NothingToSubmit
<1>4. CycleOf(w)'
  BY <1>1, <1>2 DEF IInv, CycleInv, CycleOf, Holding
<1>5. CycleInv' /\ HoldersDiffer'
  BY <1>1, <1>2, <1>4, OneCycleMoves DEF Holding
<1>held. PreparingIsHeld'
  <2>1. worker[w].pc \notin Holding
    BY DEF NothingToSubmit, Holding
  <2> QED
    BY <1>1, <1>2, <2>1, HeldStays
<1> QED
  BY <1>held, <1>1, <1>3, <1>5, SameTables DEF IInv

\* The batch a cycle submits: its items are in preparation.
LEMMA HeldBatch ==
  ASSUME IInv, NEW w \in Workers, worker[w].pc \in Holding
  PROVE  /\ worker[w].batch \in Batches /\ batch[worker[w].batch] = "preparing"
         /\ \A i \in Items : item[i].batch = worker[w].batch
              => item[i].status = "preparing" /\ item[i].attempts < MaxAttempts
         /\ \A v \in Workers \ {w} : worker[v].pc \in Holding
                                       => worker[v].batch # worker[w].batch
         /\ \A v \in Workers : /\ worker[v].pc = "saving" => worker[v].batch # worker[w].batch
                               /\ worker[w].batch \notin worker[v].due
<1>1. worker[w].batch \in Batches /\ batch[worker[w].batch] = "preparing"
  BY DEF IInv, CycleInv, CycleOf
<1>2. ASSUME NEW i \in Items, item[i].batch = worker[w].batch
      PROVE  item[i].status = "preparing" /\ item[i].attempts < MaxAttempts
  <2>1. item[i].status \in ItemStatus /\ RowOf(i) /\ worker[w].batch # None
    BY <1>1, ItemFields DEF IInv, RowInv
  <2> QED
    BY <1>1, <1>2, <2>1 DEF RowOf, ItemStatus, Live, Terminal
<1>3. \A v \in Workers \ {w} : worker[v].pc \in Holding => worker[v].batch # worker[w].batch
  BY DEF IInv, HoldersDiffer
<1>4. \A v \in Workers : /\ worker[v].pc = "saving" => worker[v].batch # worker[w].batch
                         /\ worker[w].batch \notin worker[v].due
  BY <1>1 DEF IInv, CycleInv, CycleOf, Live, Terminal
<1> QED
  BY <1>1, <1>2, <1>3, <1>4

\* A lost answer leaves the tables and the cycle as they are.
LEMMA SubmitLostInv ==
  ASSUME IInv, NEW w \in Workers, SubmitLost(w)
  PROVE  IInv'
<1>1. UNCHANGED <<item, batch, due, job, provider, worker, effects, abandoned>>
  BY DEF SubmitLost
<1>2. TypeOK'
  <2>1. stray' \subseteq Items
    BY DEF SubmitLost, IInv, TypeOK
  <2> QED
    BY <1>1, <2>1 DEF IInv, TypeOK
<1>3. PreparingIsHeld'
  BY <1>1, SameHolders
<1> QED
  BY <1>1, <1>2, <1>3, SameTables, NoCycleMoves DEF IInv

LEMMA SubmitAcceptedInv ==
  ASSUME IInv, NEW w \in Workers, SubmitAccepted(w)
  PROVE  IInv'
<1> DEFINE b == worker[w].batch
<1>0. TypeOK
  BY DEF IInv
<1>1. /\ worker[w].pc = "submitting" /\ worker[w].pc \in Holding
      /\ provider' = [provider EXCEPT ![b].status = "running",
                                      ![b].items = {i \in Items : item[i].batch = b}]
      /\ worker' = [worker EXCEPT ![w].pc = "accepted"]
      /\ UNCHANGED <<item, batch, due, job, effects, stray, abandoned>>
  BY DEF SubmitAccepted, Holding
<1>2. b \in Batches /\ batch[b] = "preparing" /\ provider[b].status = "absent"
  BY <1>1, HeldBatch DEF IInv, CycleInv, CycleOf
<1>3. \A i \in Items : item[i].batch = b => item[i].status = "preparing"
  BY <1>1, HeldBatch
<1>4. /\ worker'[w] \in CycleState /\ worker'[w].pc = "accepted" /\ worker'[w].batch = b
      /\ worker'[w].due = worker[w].due
      /\ \A v \in Workers \ {w} : worker'[v] = worker[v]
  BY <1>0, <1>1, CycleFields DEF TypeOK, CycleState, Steps
<1>5. \A v \in Workers \ {w} : worker[v].pc \in Holding => worker[v].batch # b
  BY <1>1, HeldBatch
<1>6. \A v \in Workers : worker[v].pc = "saving" => worker[v].batch # b
  BY <1>1, HeldBatch
<1> HIDE DEF b
<1>7. /\ provider'[b] \in ProviderBatch /\ provider'[b].status = "running"
      /\ provider'[b].items = {i \in Items : item[i].batch = b}
      /\ provider'[b].lines = provider[b].lines
      /\ \A c \in Batches \ {b} : provider'[c] = provider[c]
  BY <1>0, <1>1, <1>2 DEF TypeOK, ProviderBatch
<1>8. TypeOK'
  BY <1>0, <1>1, <1>4, <1>7 DEF TypeOK
<1>9. \A c \in Batches : provider'[c].lines = provider[c].lines
  BY <1>7
<1>10. RowInv'
  <2> SUFFICES ASSUME NEW i \in Items PROVE RowOf(i)'
    BY DEF RowInv
  <2>1. RowOf(i) /\ item' = item /\ batch' = batch
    BY <1>1 DEF IInv, RowInv
  <2> QED
    BY <1>9, <2>1 DEF RowOf
<1>11. ProviderInv'
  BY <1>1, <1>2, <1>7 DEF IInv, ProviderInv, ProviderOf, Live, Terminal
<1>12. LinkInv'
  <2> SUFFICES ASSUME NEW c \in Batches, NEW i \in Items PROVE LinkedTo(c, i)'
    BY DEF LinkInv
  <2>1. LinkedTo(c, i) /\ item' = item
    BY <1>1 DEF IInv, LinkInv
  <2>2. CASE c = b
    BY <1>3, <1>7, <2>1, <2>2 DEF LinkedTo
  <2>3. CASE c # b
    <3>1. provider'[c] = provider[c]
      BY <1>7, <2>3
    <3> QED
      BY <2>1, <3>1 DEF LinkedTo
  <2> QED
    BY <2>2, <2>3
<1>13. CycleInv'
  <2> SUFFICES ASSUME NEW v \in Workers PROVE CycleOf(v)'
    BY DEF CycleInv
  <2>1. CycleOf(v) /\ batch' = batch
    BY <1>1 DEF IInv, CycleInv
  <2>2. CASE v = w
    BY <1>2, <1>4, <1>7, <2>1, <2>2 DEF CycleOf, Holding
  <2>3. CASE v # w
    BY <1>4, <1>5, <1>6, <1>7, <2>1, <2>3 DEF CycleOf, Holding
  <2> QED
    BY <2>2, <2>3
<1>14. HoldersDiffer'
  BY <1>4, <1>5 DEF IInv, HoldersDiffer
<1>15. NoResultLost' /\ JobFollowsItem' /\ AppliedOnce'
  <2>1. NoResultLost'
    BY <1>1, <1>9 DEF IInv, NoResultLost
  <2> QED
    BY <1>1, <2>1 DEF IInv, JobFollowsItem, AppliedOnce
<1>held. PreparingIsHeld'
  BY <1>1, <1>4, HeldStays DEF Holding, b
<1> QED
  BY <1>held, <1>8, <1>10, <1>11, <1>12, <1>13, <1>14, <1>15 DEF IInv

LEMMA SubmitRefusedInv ==
  ASSUME IInv, NEW w \in Workers, SubmitRefused(w)
  PROVE  IInv'
<1> DEFINE b == worker[w].batch
<1>0. TypeOK
  BY DEF IInv
<1>1. /\ worker[w].pc = "submitting" /\ worker[w].pc \in Holding
      /\ batch' = [batch EXCEPT ![b] = IF @ = "preparing" THEN "failed" ELSE @]
      /\ item' = [i \in Items |-> IF Preparing(i, b) THEN Rejected(item[i]) ELSE item[i]]
      /\ worker' = [worker EXCEPT ![w].pc = "claiming", ![w].batch = None]
      /\ UNCHANGED <<due, job, provider, effects, stray, abandoned>>
  BY DEF SubmitRefused, Holding
<1>2. /\ b \in Batches /\ batch[b] = "preparing"
      /\ \A i \in Items : item[i].batch = b
           => item[i].status = "preparing" /\ item[i].attempts < MaxAttempts
      /\ \A v \in Workers : worker[v].pc = "saving" => worker[v].batch # b
      /\ \A v \in Workers : b \notin worker[v].due
      /\ \A v \in Workers \ {w} : worker[v].pc \in Holding => worker[v].batch # b
  BY <1>1, HeldBatch
<1>3. provider[b].status = "absent" /\ provider[b].lines = NoLines
  BY <1>1, <1>2 DEF IInv, CycleInv, CycleOf, ProviderInv, ProviderOf, Terminal
<1> HIDE DEF b
<1>4. /\ \A c \in Batches \ {b} : batch'[c] = batch[c]
      /\ batch'[b] = "failed" /\ batch' \in [Batches -> BatchStatus]
  BY <1>0, <1>1, <1>2 DEF TypeOK, BatchStatus
<1>5. ASSUME NEW i \in Items
      PROVE  /\ item'[i] \in ItemRow /\ item'[i].applied = item[i].applied
             /\ item'[i].applier = item[i].applier
             /\ item'[i].status = "absent" <=> item[i].status = "absent"
             /\ item[i].batch = b =>
                  /\ item'[i].batch = None
                  /\ \/ item'[i].status = "queued" /\ item'[i].attempts < MaxAttempts
                     \/ item'[i].status = "failed"
             /\ item[i].batch # b => item'[i] = item[i]
  <2>1. item[i] \in ItemRow /\ item[i].attempts \in 0 .. MaxAttempts
    BY <1>0, ItemFields
  <2>2. {"queued", "failed"} \subseteq ItemStatus
    BY DEF ItemStatus
  <2>3. CASE item[i].batch = b
    <3>1. item'[i] = Rejected(item[i]) /\ item[i].status = "preparing"
      BY <1>1, <1>2, <2>3 DEF Preparing
    <3>2. item[i].attempts + 1 \in 0 .. MaxAttempts
      BY <1>2, <2>1, <2>3
    <3> QED
      BY <2>1, <2>2, <2>3, <3>1, <3>2 DEF Rejected, ItemRow
  <2>4. CASE item[i].batch # b
    BY <1>1, <2>1, <2>4 DEF Preparing
  <2> QED
    BY <2>3, <2>4
<1>6. /\ worker'[w] \in CycleState /\ worker'[w].pc = "claiming"
      /\ worker'[w].due = worker[w].due
      /\ \A v \in Workers \ {w} : worker'[v] = worker[v]
  <2>1. /\ worker'[w] = [worker[w] EXCEPT !.pc = "claiming", !.batch = None]
        /\ \A v \in Workers \ {w} : worker'[v] = worker[v]
    BY <1>0, <1>1 DEF TypeOK
  <2>2. worker[w] \in CycleState /\ "claiming" \in Steps
    BY <1>0, CycleFields DEF Steps
  <2> QED
    BY <2>1, <2>2 DEF CycleState
<1>7. TypeOK'
  BY <1>0, <1>1, <1>4, <1>5, <1>6 DEF TypeOK
<1>8. RowInv'
  <2> SUFFICES ASSUME NEW i \in Items PROVE RowOf(i)'
    BY DEF RowInv
  <2>1. CASE item[i].batch = b
    <3>1. RowOf(i) /\ item[i].status = "preparing"
      BY <1>2, <2>1 DEF IInv, RowInv
    <3> QED
      BY <1>5, <2>1, <3>1 DEF RowOf
  <2>2. CASE item[i].batch # b
    <3>1. item'[i] = item[i] /\ RowOf(i) /\ provider' = provider
      BY <1>1, <1>5, <2>2 DEF IInv, RowInv
    <3>2. item[i].batch \in Batches \cup {None}
      BY <1>0, ItemFields
    <3> QED
      BY <1>4, <2>2, <3>1, <3>2 DEF RowOf
  <2> QED
    BY <2>1, <2>2
<1>9. ProviderInv'
  BY <1>1, <1>2, <1>4 DEF IInv, ProviderInv, ProviderOf, Live, Terminal
<1>10. LinkInv'
  <2> SUFFICES ASSUME NEW c \in Batches, NEW i \in Items PROVE LinkedTo(c, i)'
    BY DEF LinkInv
  <2>1. LinkedTo(c, i) /\ provider' = provider
    BY <1>1 DEF IInv, LinkInv
  <2>2. CASE c = b
    BY <1>3, <2>1, <2>2 DEF LinkedTo, NoLines
  <2>3. CASE c # b
    BY <1>5, <2>1, <2>3 DEF LinkedTo
  <2> QED
    BY <2>2, <2>3
<1>11. CycleInv'
  <2> SUFFICES ASSUME NEW v \in Workers PROVE CycleOf(v)'
    BY DEF CycleInv
  <2>1. CycleOf(v) /\ provider' = provider /\ worker[v].due \subseteq Batches
    BY <1>0, <1>1, CycleFields DEF IInv, CycleInv
  <2>2. CASE v = w
    BY <1>2, <1>4, <1>6, <2>1, <2>2 DEF CycleOf, Holding
  <2>3. CASE v # w
    BY <1>2, <1>4, <1>6, <2>1, <2>3 DEF CycleOf, Holding
  <2> QED
    BY <2>2, <2>3
<1>12. HoldersDiffer'
  BY <1>6 DEF IInv, HoldersDiffer, Holding
<1>13. NoResultLost'
  <2> SUFFICES ASSUME NEW c \in Batches, batch'[c] \in Terminal, NEW i \in Items,
                      provider'[c].lines[i] = "ok"
               PROVE  item'[i].status = "completed" /\ item'[i].batch = c
    BY DEF NoResultLost
  <2>1. c # b
    BY <1>4 DEF Terminal
  <2>2. item[i].status = "completed" /\ item[i].batch = c
    BY <1>1, <1>4, <2>1 DEF IInv, NoResultLost
  <2> QED
    BY <1>5, <2>1, <2>2
<1>14. JobFollowsItem' /\ AppliedOnce'
  BY <1>1, <1>5 DEF IInv, JobFollowsItem, AppliedOnce
<1>held. PreparingIsHeld'
  <2>1. \A i \in Items : item[i].batch = b => item'[i].status # "preparing"
    BY <1>5
  <2>2. \A i \in Items : item'[i].status = "preparing"
          => item[i].status = "preparing" /\ item'[i].batch = item[i].batch
    BY <1>5, <2>1
  <2> QED
    BY <1>1, <1>6, <2>1, <2>2, HeldStays DEF b
<1> QED
  BY <1>held, <1>7, <1>8, <1>9, <1>10, <1>11, <1>12, <1>13, <1>14 DEF IInv

LEMMA MarkSubmittedInv ==
  ASSUME IInv, NEW w \in Workers, MarkSubmitted(w)
  PROVE  IInv'
<1> DEFINE b == worker[w].batch
<1>0. TypeOK
  BY DEF IInv
<1>1. /\ worker[w].pc = "accepted" /\ worker[w].pc \in Holding
      /\ batch' = [batch EXCEPT ![b] = IF @ = "preparing" THEN "submitted" ELSE @]
      /\ item' = [i \in Items |->
                    IF Preparing(i, b)
                    THEN [item[i] EXCEPT !.status = "submitted", !.attempts = @ + 1]
                    ELSE item[i]]
      /\ worker' = [worker EXCEPT ![w].pc = "claiming", ![w].batch = None]
      /\ UNCHANGED <<due, job, provider, effects, stray, abandoned>>
  BY DEF MarkSubmitted, Holding
<1>2. /\ b \in Batches /\ batch[b] = "preparing"
      /\ \A i \in Items : item[i].batch = b
           => item[i].status = "preparing" /\ item[i].attempts < MaxAttempts
      /\ \A v \in Workers : worker[v].pc = "saving" => worker[v].batch # b
      /\ \A v \in Workers : b \notin worker[v].due
      /\ \A v \in Workers \ {w} : worker[v].pc \in Holding => worker[v].batch # b
  BY <1>1, HeldBatch
<1>3. provider[b].status # "absent"
  BY <1>1 DEF IInv, CycleInv, CycleOf
<1> HIDE DEF b
<1>4. /\ \A c \in Batches \ {b} : batch'[c] = batch[c]
      /\ batch'[b] = "submitted" /\ batch' \in [Batches -> BatchStatus]
  BY <1>0, <1>1, <1>2 DEF TypeOK, BatchStatus
<1>5. ASSUME NEW i \in Items
      PROVE  /\ item'[i] \in ItemRow /\ item'[i].applied = item[i].applied
             /\ item'[i].applier = item[i].applier
             /\ item'[i].status = "absent" <=> item[i].status = "absent"
             /\ item'[i].batch = item[i].batch
             /\ item[i].batch = b => item'[i].status = "submitted"
             /\ item[i].batch # b => item'[i] = item[i]
  <2>1. item[i] \in ItemRow /\ item[i].attempts \in 0 .. MaxAttempts
    BY <1>0, ItemFields
  <2>2. "submitted" \in ItemStatus
    BY DEF ItemStatus
  <2>3. CASE item[i].batch = b
    <3>1. /\ item'[i] = [item[i] EXCEPT !.status = "submitted",
                                        !.attempts = item[i].attempts + 1]
          /\ item[i].status = "preparing"
      BY <1>1, <1>2, <2>3 DEF Preparing
    <3>2. item[i].attempts + 1 \in 0 .. MaxAttempts
      BY <1>2, <2>1, <2>3
    <3> QED
      BY <2>1, <2>2, <2>3, <3>1, <3>2 DEF ItemRow
  <2>4. CASE item[i].batch # b
    BY <1>1, <2>1, <2>4 DEF Preparing
  <2> QED
    BY <2>3, <2>4
<1>6. /\ worker'[w] \in CycleState /\ worker'[w].pc = "claiming"
      /\ worker'[w].due = worker[w].due
      /\ \A v \in Workers \ {w} : worker'[v] = worker[v]
  <2>1. /\ worker'[w] = [worker[w] EXCEPT !.pc = "claiming", !.batch = None]
        /\ \A v \in Workers \ {w} : worker'[v] = worker[v]
    BY <1>0, <1>1 DEF TypeOK
  <2>2. worker[w] \in CycleState /\ "claiming" \in Steps
    BY <1>0, CycleFields DEF Steps
  <2> QED
    BY <2>1, <2>2 DEF CycleState
<1>7. TypeOK'
  BY <1>0, <1>1, <1>4, <1>5, <1>6 DEF TypeOK
<1>8. RowInv'
  <2> SUFFICES ASSUME NEW i \in Items PROVE RowOf(i)'
    BY DEF RowInv
  <2>1. CASE item[i].batch = b
    <3>1. RowOf(i) /\ item[i].status = "preparing"
      BY <1>2, <2>1 DEF IInv, RowInv
    <3> QED
      BY <1>2, <1>4, <1>5, <2>1, <3>1 DEF RowOf
  <2>2. CASE item[i].batch # b
    <3>1. item'[i] = item[i] /\ RowOf(i) /\ provider' = provider
      BY <1>1, <1>5, <2>2 DEF IInv, RowInv
    <3>2. item[i].batch \in Batches \cup {None}
      BY <1>0, ItemFields
    <3> QED
      BY <1>4, <2>2, <3>1, <3>2 DEF RowOf
  <2> QED
    BY <2>1, <2>2
<1>9. ProviderInv'
  BY <1>1, <1>2, <1>3, <1>4 DEF IInv, ProviderInv, ProviderOf, Live, Terminal
<1>10. LinkInv'
  <2> SUFFICES ASSUME NEW c \in Batches, NEW i \in Items PROVE LinkedTo(c, i)'
    BY DEF LinkInv
  <2>1. LinkedTo(c, i) /\ provider' = provider
    BY <1>1 DEF IInv, LinkInv
  <2> QED
    BY <1>5, <2>1 DEF LinkedTo
<1>11. CycleInv'
  <2> SUFFICES ASSUME NEW v \in Workers PROVE CycleOf(v)'
    BY DEF CycleInv
  <2>1. CycleOf(v) /\ provider' = provider /\ worker[v].due \subseteq Batches
    BY <1>0, <1>1, CycleFields DEF IInv, CycleInv
  <2>2. CASE v = w
    BY <1>2, <1>4, <1>6, <2>1, <2>2 DEF CycleOf, Holding
  <2>3. CASE v # w
    BY <1>2, <1>4, <1>6, <2>1, <2>3 DEF CycleOf, Holding
  <2> QED
    BY <2>2, <2>3
<1>12. HoldersDiffer'
  BY <1>6 DEF IInv, HoldersDiffer, Holding
<1>13. NoResultLost'
  <2> SUFFICES ASSUME NEW c \in Batches, batch'[c] \in Terminal, NEW i \in Items,
                      provider'[c].lines[i] = "ok"
               PROVE  item'[i].status = "completed" /\ item'[i].batch = c
    BY DEF NoResultLost
  <2>1. c # b
    BY <1>4 DEF Terminal
  <2>2. item[i].status = "completed" /\ item[i].batch = c
    BY <1>1, <1>4, <2>1 DEF IInv, NoResultLost
  <2> QED
    BY <1>5, <2>1, <2>2
<1>14. JobFollowsItem' /\ AppliedOnce'
  <2>1. \A i \in Items : /\ item'[i].applied = item[i].applied
                         /\ item'[i].status = "absent" <=> item[i].status = "absent"
    BY <1>5
  <2>2. UNCHANGED <<job, effects>>
    BY <1>1
  <2> QED
    BY <2>1, <2>2 DEF IInv, JobFollowsItem, AppliedOnce
<1>held. PreparingIsHeld'
  <2>1. \A i \in Items : item[i].batch = b => item'[i].status # "preparing"
    BY <1>5
  <2>2. \A i \in Items : item'[i].status = "preparing"
          => item[i].status = "preparing" /\ item'[i].batch = item[i].batch
    BY <1>5, <2>1
  <2> QED
    BY <1>1, <1>6, <2>1, <2>2, HeldStays DEF b
<1> QED
  BY <1>held, <1>7, <1>8, <1>9, <1>10, <1>11, <1>12, <1>13, <1>14 DEF IInv

-----------------------------------------------------------------------------
(* Polling.                                                                *)

LEMMA ClaimDueInv ==
  ASSUME IInv, NEW w \in Workers, ClaimDue(w)
  PROVE  IInv'
<1>0. TypeOK
  BY DEF IInv
<1>1. UNCHANGED <<item, batch, job, provider, effects, stray, abandoned>> /\ due' \subseteq Batches
  BY <1>0 DEF ClaimDue, TypeOK
<1>2. /\ worker'[w] \in CycleState /\ worker'[w].pc = "polling"
      /\ worker'[w].due = {b \in due : Pollable(b)}
      /\ \A v \in Workers \ {w} : worker'[v] = worker[v]
  <2>1. {b \in due : Pollable(b)} \in SUBSET Batches
    BY <1>0 DEF TypeOK
  <2>2. /\ worker'[w] = [worker[w] EXCEPT !.pc = "polling", !.due = {b \in due : Pollable(b)}]
        /\ \A v \in Workers \ {w} : worker'[v] = worker[v]
    BY <1>0 DEF TypeOK, ClaimDue
  <2>3. worker[w] \in CycleState /\ "polling" \in Steps
    BY <1>0, CycleFields DEF Steps
  <2> QED
    BY <2>1, <2>2, <2>3 DEF CycleState
<1>3. TypeOK'
  BY <1>0, <1>1, <1>2 DEF TypeOK, ClaimDue
<1>4. CycleOf(w)'
  BY <1>1, <1>2 DEF CycleOf, Holding, Pollable, Live
<1>5. CycleInv' /\ HoldersDiffer'
  BY <1>1, <1>2, <1>4, OneCycleMoves DEF Holding
<1>held. PreparingIsHeld'
  <2>1. worker[w].pc \notin Holding
    BY DEF ClaimDue, Holding
  <2> QED
    BY <1>1, <1>2, <2>1, HeldStays
<1> QED
  BY <1>held, <1>1, <1>3, <1>5, SameTables DEF IInv

LEMMA RetrieveInv ==
  ASSUME IInv, NEW w \in Workers, NEW b \in Batches, Retrieve(w, b)
  PROVE  IInv'
<1> DEFINE now == IF provider[b].status = "running" THEN "submitted" ELSE provider[b].status
<1>0. TypeOK
  BY DEF IInv
<1>1. /\ UNCHANGED <<item, batch, due, job, provider, effects, stray, abandoned>>
      /\ b \in worker[w].due
      /\ worker' = [worker EXCEPT ![w].pc = "saving", ![w].batch = b,
                                   ![w].due = @ \ {b}, ![w].seen = now]
  BY DEF Retrieve
<1>2. batch[b] \in Live /\ provider[b].status # "absent"
  BY <1>1 DEF IInv, CycleInv, CycleOf, ProviderInv, ProviderOf
<1>3. now \in {"submitted"} \cup Terminal /\ (now \in Terminal => provider[b].status = now)
  BY <1>0, <1>2 DEF TypeOK, ProviderBatch, Terminal
<1> HIDE DEF now
<1>4. /\ worker'[w] \in CycleState /\ worker'[w].pc = "saving" /\ worker'[w].batch = b
      /\ worker'[w].seen = now /\ worker'[w].due \subseteq worker[w].due
      /\ \A v \in Workers \ {w} : worker'[v] = worker[v]
  <2>1. /\ worker'[w] = [worker[w] EXCEPT !.pc = "saving", !.batch = b,
                                          !.due = worker[w].due \ {b}, !.seen = now]
        /\ \A v \in Workers \ {w} : worker'[v] = worker[v]
    BY <1>0, <1>1 DEF TypeOK
  <2>2. /\ worker[w] \in CycleState /\ "saving" \in Steps
        /\ worker[w].due \ {b} \in SUBSET Batches
    BY <1>0, CycleFields DEF Steps
  <2> QED
    BY <1>3, <2>1, <2>2 DEF CycleState
<1>5. TypeOK'
  BY <1>0, <1>1, <1>4 DEF TypeOK
<1>6. CycleOf(w)'
  <2>1. \A c \in worker'[w].due : batch'[c] \in Live
    BY <1>1, <1>4 DEF IInv, CycleInv, CycleOf
  <2>2. UNCHANGED <<batch, provider>> /\ now # "none"
    BY <1>1, <1>3 DEF Terminal
  <2> QED
    BY <1>2, <1>3, <1>4, <2>1, <2>2 DEF CycleOf, Holding
<1>7. CycleInv' /\ HoldersDiffer'
  BY <1>1, <1>4, <1>6, OneCycleMoves DEF Holding
<1>held. PreparingIsHeld'
  <2>1. worker[w].pc \notin Holding
    BY DEF Retrieve, Holding
  <2> QED
    BY <1>1, <1>4, <2>1, HeldStays
<1> QED
  BY <1>held, <1>1, <1>5, <1>7, SameTables DEF IInv

LEMMA RetrieveFailsInv ==
  ASSUME IInv, NEW w \in Workers, NEW b \in Batches, RetrieveFails(w, b)
  PROVE  IInv'
<1>0. TypeOK
  BY DEF IInv
<1>1. UNCHANGED <<item, batch, due, job, provider, effects, stray, abandoned>> /\ worker[w].pc = "polling"
  BY DEF RetrieveFails
<1>2. /\ worker'[w] \in CycleState /\ worker'[w].pc = "polling"
      /\ worker'[w].due \subseteq worker[w].due
      /\ \A v \in Workers \ {w} : worker'[v] = worker[v]
  <2>1. /\ worker'[w] = [worker[w] EXCEPT !.due = worker[w].due \ {b}]
        /\ \A v \in Workers \ {w} : worker'[v] = worker[v]
    BY <1>0 DEF TypeOK, RetrieveFails
  <2>2. worker[w] \in CycleState /\ worker[w].due \ {b} \in SUBSET Batches
    BY <1>0, CycleFields
  <2> QED
    BY <1>1, <2>1, <2>2 DEF CycleState
<1>3. TypeOK'
  BY <1>0, <1>1, <1>2 DEF TypeOK, RetrieveFails
<1>4. CycleOf(w)'
  BY <1>1, <1>2 DEF IInv, CycleInv, CycleOf, Holding
<1>5. CycleInv' /\ HoldersDiffer'
  BY <1>1, <1>2, <1>4, OneCycleMoves DEF Holding
<1>held. PreparingIsHeld'
  <2>1. worker[w].pc \notin Holding
    BY DEF RetrieveFails, Holding
  <2> QED
    BY <1>1, <1>2, <2>1, HeldStays
<1> QED
  BY <1>held, <1>1, <1>3, <1>5, SameTables DEF IInv

LEMMA RejectSnapshotInv ==
  ASSUME IInv, NEW w \in Workers, RejectSnapshot(w)
  PROVE  IInv'
<1>0. TypeOK
  BY DEF IInv
<1>1. UNCHANGED <<item, batch, due, job, provider, effects, stray, abandoned>>
  BY DEF RejectSnapshot
<1>2. /\ worker'[w] \in CycleState /\ worker'[w].pc = "raised" /\ worker'[w].due = {}
      /\ \A v \in Workers \ {w} : worker'[v] = worker[v]
  <2>1. /\ worker'[w] = [NewCycle EXCEPT !.pc = "raised"]
        /\ \A v \in Workers \ {w} : worker'[v] = worker[v]
    BY <1>0 DEF TypeOK, RejectSnapshot
  <2> QED
    BY <2>1 DEF CycleState, NewCycle, Steps
<1>3. TypeOK'
  BY <1>0, <1>1, <1>2 DEF TypeOK, RejectSnapshot
<1>4. CycleOf(w)'
  BY <1>2 DEF CycleOf, Holding
<1>5. CycleInv' /\ HoldersDiffer'
  BY <1>1, <1>2, <1>4, OneCycleMoves DEF Holding
<1>held. PreparingIsHeld'
  <2>1. worker[w].pc \notin Holding
    BY DEF RejectSnapshot, Holding
  <2> QED
    BY <1>1, <1>2, <2>1, HeldStays
<1> QED
  BY <1>held, <1>1, <1>3, <1>5, SameTables DEF IInv

\* What saving a terminal snapshot does to an item: nothing, unless it waits
\* for a result of this batch.
LEMMA SettledRow ==
  ASSUME IInv, NEW b \in Batches, NEW seen \in Terminal, NEW i \in Items,
         provider[b].lines[i] # "none" => Submitted(i, b)
  PROVE  /\ Settled(i, b, seen) \in ItemRow
         /\ Settled(i, b, seen).applied = item[i].applied
         /\ Settled(i, b, seen).applier = item[i].applier
         /\ ~Submitted(i, b) => Settled(i, b, seen) = item[i]
         /\ Submitted(i, b) =>
              \/ /\ Settled(i, b, seen).batch = b
                 /\ \/ Settled(i, b, seen).status = "completed" /\ provider[b].lines[i] = "ok"
                    \/ Settled(i, b, seen).status = "failed" /\ provider[b].lines[i] # "ok"
              \/ /\ Settled(i, b, seen).batch = None /\ provider[b].lines[i] = "none"
                 /\ \/ /\ Settled(i, b, seen).status = "queued"
                       /\ Settled(i, b, seen).attempts < MaxAttempts
                    \/ Settled(i, b, seen).status = "failed"
<1>1. item[i] \in ItemRow /\ {"completed", "failed", "queued"} \subseteq ItemStatus
  BY ItemFields DEF IInv, ItemStatus
<1>2. item[i].attempts \in 0 .. MaxAttempts
  BY ItemFields DEF IInv
<1>3. CASE provider[b].lines[i] # "none"
  <2>1. Settled(i, b, seen) =
          [item[i] EXCEPT !.status = IF provider[b].lines[i] = "ok"
                                     THEN "completed" ELSE "failed"]
    BY <1>3 DEF Settled, LinesOf, Succeeded
  <2> QED
    BY <1>1, <1>3, <2>1 DEF ItemRow, Submitted
<1>4. CASE provider[b].lines[i] = "none" /\ ~Submitted(i, b)
  BY <1>1, <1>4 DEF Settled, LinesOf, Unresolved
<1>5. CASE provider[b].lines[i] = "none" /\ Submitted(i, b) /\ seen = "completed"
  <2>1. Settled(i, b, seen) = [item[i] EXCEPT !.status = "failed"]
    BY <1>5 DEF Settled, LinesOf, Unresolved
  <2> QED
    BY <1>1, <1>5, <2>1 DEF ItemRow, Submitted
<1>6. CASE provider[b].lines[i] = "none" /\ Submitted(i, b) /\ seen # "completed"
  <2>1. Settled(i, b, seen) = Requeued(item[i])
    BY <1>6 DEF Settled, LinesOf, Unresolved
  <2> QED
    BY <1>1, <1>2, <1>6, <2>1 DEF ItemRow, Requeued
<1> QED
  BY <1>3, <1>4, <1>5, <1>6

LEMMA SaveSnapshotInv ==
  ASSUME IInv, NEW w \in Workers, SaveSnapshot(w)
  PROVE  IInv'
<1> DEFINE b == worker[w].batch
           seen == worker[w].seen
<1>0. TypeOK
  BY DEF IInv
<1>1. /\ worker[w].pc = "saving" /\ ~Unmatched(w)
      /\ batch' = [batch EXCEPT ![b] = seen]
      /\ due' = due \ {b}
      /\ item' = IF seen \in Terminal THEN [i \in Items |-> Settled(i, b, seen)] ELSE item
      /\ worker' = [worker EXCEPT
           ![w].pc = "polling", ![w].batch = None, ![w].seen = "none"]
      /\ UNCHANGED <<job, provider, effects, stray, abandoned>>
  BY DEF SaveSnapshot
<1>2. /\ b \in Batches /\ batch[b] \in Live /\ seen \in Live
      /\ seen \in Terminal => provider[b].status = seen
  BY <1>0, <1>1, CycleFields DEF IInv, CycleInv, CycleOf, Live
<1>3. seen \in Terminal
        => \A i \in Items : provider[b].lines[i] # "none" => Submitted(i, b)
  BY <1>1 DEF Unmatched, LinesOf, Matches
<1>4. \A c \in Batches : provider[c].lines \in [Items -> Lines]
  BY <1>0 DEF TypeOK, ProviderBatch
<1>5. /\ worker'[w] \in CycleState /\ worker'[w].pc = "polling"
      /\ worker'[w].due = worker[w].due
      /\ \A v \in Workers \ {w} : worker'[v] = worker[v]
  <2>1. /\ worker'[w] = [worker[w] EXCEPT !.pc = "polling", !.batch = None, !.seen = "none"]
        /\ \A v \in Workers \ {w} : worker'[v] = worker[v]
    BY <1>0, <1>1 DEF TypeOK
  <2>2. worker[w] \in CycleState /\ "polling" \in Steps
    BY <1>0, CycleFields DEF Steps
  <2> QED
    BY <2>1, <2>2 DEF CycleState
<1> HIDE DEF b, seen
<1>6. /\ \A c \in Batches \ {b} : batch'[c] = batch[c]
      /\ batch'[b] = seen /\ batch' \in [Batches -> BatchStatus]
  BY <1>0, <1>1, <1>2 DEF TypeOK, BatchStatus, Live
<1>7. ASSUME NEW i \in Items
      PROVE  /\ item'[i] \in ItemRow /\ item'[i].applied = item[i].applied
             /\ item'[i].applier = item[i].applier
             /\ ~Submitted(i, b) \/ seen \notin Terminal => item'[i] = item[i]
             /\ Submitted(i, b) /\ seen \in Terminal =>
                  \/ /\ item'[i].batch = b
                     /\ \/ item'[i].status = "completed" /\ provider[b].lines[i] = "ok"
                        \/ item'[i].status = "failed" /\ provider[b].lines[i] # "ok"
                  \/ /\ item'[i].batch = None /\ provider[b].lines[i] = "none"
                     /\ \/ item'[i].status = "queued" /\ item'[i].attempts < MaxAttempts
                        \/ item'[i].status = "failed"
  <2>1. CASE seen \in Terminal
    <3>1. item'[i] = Settled(i, b, seen)
      BY <1>1, <2>1
    <3> QED
      BY <1>2, <1>3, <2>1, <3>1, SettledRow
  <2>2. CASE seen \notin Terminal
    BY <1>0, <1>1, <2>2, ItemFields
  <2> QED
    BY <2>1, <2>2
<1>8. TypeOK'
  <2>1. item' \in [Items -> ItemRow]
    <3>1. CASE seen \in Terminal
      BY <1>1, <1>7, <3>1
    <3>2. CASE seen \notin Terminal
      BY <1>0, <1>1, <3>2 DEF TypeOK
    <3> QED
      BY <3>1, <3>2
  <2>2. worker' \in [Workers -> CycleState]
    BY <1>0, <1>1, <1>5 DEF TypeOK
  <2>3. due' \subseteq Batches
    BY <1>0, <1>1 DEF TypeOK
  <2> QED
    BY <1>0, <1>1, <1>6, <2>1, <2>2, <2>3 DEF TypeOK
<1>9. RowInv'
  <2> SUFFICES ASSUME NEW i \in Items PROVE RowOf(i)'
    BY DEF RowInv
  <2>0. RowOf(i) /\ provider' = provider /\ item[i].batch \in Batches \cup {None}
    BY <1>0, <1>1, ItemFields DEF IInv, RowInv
  <2>1. CASE Submitted(i, b) /\ seen \in Terminal
    BY <1>2, <1>6, <1>7, <2>0, <2>1 DEF RowOf, Submitted
  <2>2. CASE ~Submitted(i, b) /\ item[i].batch = b
    <3>1. item[i].status \in {"completed", "failed"}
      BY <1>0, <1>2, <2>0, <2>2, ItemFields DEF RowOf, Submitted, ItemStatus, Live, Terminal
    <3>2. item'[i] = item[i]
      BY <1>7, <2>2
    <3> QED
      BY <1>2, <1>6, <2>0, <2>2, <3>1, <3>2 DEF RowOf
  <2>3. CASE item[i].batch # b
    <3>1. item'[i] = item[i]
      BY <1>7, <2>3 DEF Submitted
    <3> QED
      BY <1>6, <2>0, <2>3, <3>1 DEF RowOf
  <2>4. CASE Submitted(i, b) /\ seen \notin Terminal
    <3>1. item'[i] = item[i] /\ batch'[b] = "submitted"
      BY <1>2, <1>6, <1>7, <2>4 DEF Live
    <3> QED
      BY <1>2, <2>0, <2>4, <3>1 DEF RowOf, Submitted
  <2> QED
    BY <2>1, <2>2, <2>3, <2>4
<1>10. ProviderInv'
  BY <1>1, <1>2, <1>6 DEF IInv, ProviderInv, ProviderOf, Live, Terminal
<1>11. LinkInv'
  <2> SUFFICES ASSUME NEW c \in Batches, NEW i \in Items PROVE LinkedTo(c, i)'
    BY DEF LinkInv
  <2>1. LinkedTo(c, i) /\ provider' = provider
    BY <1>1 DEF IInv, LinkInv
  <2>2. CASE Submitted(i, b) /\ seen \in Terminal
    <3>1. CASE c = b
      BY <1>2, <1>7, <2>1, <2>2, <3>1 DEF LinkedTo, Terminal
    <3>2. CASE c # b
      BY <2>1, <2>2, <3>2 DEF LinkedTo, Submitted
    <3> QED
      BY <3>1, <3>2
  <2>3. CASE ~Submitted(i, b) \/ seen \notin Terminal
    BY <1>7, <2>1, <2>3 DEF LinkedTo
  <2> QED
    BY <2>2, <2>3
<1>12. CycleInv'
  <2> SUFFICES ASSUME NEW v \in Workers PROVE CycleOf(v)'
    BY DEF CycleInv
  <2>1. CycleOf(v) /\ provider' = provider /\ worker[v].due \subseteq Batches
    BY <1>0, <1>1, CycleFields DEF IInv, CycleInv
  <2>2. \A c \in Batches : batch[c] \in Live => batch'[c] \in Live
    BY <1>2, <1>6
  <2>3. \A c \in Batches : batch[c] = "preparing" => batch'[c] = "preparing"
    BY <1>2, <1>6 DEF Live, Terminal
  <2>4. CASE v = w
    BY <1>5, <2>1, <2>2, <2>4 DEF CycleOf, Holding
  <2>5. CASE v # w
    BY <1>5, <2>1, <2>2, <2>3, <2>5 DEF CycleOf, Holding
  <2> QED
    BY <2>4, <2>5
<1>13. HoldersDiffer'
  BY <1>5 DEF IInv, HoldersDiffer, Holding
<1>14. NoResultLost'
  <2> SUFFICES ASSUME NEW c \in Batches, batch'[c] \in Terminal, NEW i \in Items,
                      provider'[c].lines[i] = "ok"
               PROVE  item'[i].status = "completed" /\ item'[i].batch = c
    BY DEF NoResultLost
  <2>0. provider' = provider
    BY <1>1
  <2>1. CASE c = b
    <3>1. seen \in Terminal /\ Submitted(i, b)
      BY <1>3, <1>6, <2>0, <2>1
    <3> QED
      BY <1>7, <2>0, <2>1, <3>1
  <2>2. CASE c # b
    <3>1. item[i].status = "completed" /\ item[i].batch = c
      BY <1>6, <2>0, <2>2 DEF IInv, NoResultLost
    <3> QED
      BY <1>7, <3>1 DEF Submitted
  <2> QED
    BY <2>1, <2>2
<1>15. JobFollowsItem' /\ AppliedOnce'
  <2>1. \A i \in Items : /\ item'[i].applied = item[i].applied
                         /\ item'[i].status = "absent" <=> item[i].status = "absent"
    BY <1>7 DEF Submitted
  <2>2. UNCHANGED <<job, effects>>
    BY <1>1
  <2> QED
    BY <2>1, <2>2 DEF IInv, JobFollowsItem, AppliedOnce
<1>held. PreparingIsHeld'
  <2>1. worker[w].pc \notin Holding /\ abandoned' = abandoned
    BY DEF SaveSnapshot, Holding
  <2>2. ASSUME NEW i \in Items, item'[i].status = "preparing"
        PROVE  item[i].status = "preparing" /\ item'[i].batch = item[i].batch
    <3>1. item'[i] = item[i]
      BY <1>7, <2>2
    <3> QED
      BY <2>2, <3>1
  <2> QED
    BY <1>5, <2>1, <2>2, HeldStays
<1> QED
  BY <1>held, <1>8, <1>9, <1>10, <1>11, <1>12, <1>13, <1>14, <1>15 DEF IInv

-----------------------------------------------------------------------------
(* Applying results to the domain.                                         *)

LEMMA ClaimResultsInv ==
  ASSUME IInv, NEW w \in Workers, ClaimResults(w)
  PROVE  IInv'
<1> DEFINE mine == {i \in Items : Unapplied(i)}
<1>0. TypeOK
  BY DEF IInv
<1>1. /\ worker[w].pc = "polling"
      /\ item' = [i \in Items |->
                    IF i \in mine
                    THEN [item[i] EXCEPT !.applier = WorkerId[w], !.fresh = TRUE]
                    ELSE item[i]]
      /\ worker' = [worker EXCEPT ![w].pc = "applying", ![w].todo = mine]
      /\ UNCHANGED <<batch, due, job, provider, effects, stray, abandoned>>
  BY DEF ClaimResults
<1>2. mine \in SUBSET Items /\ WorkerId[w] \in Ids /\ WorkerId[w] # None
  BY DEF Ids
<1> HIDE DEF mine
<1>3. ASSUME NEW i \in Items
      PROVE  /\ item'[i] \in ItemRow /\ item'[i].status = item[i].status
             /\ item'[i].batch = item[i].batch /\ item'[i].attempts = item[i].attempts
             /\ item'[i].applied = item[i].applied
             /\ item'[i].applier # None \/ item'[i].applied => item[i].status = "completed"
  <2>1. item[i] \in ItemRow /\ RowOf(i)
    BY <1>0, ItemFields DEF IInv, RowInv
  <2>2. CASE i \in mine
    <3>1. item'[i] = [item[i] EXCEPT !.applier = WorkerId[w], !.fresh = TRUE]
          /\ item[i].status = "completed"
      BY <1>1, <2>2 DEF mine, Unapplied
    <3> QED
      BY <1>2, <2>1, <3>1 DEF ItemRow
  <2>3. CASE i \notin mine
    BY <1>1, <2>1, <2>3 DEF RowOf
  <2> QED
    BY <2>2, <2>3
<1>4. /\ worker'[w] \in CycleState /\ worker'[w].pc = "applying"
      /\ worker'[w].due = worker[w].due
      /\ \A v \in Workers \ {w} : worker'[v] = worker[v]
  <2>1. /\ worker'[w] = [worker[w] EXCEPT !.pc = "applying", !.todo = mine]
        /\ \A v \in Workers \ {w} : worker'[v] = worker[v]
    BY <1>0, <1>1 DEF TypeOK
  <2>2. worker[w] \in CycleState /\ "applying" \in Steps
    BY <1>0, CycleFields DEF Steps
  <2> QED
    BY <1>2, <2>1, <2>2 DEF CycleState
<1>5. TypeOK'
  BY <1>0, <1>1, <1>3, <1>4 DEF TypeOK
<1>6. CycleOf(w)'
  BY <1>1, <1>4 DEF IInv, CycleInv, CycleOf, Holding
<1>7. CycleInv' /\ HoldersDiffer'
  BY <1>1, <1>4, <1>6, OneCycleMoves DEF Holding
<1>8. RowInv' /\ ProviderInv' /\ LinkInv' /\ NoResultLost'
  BY <1>1, <1>3, SameStatus
<1>9. JobFollowsItem' /\ AppliedOnce'
  <2>1. \A i \in Items : item'[i].applied = item[i].applied /\ item'[i].status = item[i].status
    BY <1>3
  <2>2. UNCHANGED <<job, effects>>
    BY <1>1
  <2> QED
    BY <2>1, <2>2 DEF IInv, JobFollowsItem, AppliedOnce
<1>held. PreparingIsHeld'
  <2>1. worker[w].pc \notin Holding
    BY DEF ClaimResults, Holding
  <2> QED
    BY <1>1, <1>3, <1>4, <2>1, HeldStays
<1> QED
  BY <1>held, <1>5, <1>7, <1>8, <1>9 DEF IInv

LEMMA ApplyResultInv ==
  ASSUME IInv, NEW w \in Workers, NEW i \in Items, ApplyResult(w, i)
  PROVE  IInv'
<1>0. TypeOK
  BY DEF IInv
<1>1. /\ worker[w].pc = "applying"
      /\ i \in ReportItems => job[i] = "waiting_provider"
      /\ ~item[i].applied /\ item[i].applier = WorkerId[w]
      /\ job' = JobAfter(i)
      /\ item' = [item EXCEPT ![i].applied = TRUE]
      /\ effects' = [effects EXCEPT ![i] = IF @ < 2 THEN @ + 1 ELSE @]
      /\ worker' = [worker EXCEPT ![w].todo = @ \ {i}]
      /\ UNCHANGED <<batch, due, provider, stray, abandoned>>
  BY DEF ApplyResult, MayMark
<1>2. item[i].status = "completed" /\ effects[i] = 0
  BY <1>1 DEF IInv, RowInv, RowOf, AppliedOnce
<1>3. /\ item'[i] \in ItemRow /\ item'[i].status = item[i].status
      /\ item'[i].batch = item[i].batch /\ item'[i].attempts = item[i].attempts
      /\ item'[i].applied
      /\ \A k \in Items \ {i} : item'[k] = item[k]
  BY <1>0, <1>1, ItemFields DEF TypeOK, ItemRow
<1>4. /\ effects' \in [Items -> 0 .. 2] /\ effects'[i] = 1
      /\ \A k \in Items \ {i} : effects'[k] = effects[k]
  BY <1>0, <1>1, <1>2 DEF TypeOK
<1>5. /\ worker'[w] \in CycleState /\ worker'[w].pc = "applying"
      /\ worker'[w].due = worker[w].due
      /\ \A v \in Workers \ {w} : worker'[v] = worker[v]
  <2>1. /\ worker'[w] = [worker[w] EXCEPT !.todo = worker[w].todo \ {i}]
        /\ \A v \in Workers \ {w} : worker'[v] = worker[v]
    BY <1>0, <1>1 DEF TypeOK
  <2>2. worker[w] \in CycleState /\ worker[w].todo \ {i} \in SUBSET Items
    BY <1>0, CycleFields
  <2> QED
    BY <1>1, <2>1, <2>2 DEF CycleState
<1>6. /\ job' \in [ReportItems -> {"running", "waiting_provider", "completed"}]
      /\ i \in ReportItems => job'[i] = "completed"
      /\ \A k \in ReportItems \ {i} : job'[k] = job[k]
  BY <1>0, <1>1 DEF JobAfter, TypeOK
<1>7. TypeOK'
  BY <1>0, <1>1, <1>3, <1>4, <1>5, <1>6 DEF TypeOK
<1>8. RowInv' /\ ProviderInv' /\ LinkInv' /\ NoResultLost'
  <2>1. \A k \in Items : item'[k].applier # None \/ item'[k].applied
                            => item[k].status = "completed"
    BY <1>2, <1>3 DEF IInv, RowInv, RowOf
  <2> QED
    BY <1>1, <1>3, <2>1, SameStatus
<1>9. CycleOf(w)'
  BY <1>1, <1>5 DEF IInv, CycleInv, CycleOf, Holding
<1>10. CycleInv' /\ HoldersDiffer'
  BY <1>1, <1>5, <1>9, OneCycleMoves DEF Holding
<1>11. JobFollowsItem'
  BY <1>1, <1>2, <1>3, <1>6 DEF IInv, JobFollowsItem
<1>12. AppliedOnce'
  BY <1>3, <1>4 DEF IInv, AppliedOnce
<1>held. PreparingIsHeld'
  <2>1. worker[w].pc \notin Holding /\ abandoned' = abandoned
    BY DEF ApplyResult, Holding
  <2> QED
    BY <1>3, <1>5, <2>1, HeldStays
<1> QED
  BY <1>held, <1>7, <1>8, <1>10, <1>11, <1>12 DEF IInv

LEMMA ReleaseResultInv ==
  ASSUME IInv, NEW w \in Workers, NEW i \in Items, ReleaseResult(w, i)
  PROVE  IInv'
<1>0. TypeOK
  BY DEF IInv
<1>1. /\ worker[w].pc = "applying"
      /\ item' = [item EXCEPT ![i] =
                    IF MayMark(w, i) THEN [@ EXCEPT !.applier = None, !.fresh = FALSE]
                    ELSE @]
      /\ worker' = [worker EXCEPT ![w].todo = @ \ {i}]
      /\ UNCHANGED <<batch, due, job, provider, effects, stray, abandoned>>
  BY DEF ReleaseResult
<1>2. item[i] \in ItemRow
  BY <1>0, ItemFields
<1>3. /\ item'[i] \in ItemRow /\ item'[i].status = item[i].status
      /\ item'[i].batch = item[i].batch /\ item'[i].attempts = item[i].attempts
      /\ item'[i].applied = item[i].applied
      /\ item'[i].applier = None \/ item'[i].applier = item[i].applier
      /\ \A k \in Items \ {i} : item'[k] = item[k]
  <2>1. /\ item'[i] = IF MayMark(w, i) THEN [item[i] EXCEPT !.applier = None, !.fresh = FALSE]
                      ELSE item[i]
        /\ \A k \in Items \ {i} : item'[k] = item[k]
    BY <1>0, <1>1 DEF TypeOK
  <2> QED
    BY <1>2, <2>1 DEF ItemRow
<1>4. /\ worker'[w] \in CycleState /\ worker'[w].pc = "applying"
      /\ worker'[w].due = worker[w].due
      /\ \A v \in Workers \ {w} : worker'[v] = worker[v]
  <2>1. /\ worker'[w] = [worker[w] EXCEPT !.todo = worker[w].todo \ {i}]
        /\ \A v \in Workers \ {w} : worker'[v] = worker[v]
    BY <1>0, <1>1 DEF TypeOK
  <2>2. worker[w] \in CycleState /\ worker[w].todo \ {i} \in SUBSET Items
    BY <1>0, CycleFields
  <2> QED
    BY <1>1, <2>1, <2>2 DEF CycleState
<1>5. TypeOK'
  BY <1>0, <1>1, <1>3, <1>4 DEF TypeOK
<1>6. RowInv' /\ ProviderInv' /\ LinkInv' /\ NoResultLost'
  <2>1. \A k \in Items : item'[k].applier # None \/ item'[k].applied
                            => item[k].status = "completed"
    BY <1>3 DEF IInv, RowInv, RowOf
  <2> QED
    BY <1>1, <1>3, <2>1, SameStatus
<1>7. CycleOf(w)'
  BY <1>1, <1>4 DEF IInv, CycleInv, CycleOf, Holding
<1>8. CycleInv' /\ HoldersDiffer'
  BY <1>1, <1>4, <1>7, OneCycleMoves DEF Holding
<1>9. JobFollowsItem' /\ AppliedOnce'
  <2>1. \A k \in Items : item'[k].applied = item[k].applied /\ item'[k].status = item[k].status
    BY <1>3
  <2>2. UNCHANGED <<job, effects>>
    BY <1>1
  <2> QED
    BY <2>1, <2>2 DEF IInv, JobFollowsItem, AppliedOnce
<1>held. PreparingIsHeld'
  <2>1. worker[w].pc \notin Holding
    BY DEF ReleaseResult, Holding
  <2> QED
    BY <1>1, <1>3, <1>4, <2>1, HeldStays
<1> QED
  BY <1>held, <1>5, <1>6, <1>8, <1>9 DEF IInv

\* A cycle that ends, or a process that dies, forgets what it held.
LEMMA ForgetInv ==
  ASSUME IInv, NEW w \in Workers, worker' = [worker EXCEPT ![w] = NewCycle],
         UNCHANGED <<item, batch, due, job, provider, effects, stray>>,
         abandoned \subseteq abandoned', abandoned' \subseteq Batches,
         worker[w].pc \in Holding => worker[w].batch \in abandoned'
  PROVE  IInv'
<1>0. TypeOK
  BY DEF IInv
<1>1. /\ worker'[w] = NewCycle /\ NewCycle \in CycleState
      /\ \A v \in Workers \ {w} : worker'[v] = worker[v]
  BY <1>0 DEF TypeOK, CycleState, NewCycle, Steps
<1>2. TypeOK'
  BY <1>0, <1>1 DEF TypeOK
<1>3. CycleOf(w)'
  BY <1>1 DEF CycleOf, NewCycle, Holding
<1>4. CycleInv' /\ HoldersDiffer'
  BY <1>1, <1>3, OneCycleMoves DEF Holding, NewCycle
<1>held. PreparingIsHeld'
  BY <1>1, HeldStays
<1> QED
  BY <1>held, <1>2, <1>4, SameTables DEF IInv

LEMMA EndCycleInv ==
  ASSUME IInv, NEW w \in Workers, EndCycle(w)
  PROVE  IInv'
<1>1. worker[w].pc \notin Holding /\ abandoned' = abandoned /\ abandoned \subseteq Batches
  BY DEF EndCycle, Holding, IInv, TypeOK
<1> QED
  BY <1>1, ForgetInv DEF EndCycle

\* What the process held is abandoned.
LEMMA CrashInv ==
  ASSUME IInv, NEW w \in Workers, Crash(w)
  PROVE  IInv'
<1>1. worker[w].pc \in Holding => worker[w].batch \in Batches
  BY DEF IInv, CycleInv, CycleOf
<1>2. /\ abandoned \subseteq abandoned' /\ abandoned' \subseteq Batches
      /\ worker[w].pc \in Holding => worker[w].batch \in abandoned'
  BY <1>1 DEF Crash, Holding, IInv, TypeOK
<1> QED
  BY <1>2, ForgetInv DEF Crash

-----------------------------------------------------------------------------
(* The theorems.                                                           *)

\* Every step keeps the inductive invariant.
LEMMA NextInv == IInv /\ [Next]_vars => IInv'
<1> SUFFICES ASSUME IInv, [Next]_vars PROVE IInv'
  OBVIOUS
<1>1. ASSUME NEW i \in Items, Enqueue(i) \/ ApplyLeaseExpires(i) PROVE IInv'
  BY <1>1, EnqueueInv, ApplyLeaseExpiresInv
<1>2. ASSUME NEW b \in Batches, ProviderEnds(b) \/ PollTimeComes(b) PROVE IInv'
  BY <1>2, ProviderEndsInv, PollTimeComesInv
<1>3. ASSUME NEW w \in Workers, CycleStep(w) PROVE IInv'
  <2>1. CASE ClaimSubmission(w) \/ NothingToSubmit(w)
    BY <2>1, ClaimSubmissionInv, NothingToSubmitInv
  <2>2. CASE SubmitLost(w) \/ SubmitAccepted(w) \/ SubmitRefused(w) \/ MarkSubmitted(w)
    BY <2>2, SubmitLostInv, SubmitAcceptedInv, SubmitRefusedInv, MarkSubmittedInv
  <2>3. CASE ClaimDue(w) \/ \E b \in Batches : Retrieve(w, b) \/ RetrieveFails(w, b)
    BY <2>3, ClaimDueInv, RetrieveInv, RetrieveFailsInv
  <2>4. CASE SaveSnapshot(w) \/ RejectSnapshot(w)
    BY <2>4, SaveSnapshotInv, RejectSnapshotInv
  <2>5. CASE ClaimResults(w) \/ \E i \in Items : ApplyResult(w, i) \/ ReleaseResult(w, i)
    BY <2>5, ClaimResultsInv, ApplyResultInv, ReleaseResultInv
  <2>6. CASE EndCycle(w) \/ Crash(w)
    BY <2>6, EndCycleInv, CrashInv
  <2> QED
    BY <1>3, <2>1, <2>2, <2>3, <2>4, <2>5, <2>6 DEF CycleStep
<1>4. CASE UNCHANGED vars
  <2>1. TypeOK'
    BY <1>4 DEF IInv, TypeOK, vars
  <2>2. UNCHANGED <<item, batch, job, provider, worker, effects>>
    BY <1>4 DEF vars
  <2>3. PreparingIsHeld'
    BY <1>4 DEF IInv, PreparingIsHeld, vars
  <2> QED
    BY <2>1, <2>2, <2>3, SameTables, NoCycleMoves DEF IInv
<1> QED
  BY <1>1, <1>2, <1>3, <1>4 DEF Next

THEOREM BatchInvariant == Spec => []IInv
<1>1. Init => IInv
  BY InitInv
<1>2. IInv /\ [Next]_vars => IInv'
  BY NextInv
<1> QED
  BY <1>1, <1>2, PTL DEF Spec

\* Rows, cycles and attempt counts keep their types, whatever the processes
\* do and wherever they die (llm_batches.py, openai_batch.py).
THEOREM BatchTypes == Spec => []TypeOK
<1>1. IInv => TypeOK
  BY DEF IInv
<1> QED
  BY <1>1, BatchInvariant, PTL

\* What is queued can be submitted, an item in preparation has a cycle that
\* holds it unless that cycle's process died, an item that waits for a result
\* is in a batch that will bring one, and a report job follows its item
\* (claim_llm_batch, mark_llm_batch_submitted, release_failed_llm_batch_submission
\* and apply_llm_batch_result_lines each keep the two tables in step).
THEOREM ItemsAlwaysAgree == Spec => []ItemsAgree
<1>1. IInv => QueuedIsSubmittable
  BY DEF IInv, RowInv, RowOf, QueuedIsSubmittable
<1>2. IInv => ItemMatchesBatch
  BY DEF IInv, RowInv, RowOf, ItemMatchesBatch
<1>3. IInv => ItemsAgree
  BY <1>1, <1>2 DEF IInv, ItemsAgree
<1> QED
  BY <1>3, BatchInvariant, PTL

\* A completed item carries its own batch's success, a terminal batch has
\* handed over every success it had, and no item was asked for again, by a
\* cycle that knew of it, after a success (openai_batch.py).  What the provider
\* makes of a submission whose answer was lost is not among the batches here.
THEOREM ResultsAreAlwaysKept == Spec => []ResultsAreKept
<1>1. IInv => ResultIsItsBatchs
  BY DEF IInv, RowInv, RowOf, ResultIsItsBatchs
<1>2. IInv => OneKnownSuccess
  BY DEF IInv, LinkInv, LinkedTo, OneKnownSuccess
<1>3. IInv => ResultsAreKept
  BY <1>1, <1>2 DEF IInv, ResultsAreKept
<1> QED
  BY <1>3, BatchInvariant, PTL

\* The handler of a result commits once, although claims lapse and processes
\* with one id overlap (claim_unapplied_batch_results, mark_batch_result_applied).
THEOREM AppliedAtMostOnce == Spec => []AppliedOnce
<1>1. IInv => AppliedOnce
  BY DEF IInv
<1> QED
  BY <1>1, BatchInvariant, PTL


-----------------------------------------------------------------------------
(* One process: no snapshot is saved twice.                                *)

Alone == \A w, v \in Workers : w = v

\* A cycle knows its batches as they are, and no lines are saved twice.
SoloCycle(w) ==
  /\ worker[w].pc = "saving"
       => batch[worker[w].batch] = "submitted" /\ worker[w].batch \notin worker[w].due
  /\ \A b \in worker[w].due : batch[b] = "submitted"
  /\ worker[w].pc # "raised"

\* The provider answers what it was asked, and until its answer is saved the
\* items of the request wait for it.
Answers(b, i) ==
  /\ provider[b].status = "absent" => i \notin provider[b].items
  /\ provider[b].lines[i] # "none" => i \in provider[b].items
  /\ i \in provider[b].items /\ batch[b] \in {"preparing", "submitted"}
       => item[i].batch = b /\ item[i].status \in {"preparing", "submitted"}

SoloInv ==
  /\ \A w \in Workers : SoloCycle(w)
  /\ \A b \in Batches, i \in Items : Answers(b, i)

LEMMA SoloInit == Init => SoloInv
BY DEF Init, SoloInv, SoloCycle, Answers, NewItem, NewCycle, NoLines

\* A step of one cycle that writes no table: what it holds it keeps.
LEMMA SoloCycleMoves ==
  ASSUME SoloInv, NEW w \in Workers, UNCHANGED <<batch, provider>>,
         \A v \in Workers \ {w} : worker'[v] = worker[v],
         \A i \in Items : item'[i].status = item[i].status /\ item'[i].batch = item[i].batch,
         SoloCycle(w)'
  PROVE  SoloInv'
<1>2. ASSUME NEW v \in Workers PROVE SoloCycle(v)'
  <2>1. CASE v = w
    BY <2>1
  <2>2. CASE v # w
    BY <2>2 DEF SoloInv, SoloCycle
  <2> QED
    BY <2>1, <2>2
<1>3. \A b \in Batches, i \in Items : Answers(b, i)'
  BY DEF SoloInv, Answers
<1> QED
  BY <1>2, <1>3 DEF SoloInv

\* A step of one cycle that ends its submission.
LEMMA SoloSubmissionEnds ==
  ASSUME Alone, IInv, SoloInv, NEW w \in Workers,
         SubmitRefused(w) \/ MarkSubmitted(w)
  PROVE  SoloInv'
<1> DEFINE b == worker[w].batch
<1>0. TypeOK
  BY DEF IInv
<1>1. worker[w].pc \in Holding /\ UNCHANGED provider
  BY DEF SubmitRefused, MarkSubmitted, Holding
<1>2. /\ b \in Batches /\ batch[b] = "preparing"
      /\ \A i \in Items : item[i].batch = b => item[i].status = "preparing"
      /\ b \notin worker[w].due
  BY <1>1, HeldBatch
<1>3. /\ worker'[w].pc = "claiming" /\ worker'[w].due = worker[w].due
      /\ \A c \in Batches : c # b => batch'[c] = batch[c]
      /\ batch'[b] = IF MarkSubmitted(w) THEN "submitted" ELSE "failed"
  <2>1. worker[w] \in CycleState
    BY <1>0, CycleFields
  <2>2. worker' = [worker EXCEPT ![w].pc = "claiming", ![w].batch = None]
    BY DEF SubmitRefused, MarkSubmitted
  <2>3. worker'[w].pc = "claiming" /\ worker'[w].due = worker[w].due
    BY <1>0, <2>1, <2>2 DEF TypeOK, CycleState
  <2>4. CASE MarkSubmitted(w)
    BY <1>0, <1>2, <2>3, <2>4 DEF MarkSubmitted, TypeOK
  <2>5. CASE ~MarkSubmitted(w)
    BY <1>0, <1>2, <2>3, <2>5 DEF SubmitRefused, TypeOK
  <2> QED
    BY <2>4, <2>5
<1>4. \A i \in Items : item[i].batch # b => item'[i] = item[i]
  BY DEF SubmitRefused, MarkSubmitted, Preparing
<1>6. MarkSubmitted(w)
        => \A i \in Items : item[i].batch = b
             => item'[i].batch = b /\ item'[i].status = "submitted"
  <2> SUFFICES ASSUME MarkSubmitted(w), NEW i \in Items, item[i].batch = b
               PROVE  item'[i].batch = b /\ item'[i].status = "submitted"
    OBVIOUS
  <2>1. item[i] \in ItemRow /\ Preparing(i, b)
    BY <1>0, <1>2, ItemFields DEF Preparing
  <2>2. item'[i] = [item[i] EXCEPT !.status = "submitted", !.attempts = @ + 1]
    BY <2>1 DEF MarkSubmitted
  <2> QED
    BY <2>1, <2>2 DEF ItemRow
<1> HIDE DEF b
<1>8. ASSUME NEW v \in Workers PROVE SoloCycle(v)'
  <2>1. v = w /\ SoloCycle(w)
    BY DEF Alone, SoloInv
  <2>2. worker[w].due \subseteq Batches
    BY <1>0, CycleFields
  <2> QED
    BY <1>2, <1>3, <2>1, <2>2 DEF SoloCycle, b
<1>9. ASSUME NEW c \in Batches, NEW i \in Items PROVE Answers(c, i)'
  <2>1. Answers(c, i)
    BY DEF SoloInv
  <2> QED
    BY <1>1, <1>2, <1>3, <1>4, <1>6, <2>1 DEF Answers
<1> QED
  BY <1>8, <1>9 DEF SoloInv

LEMMA SoloClaimSubmission ==
  ASSUME IInv, SoloInv, NEW w \in Workers, ClaimSubmission(w)
  PROVE  SoloInv'
<1> DEFINE b == NewBatch
<1>0. TypeOK
  BY DEF IInv
<1>1. b \in Batches /\ batch[b] = "absent"
  BY DEF ClaimSubmission, Unused, NewBatch
<1> HIDE DEF b
<1>2. PICK S \in SUBSET Items :
        /\ worker[w].pc = "idle"
        /\ \A i \in S : item[i].status = "queued"
        /\ batch' = [batch EXCEPT ![b] = "preparing"]
        /\ item' = [i \in Items |->
                      IF i \in S THEN [item[i] EXCEPT !.batch = b, !.status = "preparing"]
                      ELSE item[i]]
        /\ worker' = [worker EXCEPT ![w].pc = "submitting", ![w].batch = b]
        /\ UNCHANGED provider
  BY DEF ClaimSubmission, Chosen, Queued, b
<1>3. /\ provider[b].status = "absent"
      /\ \A v \in Workers : /\ worker[v].pc = "saving" => worker[v].batch # b
                            /\ b \notin worker[v].due
  BY <1>1, AbsentBatch
<1>4. /\ worker'[w].pc = "submitting" /\ worker'[w].batch = b
      /\ worker'[w].due = worker[w].due
      /\ \A v \in Workers \ {w} : worker'[v] = worker[v]
  <2>1. worker[w] \in CycleState
    BY <1>0, CycleFields
  <2>2. /\ worker'[w] = [worker[w] EXCEPT !.pc = "submitting", !.batch = b]
        /\ \A v \in Workers \ {w} : worker'[v] = worker[v]
    BY <1>0, <1>2 DEF TypeOK
  <2> QED
    BY <2>1, <2>2 DEF CycleState
<1>5. /\ batch'[b] = "preparing" /\ \A c \in Batches \ {b} : batch'[c] = batch[c]
  BY <1>0, <1>1, <1>2 DEF TypeOK
<1>7. ASSUME NEW v \in Workers PROVE SoloCycle(v)'
  <2>1. SoloCycle(v) /\ worker[v].due \subseteq Batches /\ CycleOf(v)
    BY <1>0, CycleFields DEF SoloInv, IInv, CycleInv
  <2>2. CASE v = w
    BY <1>3, <1>4, <1>5, <2>1, <2>2 DEF SoloCycle
  <2>3. CASE v # w
    BY <1>3, <1>4, <1>5, <2>1, <2>3 DEF SoloCycle, CycleOf
  <2> QED
    BY <2>2, <2>3
<1>8. ASSUME NEW c \in Batches, NEW i \in Items PROVE Answers(c, i)'
  <2>1. Answers(c, i) /\ UNCHANGED provider
    BY <1>2 DEF SoloInv
  <2>2. i \notin S => item'[i] = item[i]
    BY <1>2
  <2>3. i \in S => item[i].status = "queued"
    BY <1>2
  <2> QED
    BY <1>3, <1>5, <2>1, <2>2, <2>3 DEF Answers
<1> QED
  BY <1>7, <1>8 DEF SoloInv

LEMMA SoloSubmitLost ==
  ASSUME SoloInv, NEW w \in Workers, SubmitLost(w)
  PROVE  SoloInv'
BY DEF SubmitLost, SoloInv, SoloCycle, Answers

LEMMA SoloSubmitAccepted ==
  ASSUME IInv, SoloInv, NEW w \in Workers, SubmitAccepted(w)
  PROVE  SoloInv'
<1> DEFINE b == worker[w].batch
<1>0. TypeOK
  BY DEF IInv
<1>1. /\ worker[w].pc \in Holding /\ UNCHANGED <<item, batch>>
      /\ provider' = [provider EXCEPT ![b].status = "running",
                                      ![b].items = {i \in Items : item[i].batch = b}]
      /\ worker' = [worker EXCEPT ![w].pc = "accepted"]
  BY DEF SubmitAccepted, Holding
<1>2. /\ b \in Batches /\ provider[b].lines = NoLines
      /\ \A i \in Items : item[i].batch = b => item[i].status = "preparing"
  BY <1>1, HeldBatch DEF SubmitAccepted, IInv, CycleInv, CycleOf, ProviderInv, ProviderOf, Terminal
<1>3. /\ worker'[w].pc = "accepted" /\ worker'[w].batch = b /\ worker'[w].due = worker[w].due
      /\ \A v \in Workers \ {w} : worker'[v] = worker[v]
  BY <1>0, <1>1, CycleFields DEF TypeOK, CycleState
<1> HIDE DEF b
<1>4. /\ provider'[b].status = "running" /\ provider'[b].lines = provider[b].lines
      /\ provider'[b].items = {i \in Items : item[i].batch = b}
      /\ \A c \in Batches \ {b} : provider'[c] = provider[c]
  BY <1>0, <1>1, <1>2 DEF TypeOK, ProviderBatch
<1>6. ASSUME NEW v \in Workers PROVE SoloCycle(v)'
  BY <1>1, <1>3 DEF SoloInv, SoloCycle
<1>7. ASSUME NEW c \in Batches, NEW i \in Items PROVE Answers(c, i)'
  <2>1. Answers(c, i)
    BY DEF SoloInv
  <2>2. CASE c = b
    <3>1. provider'[c].lines[i] = "none" /\ provider'[c].status = "running"
      BY <1>2, <1>4, <2>2 DEF NoLines
    <3>2. i \in provider'[c].items => item'[i].batch = c /\ item'[i].status = "preparing"
      BY <1>1, <1>2, <1>4, <2>2
    <3> QED
      BY <3>1, <3>2 DEF Answers
  <2>3. CASE c # b
    BY <1>1, <1>4, <2>1, <2>3 DEF Answers
  <2> QED
    BY <2>2, <2>3
<1> QED
  BY <1>6, <1>7 DEF SoloInv

LEMMA SoloSaveSnapshot ==
  ASSUME Alone, IInv, SoloInv, NEW w \in Workers, SaveSnapshot(w)
  PROVE  SoloInv'
<1> DEFINE b == worker[w].batch
           seen == worker[w].seen
<1>0. TypeOK
  BY DEF IInv
<1>1. /\ worker[w].pc = "saving" /\ UNCHANGED provider
      /\ batch' = [batch EXCEPT ![b] = seen]
      /\ item' = IF seen \in Terminal THEN [i \in Items |-> Settled(i, b, seen)] ELSE item
      /\ worker' = [worker EXCEPT
           ![w].pc = "polling", ![w].batch = None, ![w].seen = "none"]
      /\ seen \in Terminal
           => \A i \in Items : provider[b].lines[i] # "none" => Submitted(i, b)
  BY DEF SaveSnapshot, Unmatched, LinesOf, Matches
<1>2. /\ b \in Batches /\ batch[b] = "submitted" /\ b \notin worker[w].due
      /\ seen \in {"submitted"} \cup Terminal
  BY <1>0, <1>1, CycleFields DEF IInv, CycleInv, CycleOf, SoloInv, SoloCycle
<1>3. worker'[w].pc = "polling" /\ worker'[w].due = worker[w].due
  BY <1>0, <1>1, CycleFields DEF TypeOK, CycleState
<1> HIDE DEF b, seen
<1>4. batch'[b] = seen /\ \A c \in Batches \ {b} : batch'[c] = batch[c]
  BY <1>0, <1>1, <1>2 DEF TypeOK
<1>5. \A i \in Items : ~Submitted(i, b) \/ seen \notin Terminal => item'[i] = item[i]
  BY <1>1, <1>2, SettledRow
<1>7. ASSUME NEW v \in Workers PROVE SoloCycle(v)'
  <2>1. v = w /\ SoloCycle(w) /\ worker[w].due \subseteq Batches
    BY <1>0, CycleFields DEF Alone, SoloInv
  <2> QED
    BY <1>2, <1>3, <1>4, <2>1 DEF SoloCycle
<1>8. ASSUME NEW c \in Batches, NEW i \in Items PROVE Answers(c, i)'
  <2>1. Answers(c, i) /\ UNCHANGED provider
    BY <1>1 DEF SoloInv
  <2>2. CASE c = b /\ seen \in Terminal
    BY <1>4, <2>1, <2>2 DEF Answers, Terminal
  <2>3. CASE c = b /\ seen \notin Terminal
    BY <1>2, <1>4, <1>5, <2>1, <2>3 DEF Answers
  <2>4. CASE c # b
    <3>1. item[i].batch = c => item'[i] = item[i]
      BY <1>5, <2>4 DEF Submitted
    <3> QED
      BY <1>4, <2>1, <2>4, <3>1 DEF Answers
  <2> QED
    BY <2>2, <2>3, <2>4
<1> QED
  BY <1>7, <1>8 DEF SoloInv

\* The other steps of a cycle write at most who applies a result.
LEMMA SoloQuietStep ==
  ASSUME IInv, SoloInv, NEW w \in Workers,
         \/ NothingToSubmit(w) \/ ClaimDue(w) \/ ClaimResults(w) \/ EndCycle(w) \/ Crash(w)
         \/ \E b \in Batches : Retrieve(w, b) \/ RetrieveFails(w, b)
         \/ \E i \in Items : ApplyResult(w, i) \/ ReleaseResult(w, i)
  PROVE  SoloInv'
<1>0. TypeOK /\ worker[w] \in CycleState /\ SoloCycle(w)
  BY CycleFields DEF IInv, SoloInv
<1>1. UNCHANGED <<batch, provider>>
  BY <1>0 DEF NothingToSubmit, ClaimDue, ClaimResults, EndCycle, Crash, Retrieve, RetrieveFails,
              ApplyResult, ReleaseResult
<1>2. \A v \in Workers \ {w} : worker'[v] = worker[v]
  BY <1>0 DEF NothingToSubmit, ClaimDue, ClaimResults, EndCycle, Crash, Retrieve, RetrieveFails,
              ApplyResult, ReleaseResult, TypeOK
<1>3. \A i \in Items : item'[i].status = item[i].status /\ item'[i].batch = item[i].batch
  <2> SUFFICES ASSUME NEW i \in Items
               PROVE  item'[i].status = item[i].status /\ item'[i].batch = item[i].batch
    OBVIOUS
  <2>1. item[i] \in ItemRow
    BY <1>0, ItemFields
  <2>2. CASE UNCHANGED item
    BY <2>2
  <2>3. CASE ClaimResults(w)
    BY <2>1, <2>3 DEF ClaimResults, ItemRow
  <2>4. ASSUME NEW k \in Items, ApplyResult(w, k)
        PROVE  item'[i].status = item[i].status /\ item'[i].batch = item[i].batch
    BY <1>0, <2>1, <2>4 DEF ApplyResult, ItemRow, TypeOK
  <2>5. ASSUME NEW k \in Items, ReleaseResult(w, k)
        PROVE  item'[i].status = item[i].status /\ item'[i].batch = item[i].batch
    BY <1>0, <2>1, <2>5 DEF ReleaseResult, ItemRow, TypeOK
  <2> QED
    BY <2>2, <2>3, <2>4, <2>5
    DEF NothingToSubmit, ClaimDue, EndCycle, Crash, Retrieve, RetrieveFails
<1>4. SoloCycle(w)'
  <2>1. CASE NothingToSubmit(w)
    <3>1. worker'[w].pc = "claiming" /\ worker'[w].due = worker[w].due
      BY <1>0, <2>1 DEF NothingToSubmit, TypeOK, CycleState
    <3> QED
      BY <1>0, <1>1, <3>1 DEF SoloCycle
  <2>2. CASE ClaimDue(w)
    <3>1. worker'[w].pc = "polling" /\ worker'[w].due = {b \in due : Pollable(b)}
      BY <1>0, <2>2 DEF ClaimDue, TypeOK, CycleState
    <3> QED
      BY <1>1, <3>1 DEF SoloCycle, Pollable
  <2>3. CASE ClaimResults(w)
    <3>1. worker'[w].pc = "applying" /\ worker'[w].due = worker[w].due
      BY <1>0, <2>3 DEF ClaimResults, TypeOK, CycleState
    <3> QED
      BY <1>0, <1>1, <3>1 DEF SoloCycle
  <2>4. CASE EndCycle(w) \/ Crash(w)
    <3>1. worker'[w] = NewCycle
      BY <1>0, <2>4 DEF EndCycle, Crash, TypeOK
    <3> QED
      BY <3>1 DEF SoloCycle, NewCycle
  <2>5. ASSUME NEW b \in Batches, Retrieve(w, b) PROVE SoloCycle(w)'
    <3>1. /\ worker'[w].pc = "saving" /\ worker'[w].batch = b
          /\ worker'[w].due = worker[w].due \ {b} /\ b \in worker[w].due
      BY <1>0, <2>5 DEF Retrieve, TypeOK, CycleState
    <3> QED
      BY <1>0, <1>1, <3>1 DEF SoloCycle
  <2>6. ASSUME NEW b \in Batches, RetrieveFails(w, b) PROVE SoloCycle(w)'
    <3>1. worker'[w].pc = "polling" /\ worker'[w].due = worker[w].due \ {b}
      BY <1>0, <2>6 DEF RetrieveFails, TypeOK, CycleState
    <3> QED
      BY <1>0, <1>1, <3>1 DEF SoloCycle
  <2>7. ASSUME NEW i \in Items, ApplyResult(w, i) \/ ReleaseResult(w, i) PROVE SoloCycle(w)'
    <3>1. worker'[w].pc = "applying" /\ worker'[w].due = worker[w].due
      <4>1. worker' = [worker EXCEPT ![w].todo = @ \ {i}] /\ worker[w].pc = "applying"
        BY <2>7 DEF ApplyResult, ReleaseResult
      <4> QED
        BY <1>0, <4>1 DEF TypeOK, CycleState
    <3> QED
      BY <1>0, <1>1, <3>1 DEF SoloCycle
  <2> QED
    BY <2>1, <2>2, <2>3, <2>4, <2>5, <2>6, <2>7
<1> QED
  BY <1>1, <1>2, <1>3, <1>4, SoloCycleMoves

\* A snapshot matches the rows, for nobody else saved it.
LEMMA SoloNeverRaises ==
  ASSUME IInv, SoloInv, NEW w \in Workers, RejectSnapshot(w)
  PROVE  FALSE
<1> DEFINE b == worker[w].batch
<1>1. PICK i \in Items : provider[b].lines[i] # "none" /\ ~Submitted(i, b)
  BY DEF RejectSnapshot, Unmatched, LinesOf, Matches
<1>2. b \in Batches /\ batch[b] = "submitted"
  BY DEF RejectSnapshot, IInv, CycleInv, CycleOf, SoloInv, SoloCycle
<1>3. item[i].batch = b /\ item[i].status \in {"preparing", "submitted"}
  BY <1>1, <1>2 DEF SoloInv, Answers
<1>4. item[i].status # "preparing"
  BY <1>2, <1>3 DEF IInv, RowInv, RowOf
<1> QED
  BY <1>1, <1>3, <1>4 DEF Submitted

LEMMA SoloOthers ==
  ASSUME IInv, SoloInv,
         \/ \E i \in Items : Enqueue(i) \/ ApplyLeaseExpires(i)
         \/ \E b \in Batches : ProviderEnds(b) \/ PollTimeComes(b)
  PROVE  SoloInv'
<1>0. TypeOK
  BY DEF IInv
<1>1. UNCHANGED <<batch, worker>>
  BY DEF Enqueue, ApplyLeaseExpires, ProviderEnds, PollTimeComes
<1>2. \A v \in Workers : SoloCycle(v)'
  BY <1>1 DEF SoloInv, SoloCycle
<1>3. ASSUME NEW i \in Items
      PROVE  \/ item'[i].status = item[i].status /\ item'[i].batch = item[i].batch
             \/ item[i].status = "absent" /\ item'[i].status = "queued"
  <2>1. item[i] \in ItemRow
    BY <1>0, ItemFields
  <2>2. ASSUME NEW k \in Items, Enqueue(k) \/ ApplyLeaseExpires(k)
        PROVE  \/ item'[i].status = item[i].status /\ item'[i].batch = item[i].batch
               \/ item[i].status = "absent" /\ item'[i].status = "queued"
    BY <1>0, <2>1, <2>2 DEF Enqueue, ApplyLeaseExpires, TypeOK, ItemRow
  <2> QED
    BY <2>2 DEF ProviderEnds, PollTimeComes
<1>5. ASSUME NEW c \in Batches, NEW i \in Items PROVE Answers(c, i)'
  <2>1. Answers(c, i)
    BY DEF SoloInv
  <2>2. CASE UNCHANGED provider
    BY <1>1, <1>3, <2>1, <2>2 DEF Answers
  <2>3. ASSUME NEW b \in Batches, ProviderEnds(b) PROVE Answers(c, i)'
    <3>1. PICK status \in Terminal, lines \in [Items -> Lines] :
            /\ \A k \in Items \ provider[b].items : lines[k] = "none"
            /\ provider' = [provider EXCEPT ![b].status = status, ![b].lines = lines]
            /\ UNCHANGED item
      BY <2>3 DEF ProviderEnds
    <3>2. /\ provider'[b].status = status /\ provider'[b].lines = lines
          /\ provider'[b].items = provider[b].items
          /\ \A x \in Batches \ {b} : provider'[x] = provider[x]
      BY <1>0, <3>1 DEF TypeOK, ProviderBatch
    <3>3. CASE c = b
      BY <1>1, <2>1, <3>1, <3>2, <3>3 DEF Answers, Terminal
    <3>4. CASE c # b
      BY <1>1, <2>1, <3>1, <3>2, <3>4 DEF Answers
    <3> QED
      BY <3>3, <3>4
  <2> QED
    BY <2>2, <2>3 DEF Enqueue, ApplyLeaseExpires, PollTimeComes
<1> QED
  BY <1>2, <1>5 DEF SoloInv

LEMMA SoloNext ==
  ASSUME Alone
  PROVE  IInv /\ SoloInv /\ [Next]_vars => SoloInv'
<1> SUFFICES ASSUME IInv, SoloInv, [Next]_vars PROVE SoloInv'
  OBVIOUS
<1>1. ASSUME NEW w \in Workers, CycleStep(w) PROVE SoloInv'
  <2>1. CASE ClaimSubmission(w) \/ SubmitLost(w) \/ SubmitAccepted(w)
    BY <2>1, SoloClaimSubmission, SoloSubmitLost, SoloSubmitAccepted
  <2>2. CASE SubmitRefused(w) \/ MarkSubmitted(w)
    BY <2>2, SoloSubmissionEnds
  <2>3. CASE SaveSnapshot(w) \/ RejectSnapshot(w)
    BY <2>3, SoloSaveSnapshot, SoloNeverRaises
  <2> QED
    BY <1>1, <2>1, <2>2, <2>3, SoloQuietStep DEF CycleStep
<1>2. CASE UNCHANGED vars
  BY <1>2 DEF vars, SoloInv, SoloCycle, Answers
<1> QED
  BY <1>1, <1>2, SoloOthers DEF Next

\* With one worker process, which may die at any step, no cycle ends in
\* ValueError: the lines of a batch are saved once (_poll_batch,
\* apply_llm_batch_result_lines).
THEOREM OneProcessNeverRaises ==
  ASSUME Alone
  PROVE  Spec => []NoSaveRaises
<1>1. Init => SoloInv
  BY SoloInit
<1>2. IInv /\ SoloInv /\ [Next]_vars => SoloInv'
  BY SoloNext
<1>3. SoloInv => NoSaveRaises
  BY DEF SoloInv, SoloCycle, NoSaveRaises
<1> QED
  BY <1>1, <1>2, <1>3, BatchInvariant, PTL DEF Spec

=============================================================================
