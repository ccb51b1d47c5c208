---------------------------- MODULE ChangeHistory ----------------------------
(***************************************************************************)
(* The change history of one user: a report run extracts facts, compares   *)
(* them with the facts of earlier runs, has them written up, checked and   *)
(* stored (src/agent/change_history/features/graph.py, diff.py,            *)
(* validation.py, src/infrastructure/persistence/features/                 *)
(* change_history_facts.py), and the topics of one report run side by side *)
(* on one database connection (src/agent/graph.py).                        *)
(*                                                                         *)
(* What a model answers is nondeterministic: the facts found, the verdict  *)
(* and the id of the fact each is said to update.  A value stands for its  *)
(* text, Says for the numbers, dates and polarity in it.                   *)
(***************************************************************************)
EXTENDS Naturals, Sequences, FiniteSets, SequencesExt

CONSTANTS
  Runs,           \* runs of the graph, one per report and topic
  Plans,          \* the sets of runs that may come together
  TopicOf,        \* per run: the topic as its report spells it
  Norm,           \* per spelling: lower(btrim(topic))
  ConnOf,         \* per run: its connection
  Shared,         \* connections on which the topics of one report run side by side
  Found,          \* per run: the sets of facts [key, value, drift] its sources may yield
  Replies,        \* what a model may say of a fact: a verdict, with no id, one made up or one seen
  Says,           \* per value: what it says; equal for a restated value
  Outcomes,       \* per run: outcomes of compose and impact, "ok", "bad" for a check or "failed"
  MaxRetries,     \* WORKER_MAX_RETRIES
  RecursionLimit, \* of the compiled graph
  Nil

\* What a diff may say: a fact that may be found, with a verdict and the fact it updates.
FactsFound == UNION UNION {Found[r] : r \in Runs}
Findings == [key : {f.key : f \in FactsFound}, value : {f.value : f \in FactsFound},
             drift : {f.drift : f \in FactsFound}, verdict : {"new", "updated", "duplicate"},
             updates : Nat \cup {Nil}]

\* What is assumed of the constants: the graph is given enough nodes for its retries.
RunsAreSound ==
  /\ IsFiniteSet(Runs) /\ Nil \notin Nat \cup Findings
  /\ \A r \in Runs : \A F \in Found[r] : IsFiniteSet(F)
  /\ Replies \subseteq {"new", "updated", "duplicate"} \X {"none", "made up", "seen"}
  /\ \A r \in Runs : Outcomes[r] \subseteq {"ok", "bad", "failed"}
  /\ MaxRetries \in Nat /\ RecursionLimit \in Nat
  /\ 5 + 8 * (MaxRetries + 1) * (MaxRetries + 1) <= RecursionLimit

VARIABLES
  facts,     \* change_history_facts in the order of their insertion: an id is an index
  depth,     \* per connection: transactions that are open, one in the other
  dbLock,    \* per shared connection: the run that holds db_lock
  graph      \* the state of a graph

historyVars == <<facts, depth, dbLock, graph>>

Bogus == 0  \* a well-formed id of no stored fact
NewGraph == [pc |-> "prepare", in |-> FALSE, index |-> 0, base |-> FALSE, seen |-> {}, searched |-> FALSE,
             diff |-> {}, diffs |-> 0, compose |-> "none", composes |-> 0, impact |-> "none", impacts |-> 0,
             checked |-> {}, validated |-> FALSE, valid |-> {}, problems |-> {}, flags |-> {},
             stored |-> FALSE, nodes |-> 1]

---------------------------------------------------------------------------
(* Stored facts                                                            *)

ActiveOf(topic) == {i \in DOMAIN facts : facts[i].active /\ Norm[facts[i].topic] = Norm[topic]}
\* The newest active fact of a subject and attribute.
BaseOf(topic, key) ==
  LET I == {i \in ActiveOf(topic) : facts[i].key = key}
  IN IF I = {} THEN Nil ELSE CHOOSE i \in I : \A k \in I : k <= i
\* load_change_history_facts_by_ids: of any status, and of the topic as it is spelled.
KnownIds(topic, ids) == {i \in ids \cap DOMAIN facts : facts[i].topic = topic}

---------------------------------------------------------------------------
(* The supervisor                                                          *)

Highlights(F) == {f \in F : f.verdict # "duplicate"}
FailedWorkers(r) == {p.worker : p \in {q \in r.problems : q.rework}}
NeedsCompose(r) == r.composes = 0 \/ (r.compose = "failed" /\ r.composes <= MaxRetries)
NeedsImpact(r) ==
  Highlights(r.diff) # {} /\ (r.impacts = 0 \/ (r.impact = "failed" /\ r.impacts <= MaxRetries))
Reworks_Mutant(r, worker, attempts) == worker \in FailedWorkers(r) /\ attempts <= MaxRetries + 1
Reworks(r, worker, attempts) == worker \in FailedWorkers(r) /\ attempts <= MaxRetries
Flags_Mutant(r) == {p \in r.problems : p.rework}
Flags(r) == r.problems

\* A worker that failed is called again, once; what it wrote from other facts is made anew.
Supervised(r0) ==
  LET r == [r0 EXCEPT !.nodes = @ + 2]
  IN IF r.diffs = 0 THEN [r EXCEPT !.pc = "diff"]
     ELSE IF r.diff = {} THEN [r EXCEPT !.pc = "failed"]
     ELSE IF NeedsCompose(r) THEN [r EXCEPT !.pc = "compose"]
     ELSE IF NeedsImpact(r) THEN [r EXCEPT !.pc = "impact"]
     ELSE IF ~r.validated THEN [r EXCEPT !.pc = "promote"]
     ELSE IF Reworks(r, "diff", r.diffs)
       THEN [r EXCEPT !.pc = "diff", !.compose = "none", !.composes = 0, !.impact = "none",
                      !.impacts = 0, !.validated = FALSE, !.searched = FALSE, !.seen = {}]
     ELSE IF Reworks(r, "compose", r.composes) THEN [r EXCEPT !.pc = "compose", !.validated = FALSE]
     ELSE IF Reworks(r, "impact", r.impacts) THEN [r EXCEPT !.pc = "impact", !.validated = FALSE]
     ELSE [r EXCEPT !.pc = "store", !.flags = Flags(r)]

---------------------------------------------------------------------------
(* Transactions                                                            *)

Shares(r) == ConnOf[r] \in Shared
Locking(r) == graph[r].pc \in {"prepare", "store"} /\ Shares(r)

\* connection.transaction(): the outermost one begins, another one is a savepoint in it.  A
\* run that has its connection for itself meets nobody in a transaction: it is one step.
Enter(r) ==
  LET c == ConnOf[r]
  IN /\ Shares(r) /\ ~graph[r].in
     /\ \/ graph[r].pc \in {"prepare", "promote", "check", "store"}
        \/ graph[r].pc = "diff" /\ graph[r].base /\ ~graph[r].searched
     /\ IF Locking(r) THEN dbLock[c] = Nil /\ dbLock' = [dbLock EXCEPT ![c] = r] ELSE UNCHANGED dbLock
     /\ graph' = [graph EXCEPT ![r].in = TRUE, ![r].index = depth[c]]
     /\ depth' = [depth EXCEPT ![c] = @ + 1]
     /\ UNCHANGED facts

\* It ends; the driver refuses to end one in which another is open, or that is not the last.
InOrder(r) == Shares(r) => depth[ConnOf[r]] = graph[r].index + 1
Leave(r) ==
  /\ graph[r].in = Shares(r)
  /\ depth' = IF Shares(r) THEN [depth EXCEPT ![ConnOf[r]] = @ - 1] ELSE depth
  /\ dbLock' = IF Locking(r) THEN [dbLock EXCEPT ![ConnOf[r]] = Nil] ELSE dbLock
Left(r) == [graph[r] EXCEPT !.in = FALSE]

\* Outside of the diff and of store, a refused end fails the run: generate, or no topic.
Refused(r) ==
  /\ Leave(r) /\ ~InOrder(r) /\ graph[r].pc \in {"prepare", "promote", "check"}
  /\ graph' = [graph EXCEPT ![r] = [Left(r) EXCEPT !.pc = "failed"]]
  /\ UNCHANGED facts

---------------------------------------------------------------------------
(* Nodes                                                                   *)

Prepare(r) ==
  /\ graph[r].pc = "prepare" /\ Leave(r) /\ InOrder(r)
  /\ graph' = [graph EXCEPT ![r] = Supervised([Left(r) EXCEPT !.base = ActiveOf(TopicOf[r]) # {}])]
  /\ UNCHANGED facts

\* search_base_facts, a tool of the diff: an error is an answer too.
Search(r) ==
  /\ graph[r].pc = "diff" /\ graph[r].base /\ ~graph[r].searched /\ Leave(r)
  /\ graph' = [graph EXCEPT ![r] = [Left(r) EXCEPT !.searched = TRUE,
                                      !.seen = IF InOrder(r) THEN ActiveOf(TopicOf[r]) ELSE {}]]
  /\ UNCHANGED facts

\* An answer names facts it has seen, or makes an id up; a failed call finds no facts.
Ids(how, seen) == CASE how = "none" -> {Nil} [] how = "made up" -> {Bogus} [] how = "seen" -> seen
Said(seen) == UNION {{w[1]} \X Ids(w[2], seen) : w \in Replies}
Verdicts(F, seen) ==
  {{[key |-> f.key, value |-> f.value, drift |-> f.drift, verdict |-> s[f][1], updates |-> s[f][2]] : f \in F} :
     s \in [F -> Said(seen)]}
Diff(r) ==
  /\ graph[r].pc = "diff" /\ ~graph[r].in
  /\ \E F \in Found[r] \cup {{}} : \E D \in Verdicts(F, graph[r].seen) :
       graph' = [graph EXCEPT ![r] = Supervised([graph[r] EXCEPT !.diff = D, !.diffs = @ + 1])]
  /\ UNCHANGED <<facts, depth, dbLock>>

Compose(r) ==
  /\ graph[r].pc = "compose"
  /\ \E o \in Outcomes[r] :
       graph' = [graph EXCEPT ![r] = Supervised([graph[r] EXCEPT !.compose = o, !.composes = @ + 1])]
  /\ UNCHANGED <<facts, depth, dbLock>>
Impact(r) ==
  /\ graph[r].pc = "impact"
  /\ \E o \in Outcomes[r] :
       graph' = [graph EXCEPT ![r] = Supervised([graph[r] EXCEPT !.impact = o, !.impacts = @ + 1])]
  /\ UNCHANGED <<facts, depth, dbLock>>

\* A new fact whose subject and attribute are stored updates the newest fact of theirs.
PromotedFact(f, topic) ==
  IF f.verdict = "new" /\ f.updates = Nil /\ BaseOf(topic, f.key) # Nil
  THEN [f EXCEPT !.verdict = "updated", !.updates = BaseOf(topic, f.key)] ELSE f
Promote(r) ==
  /\ graph[r].pc = "promote" /\ Leave(r) /\ InOrder(r)
  /\ graph' = [graph EXCEPT ![r] = [Left(r) EXCEPT !.pc = "check",
                                      !.checked = {PromotedFact(f, TopicOf[r]) : f \in graph[r].diff}]]
  /\ UNCHANGED facts

\* The second half of validate_delta_outputs.
Problem(worker, f, rework) == [worker |-> worker, fact |-> f, rework |-> rework]
IdsOf(F) == {f.updates : f \in {g \in F : g.verdict = "updated" /\ g.updates # Nil}}
Unknown(F, K) == {f \in F : f.verdict = "updated" /\ f.updates \notin K}
Restated_Mutant(F, K) == {f \in F : f.verdict = "updated" /\ f.updates \in K /\ facts[f.updates].value = f.value}
Restated(F, K) ==
  {f \in F : f.verdict = "updated" /\ f.updates \in K /\ Says[facts[f.updates].value] = Says[f.value]}
Valid(F, K) == F \ (Unknown(F, K) \cup Restated(F, K))
\* An attribute that drifts is a problem of a fact that passes.
Problems(r, F, K) ==
  {Problem("diff", f, TRUE) : f \in Unknown(F, K)}
  \cup {Problem("diff", f, FALSE) : f \in Restated(F, K)}
  \cup {Problem("diff", f, TRUE) : f \in {g \in Valid(F, K) : g.drift}}
  \cup (IF r.compose = "bad" THEN {Problem("compose", Nil, TRUE)} ELSE {})
  \cup (IF r.impact = "bad" THEN {Problem("impact", Nil, TRUE)} ELSE {})
Check(r) ==
  LET F == graph[r].checked
      K == KnownIds(TopicOf[r], IdsOf(F))
  IN /\ graph[r].pc = "check" /\ Leave(r) /\ InOrder(r)
     /\ graph' = [graph EXCEPT ![r] = Supervised([Left(r) EXCEPT !.valid = Valid(F, K), !.validated = TRUE,
                                                    !.problems = Problems(graph[r], F, K)])]
     /\ UNCHANGED facts

---------------------------------------------------------------------------
(* Store                                                                   *)

Row(r, f) == [topic |-> TopicOf[r], key |-> f.key, value |-> f.value, verdict |-> f.verdict,
              supersedes |-> f.updates, active |-> TRUE, by |-> r]
\* Every fact is inserted and takes the place of the one whose id it carries.
Superseding(r, rows) ==
  LET ids == {rows[k].supersedes : k \in DOMAIN rows}
  IN [i \in DOMAIN facts |->
        IF i \in ids /\ Norm[facts[i].topic] = Norm[TopicOf[r]] THEN [facts[i] EXCEPT !.active = FALSE]
        ELSE facts[i]] \o rows
Rows(r) == LET F == Highlights(graph[r].valid) IN SetToSeq({Row(r, f) : f \in F})
\* supersedes_fact_id is a foreign key.
Refers(rows) == \A k \in DOMAIN rows : rows[k].supersedes \in DOMAIN facts \cup {Nil}

\* A store that fails is a warning.  One whose end is refused counts as failed, and its rows
\* stay in whatever becomes of the transaction.
Store(r) ==
  /\ graph[r].pc = "store" /\ Leave(r)
  /\ \/ /\ InOrder(r) /\ Refers(Rows(r)) /\ facts' = Superseding(r, Rows(r))
        /\ graph' = [graph EXCEPT ![r] = [Left(r) EXCEPT !.pc = "done", !.stored = TRUE, !.nodes = @ + 2]]
     \/ /\ facts' \in IF InOrder(r) \/ ~Refers(Rows(r)) THEN {facts} ELSE {facts, Superseding(r, Rows(r))}
        /\ graph' = [graph EXCEPT ![r] = [Left(r) EXCEPT !.pc = "done", !.nodes = @ + 2]]

---------------------------------------------------------------------------

HistoryInit ==
  /\ facts = <<>>
  /\ depth = [c \in {ConnOf[r] : r \in Runs} |-> 0]
  /\ dbLock = [c \in {ConnOf[r] : r \in Runs} |-> Nil]
  /\ \E S \in Plans : graph = [r \in Runs |-> IF r \in S THEN NewGraph ELSE [NewGraph EXCEPT !.pc = "done"]]

GraphStep(r) ==
  \/ Enter(r) \/ Refused(r) \/ Prepare(r) \/ Search(r) \/ Diff(r) \/ Compose(r) \/ Impact(r)
  \/ Promote(r) \/ Check(r) \/ Store(r)
HistoryNext == \E r \in Runs : GraphStep(r)
HistorySpec == HistoryInit /\ [][HistoryNext]_historyVars

---------------------------------------------------------------------------
(* Properties                                                              *)

\* Stored facts and graphs are what the code may build, and a transaction is open
\* exactly where a graph is in one.
HistoryTypeOK ==
  /\ \A i \in DOMAIN facts :
       /\ facts[i].verdict \in {"new", "updated"} /\ facts[i].active \in BOOLEAN
       /\ facts[i].supersedes \in 1..(i - 1) \cup {Nil}
  /\ \A c \in DOMAIN depth : depth[c] = Cardinality({r \in Runs : ConnOf[r] = c /\ graph[r].in})
  /\ \A r \in Runs :
       /\ graph[r].pc \in {"prepare", "diff", "compose", "impact", "promote", "check", "store", "done", "failed"}
       /\ graph[r].diffs \in Nat /\ graph[r].in \in BOOLEAN

\* The retries of the workers, the calls that fail and the reworks a check asks for, in
\* whatever order they come, stay within the recursion limit chg_001 gives its graph.
WithinRecursionLimit == \A r \in Runs : graph[r].nodes <= RecursionLimit

\* What a diff found is stored, known already or written down as a problem once the run
\* stored: no rework and no promotion loses a fact without a trace.
NothingDroppedSilently ==
  \A r \in Runs : graph[r].stored =>
    \A f \in graph[r].diff :
      \/ f.verdict = "duplicate"
      \/ \E p \in graph[r].flags : p.fact # Nil /\ p.fact.key = f.key /\ p.fact.value = f.value
      \/ \E i \in DOMAIN facts : facts[i].by = r /\ facts[i].key = f.key /\ facts[i].value = f.value

\* An update that was stored takes the place of a fact of its own topic and says something
\* else, and a fact goes only when another takes its place, whoever ran in between.
UpdatesAreReal ==
  \A i \in DOMAIN facts :
    /\ facts[i].verdict = "updated" =>
         /\ facts[i].supersedes # Nil
         /\ LET b == facts[facts[i].supersedes]
            IN b.topic = facts[i].topic /\ Says[b.value] # Says[facts[i].value]
    /\ ~facts[i].active => \E k \in DOMAIN facts : facts[k].supersedes = i

\* The three of them, of the types above.
HistoryIsTrue == HistoryTypeOK /\ WithinRecursionLimit /\ NothingDroppedSilently /\ UpdatesAreReal
=============================================================================
