------------------------------- MODULE Interests -------------------------------
(***************************************************************************)
(* What a user is interested in and what the collector follows for it      *)
(* (src/domain/interests, src/infrastructure/persistence/features/         *)
(* interest_taxonomy.py, interest_profiles.py, interest_bundles.py).       *)
(*                                                                         *)
(* Topics come in by two ways: the user chooses them (a context snapshot), *)
(* and the personal wiki shows them (an interest profile, computed after a *)
(* build and by the hourly pass).  Both write subscriptions and collection *)
(* targets in transactions that run side by side under READ COMMITTED: a   *)
(* transaction is its statements, its own writes are kept in tx, and the   *)
(* shared tables change when it commits.  Any transaction may abort.       *)
(***************************************************************************)
EXTENDS Naturals, Sequences, FiniteSets, FiniteSetsExt

CONSTANTS
  Users,
  Procs,         \* workers, scheduler passes and API requests that run at a time
  Wiki,          \* the versions of a wiki in order: [nodes, links]
  Chosen,       \* contexts users save: [topics (taxonomy ids), custom (words)]
  TaxonomyTopics,\* topics of the service's taxonomy, by name
  Labels,        \* words of the onboarding seeds
  Signals,       \* feedback events: id -> [topic, weight]
  Rank,          \* topic -> its place in the order of names
  WikiLimit,     \* _WIKI_INTEREST_TARGET_LIMIT
  Neighbors,     \* neighbor_limit
  Mid, High,     \* subscriber counts of the shorter intervals
  Low,           \* the longest base interval; half of it at Mid, a quarter at High
  Capacity,      \* runs per Low
  MaxInterval,   \* _COLLECTION_MAX_REFRESH_MINUTES
  Contexts,      \* per user: contexts it saves at most
  Builds,        \* per user: wiki versions it builds at most
  Profiles,      \* per user: profiles after which no further one is begun
  MaxRequests    \* reports asked for

VARIABLES
  taxonomy,   \* the taxonomy snapshot is stored
  context,    \* per user: [version, choice] of the newest context, version 0 for none
  wiki,       \* per user: the active wiki version, 0 for none
  feedback,   \* ids of stored feedback events
  profile,    \* per user: [version, wiki, interests] of the active profile
  targets,    \* interest_collection_targets
  subs,       \* active rows of user_interest_subscriptions
  calc,       \* per process: the profile it computes
  tx,         \* per process: the transaction it is in
  asked,      \* a report request between finding its interest and its bundle
  bundles     \* bundles stored with report jobs

interestVars == <<taxonomy, context, wiki, feedback, profile, targets, subs, calc, tx, asked, bundles>>

QueryTopics == DOMAIN Rank

\* Finitely many users and names; the constants of the policy, of which the
\* shorter intervals divide the longest.
InterestsAreSound ==
  /\ IsFiniteSet(Users) /\ Users # {} /\ IsFiniteSet(Procs) /\ IsFiniteSet(QueryTopics)
  /\ TaxonomyTopics \subseteq QueryTopics
  /\ DOMAIN Chosen \subseteq Nat \ {0} /\ \A c \in DOMAIN Chosen : Chosen[c].custom \subseteq QueryTopics
  /\ \A u \in Users : Contexts[u] \in Nat /\ Builds[u] \in Nat /\ Profiles[u] \in Nat
  /\ Mid \in Nat /\ High \in Nat /\ Capacity \in Nat \ {0}
  /\ Low \in Nat \ {0} /\ Low % 4 = 0 /\ MaxInterval \in Nat /\ Low <= MaxInterval

Keys == {"taxonomy", "custom"} \X QueryTopics     \* the query of a target is its topic
NoTarget == [status |-> "none", count |-> 0, interval |-> Low]
NewTarget == [status |-> "active", count |-> 0, interval |-> Low]
NoCalc == [pc |-> "idle", user |-> CHOOSE u \in Users : TRUE, wiki |-> 0, interests |-> {}]
NoTx == [pc |-> "none", user |-> CHOOSE u \in Users : TRUE, origin |-> "onboarding",
         choice |-> 0, version |-> 0, want |-> {}, up |-> {}, off |-> {}, on |-> {}]

InterestsInit ==
  /\ taxonomy = FALSE
  /\ context = [u \in Users |-> [version |-> 0, choice |-> 0]]
  /\ wiki = [u \in Users |-> 0]
  /\ feedback = {}
  /\ profile = [u \in Users |-> [version |-> 0, wiki |-> 0, interests |-> {}]]
  /\ targets = [k \in Keys |-> NoTarget]
  /\ subs = {}
  /\ calc = [p \in Procs |-> NoCalc]
  /\ tx = [p \in Procs |-> NoTx]
  /\ asked = {}
  /\ bundles = {}

-----------------------------------------------------------------------------
(* Extraction and scores.  Weights are small integers in place of logs. *)

LinkedWith(v, d) == {e \in UNION {l.ends : l \in {m \in Wiki[v].links : d \in m.ends}} : e # d}
Degree(v, d) == FoldSet(LAMBDA e, sum : sum + Max({l.weight : l \in {m \in Wiki[v].links : m.ends = {d, e}}}),
                                     0, LinkedWith(v, d))
_is_unselected_seed_node(n) == n.sources = {"seed"} /\ Labels # {} /\ n.title \notin Labels
Group(v, t) == {n \in Wiki[v].nodes : n.title = t /\ ~_is_unselected_seed_node(n)}
Subject(v, t) == (\E n \in Group(v, t) : n.subject = "no") => \E n \in Group(v, t) : n.subject = "yes"
int_001(v) == {t \in QueryTopics : Group(v, t) # {}}
_intensity(v, t) == 1 + Cardinality(UNION {n.sources : n \in Group(v, t)})
Base(v, t) ==
  IF t \notin int_001(v) THEN 0
  ELSE (1 + FoldSet(LAMBDA n, sum : sum + Degree(v, n.doc), 0, Group(v, t))) * _intensity(v, t)
Boost(t) == FoldSet(LAMBDA e, sum : sum + Signals[e].weight, 0, {e \in feedback : Signals[e].topic = t})
Weight(v, t) == Base(v, t) + Boost(t)
int_005(v) ==   \* the scored interests: topics of the wiki and topics only feedback names
  LET named == int_001(v) \cup {t \in QueryTopics : Boost(t) > 0}
      top == IF named = {} THEN 0 ELSE Max({Weight(v, t) : t \in named})
  IN  {[topic |-> t, weight |-> Weight(v, t), followed |-> 10 * Weight(v, t) >= 3 * top,
        subject |-> Subject(v, t),
        docs |-> {n.doc : n \in Group(v, t)}] : t \in named}

Before(a, b) == a.weight > b.weight \/ (a.weight = b.weight /\ Rank[a.topic] < Rank[b.topic])
WikiTopics(is) ==   \* sync_wiki_interest_collection_targets: what a profile registers
  LET worthy == {i \in is : i.subject /\ i.followed}
  IN  {i.topic : i \in {j \in worthy : Cardinality({k \in worthy : Before(k, j)}) < WikiLimit}}

-----------------------------------------------------------------------------
(* The policy of the collection targets. *)

Subscribers(ss, k) == Cardinality({s \in ss : s.key = k})
_base_collection_refresh_interval(n) == IF n >= High THEN Low \div 4 ELSE IF n >= Mid THEN Low \div 2 ELSE Low
BaseDemand(ss) ==
  SumFunctionOnSet([k \in Keys |-> Low \div _base_collection_refresh_interval(Subscribers(ss, k))], {s.key : s \in ss})
CeilDiv(a, b) == (a + b - 1) \div b
_scaled_collection_refresh_intervals(ss, k) ==
  LET base == _base_collection_refresh_interval(Subscribers(ss, k))
      scaled == IF BaseDemand(ss) <= Capacity THEN base ELSE CeilDiv(base * BaseDemand(ss), Capacity)
  IN  IF scaled > MaxInterval THEN MaxInterval ELSE scaled

Upserted(ts, ks) == [k \in Keys |-> IF k \notin ks THEN ts[k]
                                    ELSE IF ts[k] = NoTarget THEN NewTarget
                                    ELSE [ts[k] EXCEPT !.status = "active"]]
_reconcile_Paused_Mutant(ts, ss) ==
  [k \in Keys |-> IF ts[k].status = "none" THEN ts[k]
                  ELSE LET n == Subscribers(ss, k)
                       IN  [status |-> IF n = 0 THEN "paused" ELSE ts[k].status, count |-> n,
                            interval |-> IF n = 0 THEN ts[k].interval ELSE _scaled_collection_refresh_intervals(ss, k)]]
_reconcile_Changed_Mutant(ts, ss) ==
  [k \in Keys |-> IF ts[k].status = "none" THEN ts[k]
                  ELSE LET n == Subscribers(ss, k)
                       IN  [status |-> IF n = 0 THEN "paused" ELSE "active", count |-> n,
                            interval |-> IF n = ts[k].count THEN ts[k].interval ELSE _scaled_collection_refresh_intervals(ss, k)]]
_reconcile_collection_target_policy(ts, ss) ==
  [k \in Keys |-> IF ts[k].status = "none" THEN ts[k]
                  ELSE LET n == Subscribers(ss, k)
                       IN  [status |-> IF n = 0 THEN "paused" ELSE "active", count |-> n,
                            interval |-> IF n = 0 THEN ts[k].interval ELSE _scaled_collection_refresh_intervals(ss, k)]]

-----------------------------------------------------------------------------
(* Saving what is known: the taxonomy, a wiki version, a feedback event. *)

upsert_interest_taxonomy_snapshot ==
  /\ ~taxonomy
  /\ taxonomy' = TRUE
  /\ targets' = [k \in Keys |-> IF k[1] = "taxonomy" /\ k[2] \in TaxonomyTopics /\ targets[k] = NoTarget
                                THEN NewTarget ELSE targets[k]]
  /\ UNCHANGED <<context, wiki, feedback, profile, subs, calc, tx, asked, bundles>>

BuildWiki(u) ==
  /\ wiki[u] < Builds[u]
  /\ wiki' = [wiki EXCEPT ![u] = @ + 1]
  /\ UNCHANGED <<taxonomy, context, feedback, profile, targets, subs, calc, tx, asked, bundles>>

save_feedback_signals_for_user(e) ==
  /\ e \notin feedback        \* source_event_id: delivered again it is skipped
  /\ feedback' = feedback \cup {e}
  /\ UNCHANGED <<taxonomy, context, wiki, profile, targets, subs, calc, tx, asked, bundles>>

-----------------------------------------------------------------------------
(* INT-011: the documents are read in one transaction, the profile is      *)
(* stored in a later one.                                                  *)

\* Users with an active wiki; a profile may be of any age, so each may be due.
list_users_for_interest_recalculation == {u \in Users : wiki[u] > 0}

load_interest_documents_for_user(p, u) ==
  /\ calc[p].pc = "idle" /\ tx[p].pc = "none"
  /\ u \in list_users_for_interest_recalculation     \* a build's hook or a request: otherwise ActiveWikiRequiredError
  /\ profile[u].version < Profiles[u]
  /\ calc' = [calc EXCEPT ![p] = [NoCalc EXCEPT !.pc = "scoring", !.user = u, !.wiki = wiki[u]]]
  /\ UNCHANGED <<taxonomy, context, wiki, feedback, profile, targets, subs, tx, asked, bundles>>

save_interest_profile_for_user(p) ==
  LET u == calc[p].user
      found == int_005(calc[p].wiki)
  IN  /\ calc[p].pc = "scoring"
      /\ profile' = [profile EXCEPT ![u] = [version |-> @.version + 1, wiki |-> calc[p].wiki, interests |-> found]]
      /\ calc' = [calc EXCEPT ![p].pc = "saved", ![p].interests = found]
      /\ UNCHANGED <<taxonomy, context, wiki, feedback, targets, subs, tx, asked, bundles>>

-----------------------------------------------------------------------------
(* The transactions that change subscriptions. *)

Upserts(p, ks) == \A q \in Procs \ {p} : tx[q].up \cap ks = {}    \* their target rows are free

\* A profile without candidates still takes back what earlier ones subscribed;
\* with candidates and no context nothing is touched.
_register_wiki_interest_targets(p) ==
  LET u == calc[p].user
      names == WikiTopics(calc[p].interests)
      Active(t) == {k \in Keys : k[2] = t /\ targets[k].status = "active"}
  IN  /\ calc[p].pc = "saved"
      /\ calc' = [calc EXCEPT ![p] = NoCalc]
      /\ IF names # {} /\ context[u].version = 0 THEN UNCHANGED tx
         ELSE \E pick \in [names -> Keys] :
                LET new == {pick[t] : t \in {s \in names : Active(s) = {}}}
                IN  /\ \A t \in names : pick[t] \in IF Active(t) = {} THEN {<<"custom", t>>} ELSE Active(t)
                    /\ Upserts(p, new)
                    /\ tx' = [tx EXCEPT ![p] = [NoTx EXCEPT !.pc = "deactivate", !.user = u, !.origin = "wiki_interest",
                                                            !.want = {pick[t] : t \in names}, !.up = new]]
      /\ UNCHANGED <<taxonomy, context, wiki, feedback, profile, targets, subs, asked, bundles>>

upsert_user_context_snapshot_Mutant(p, u, v, c) ==
  LET chosen == Chosen[c].topics
      words == Chosen[c].custom \ chosen
      new == {<<"custom", t>> : t \in words}
  IN  /\ tx[p].pc = "none" /\ calc[p].pc = "idle"
      /\ v > context[u].version
      /\ chosen = {} \/ (taxonomy /\ chosen \subseteq TaxonomyTopics)
      /\ Upserts(p, new)
      /\ tx' = [tx EXCEPT ![p] = [NoTx EXCEPT !.pc = "deactivate", !.user = u, !.choice = c, !.version = v, !.up = new,
                                              !.want = {<<"taxonomy", t>> : t \in chosen} \cup new]]
      /\ UNCHANGED <<taxonomy, context, wiki, feedback, profile, targets, subs, calc, asked, bundles>>
\* The advisory lock of the user's context is held until the commit; a version
\* that is not newer raises StaleContextVersionError, an unknown topic ValueError.
upsert_user_context_snapshot(p, u, v, c) ==
  LET chosen == Chosen[c].topics
      words == Chosen[c].custom \ chosen
      new == {<<"custom", t>> : t \in words}
  IN  /\ tx[p].pc = "none" /\ calc[p].pc = "idle"
      /\ \A q \in Procs : tx[q].pc = "none" \/ tx[q].origin # "onboarding" \/ tx[q].user # u
      /\ v > context[u].version
      /\ chosen = {} \/ (taxonomy /\ chosen \subseteq TaxonomyTopics)
      /\ Upserts(p, new)
      /\ tx' = [tx EXCEPT ![p] = [NoTx EXCEPT !.pc = "deactivate", !.user = u, !.choice = c, !.version = v, !.up = new,
                                              !.want = {<<"taxonomy", t>> : t \in chosen} \cup new]]
      /\ UNCHANGED <<taxonomy, context, wiki, feedback, profile, targets, subs, calc, asked, bundles>>

Deactivate(p) ==   \* the statement begins: the active rows of the same origin
  /\ tx[p].pc = "deactivate"
  /\ tx' = [tx EXCEPT ![p].pc = "waiting", ![p].off = {s \in subs : s.user = tx[p].user /\ s.origin = tx[p].origin}]
  /\ UNCHANGED <<taxonomy, context, wiki, feedback, profile, targets, subs, calc, asked, bundles>>

Held(q) == IF tx[q].pc = "waiting" THEN {} ELSE tx[q].on \cup tx[q].off

\* It ends when no other transaction is changing one of them; a row that one
\* has made inactive meanwhile no longer matches, and the row put in its place
\* was not seen.
Deactivated(p) ==
  /\ tx[p].pc = "waiting"
  /\ \A q \in Procs \ {p} : Held(q) \cap tx[p].off = {}
  /\ tx' = [tx EXCEPT ![p].pc = "insert"]
  /\ UNCHANGED <<taxonomy, context, wiki, feedback, profile, targets, subs, calc, asked, bundles>>

\* ON CONFLICT (user_id, target_key) WHERE active DO NOTHING; a row another
\* transaction is changing is waited for.
InsertSubscriptions(p) ==
  LET me == tx[p]
      Row(k) == [user |-> me.user, key |-> k, origin |-> me.origin]
      taken == {s.key : s \in {r \in subs \ me.off : r.user = me.user}}
  IN  /\ me.pc = "insert"
      /\ \A q \in Procs \ {p} : \A s \in Held(q) : s.user = me.user => s.key \notin me.want
      /\ tx' = [tx EXCEPT ![p].pc = "reconcile", ![p].on = {Row(k) : k \in me.want \ taken}]
      /\ UNCHANGED <<taxonomy, context, wiki, feedback, profile, targets, subs, calc, asked, bundles>>

\* The lock of the policy is taken, everything committed is counted, and the
\* transaction commits; a target row another transaction has upserted is waited for.
ReconcileAndCommit(p) ==
  LET me == tx[p]
      left == (subs \ me.off) \cup me.on
      written == Upserted(targets, me.up)
      after == _reconcile_collection_target_policy(written, left)
  IN  /\ me.pc = "reconcile"
      /\ Upserts(p, {k \in Keys : after[k] # written[k]})
      /\ subs' = left
      /\ targets' = after
      /\ context' = IF me.version <= context[me.user].version THEN context   \* append-only: the newest counts
                    ELSE [context EXCEPT ![me.user] = [version |-> me.version, choice |-> me.choice]]
      /\ tx' = [q \in Procs |-> IF q = p THEN NoTx
                              ELSE IF tx[q].pc = "waiting" THEN [tx[q] EXCEPT !.off = @ \ me.off] ELSE tx[q]]
      /\ UNCHANGED <<taxonomy, wiki, feedback, profile, calc, asked, bundles>>

\* A deadlock or a lost connection: the wiki build goes on, a request gets an error.
Abort(p) ==
  /\ tx[p].pc # "none"
  /\ tx' = [tx EXCEPT ![p] = NoTx]
  /\ UNCHANGED <<taxonomy, context, wiki, feedback, profile, targets, subs, calc, asked, bundles>>

-----------------------------------------------------------------------------
(* A report request about an active interest keeps its bundle: two reads.  *)

int_013(u, t) ==
  /\ asked = {}
  /\ Cardinality(bundles) < MaxRequests
  /\ \E i \in profile[u].interests : i.topic = t
  /\ asked' = {[user |-> u, topic |-> t, version |-> profile[u].version]}
  /\ UNCHANGED <<taxonomy, context, wiki, feedback, profile, targets, subs, calc, tx, bundles>>

Alive(u, ds) == {n \in Wiki[wiki[u]].nodes : n.doc \in ds}
list_related_nodes(u, ds) ==   \* 1 hop over relations with support, the heaviest first
  LET links == {l \in Wiki[wiki[u]].links : l.supported /\ l.ends \cap ds # {}}
      peers == {n \in Wiki[wiki[u]].nodes : n.doc \notin ds /\ \E l \in links : n.doc \in l.ends}
      Sum(n) == FoldSet(LAMBDA l, sum : sum + l.weight, 0, {l \in links : n.doc \in l.ends})
      First(a, b) == Sum(a) > Sum(b) \/ (Sum(a) = Sum(b) /\ Rank[a.title] < Rank[b.title])
  IN  {n.doc : n \in {m \in peers : Cardinality({o \in peers : First(o, m)}) < Neighbors}}

\* ActiveInterestRequiredError when the profile was replaced in between: the
\* topic is searched without a bundle.
int_012 ==
  \E a \in asked :
    LET i == CHOOSE j \in profile[a.user].interests : j.topic = a.topic
        roots == {n.doc : n \in Alive(a.user, i.docs)}
    IN  /\ asked' = {}
        /\ bundles' = IF profile[a.user].version # a.version THEN bundles
                      ELSE bundles \cup {[user |-> a.user, topic |-> a.topic, profile |-> a.version, roots |-> roots,
                                          near |-> list_related_nodes(a.user, roots)]}
        /\ UNCHANGED <<taxonomy, context, wiki, feedback, profile, targets, subs, calc, tx>>

-----------------------------------------------------------------------------
InterestsNext ==
  \/ upsert_interest_taxonomy_snapshot
  \/ \E u \in Users : BuildWiki(u)
  \/ \E e \in DOMAIN Signals : save_feedback_signals_for_user(e)
  \/ \E p \in Procs, u \in Users : load_interest_documents_for_user(p, u)
  \/ \E p \in Procs, u \in Users, c \in DOMAIN Chosen : \E v \in 1..Contexts[u] : upsert_user_context_snapshot(p, u, v, c)
  \/ \E p \in Procs : \/ save_interest_profile_for_user(p)
                      \/ _register_wiki_interest_targets(p)
                      \/ Deactivate(p)
                      \/ Deactivated(p)
                      \/ InsertSubscriptions(p)
                      \/ ReconcileAndCommit(p)
                      \/ Abort(p)
  \/ \E u \in Users, t \in QueryTopics : int_013(u, t)
  \/ int_012

InterestsSpec == InterestsInit /\ [][InterestsNext]_interestVars

-----------------------------------------------------------------------------
Subscription == [user : Users, key : Keys, origin : {"onboarding", "wiki_interest"}]

\* Every variable stays in the domain its table or its worker gives it.
InterestTypeOK ==
  /\ taxonomy \in BOOLEAN
  /\ \A u \in Users : /\ context[u].version \in 0..Contexts[u]
                     /\ context[u].choice = 0 <=> context[u].version = 0
                     /\ wiki[u] \in 0..Builds[u]
                     /\ profile[u].version \in 0..(Profiles[u] + Cardinality(Procs)) /\ profile[u].wiki <= wiki[u]
  /\ feedback \subseteq DOMAIN Signals
  /\ targets \in [Keys -> [status : {"none", "active", "paused"}, count : 0..Cardinality(Users), interval : 1..MaxInterval]]
  /\ subs \subseteq Subscription
  /\ \A s, r \in subs : s.user = r.user /\ s.key = r.key => s = r
  /\ \A p \in Procs : calc[p].pc \in {"idle", "scoring", "saved"} /\ tx[p].on \cup tx[p].off \subseteq Subscription
  /\ Cardinality(asked) <= 1
  /\ \A b \in bundles : b.near \cap b.roots = {}

\* Whatever transactions ran side by side, a target has the number of its
\* committed subscriptions, and one that somebody is subscribed to is collected.
PolicyFollowsSubscriptions ==
  \A k \in Keys : /\ targets[k].count = Subscribers(subs, k)
                  /\ targets[k].count > 0 => targets[k].status = "active"

\* The targets that are subscribed to ask, at their intervals, for no more runs
\* than the daily capacity (_scaled_collection_refresh_intervals), unless the
\* longest interval is reached.
FitsCapacity(asking, Interval) ==
  LET Product(ks) == FoldFunctionOnSet(LAMBDA x, y : x * y, 1, Interval, ks)
  IN  (\A k \in asking : Interval[k] < MaxInterval)
        => SumFunctionOnSet([k \in Keys |-> Low * Product(asking \ {k})], asking) <= Capacity * Product(asking)
DemandFitsCapacity ==
  FitsCapacity({k \in Keys : targets[k].count > 0}, [k \in Keys |-> targets[k].interval])

\* The subscriptions of a user's own choice are those of the newest context:
\* an older context that is saved late leaves nothing behind.
OnboardingFollowsContext ==
  \A s \in subs : s.origin = "onboarding" =>
    LET c == Chosen[context[s.user].choice]
    IN  s.key \in {<<"taxonomy", t>> : t \in c.topics} \cup {<<"custom", t>> : t \in c.custom}

\* What the collector reads follows what users chose and what their wikis say.
SubscriptionsAgree ==
  /\ InterestTypeOK
  /\ PolicyFollowsSubscriptions
  /\ DemandFitsCapacity
  /\ OnboardingFollowsContext
=============================================================================
