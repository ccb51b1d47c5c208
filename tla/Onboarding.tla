----------------------------- MODULE Onboarding -----------------------------
(***************************************************************************)
(* From the interests a user of bambi-agent-api chooses to the pages of    *)
(* the wiki and the first reports.  A context is stored in a transaction;  *)
(* after it, and without undoing it when they fail, a seed document is     *)
(* stored, with the build of its version, and a report job per topic.      *)
(* All seeds of a user are versions of one head, and a build that finds    *)
(* more than one version rebuilds the wiki from the latest.  A keyword of  *)
(* the user's own is an official topic, or a page there is, or what was    *)
(* found before (a cache), or what a model says, or a generic text.        *)
(*                                                                         *)
(* The rest of a build is in WikiBuild, claims and leases in JobQueue and  *)
(* PersonalWiki: a lease may lapse, and a worker be gone, at any time.     *)
(***************************************************************************)
EXTENDS Naturals, Sequences, FiniteSets

CONSTANTS
  Requests,     \* context_versions of the context requests, which may cross
  Selections,   \* what may be chosen: interests, taxonomy version and language
  ChoiceOf,     \* the choice of a request
  BodyOf,       \* the seed a choice reads as: two languages of a choice read the same
  KeywordsOf,   \* the keywords of a choice that are of the user's own
  TopicsOf,     \* the topics of a choice
  SignOf,       \* the taxonomy version and locale of a choice
  LocaleOf,     \* the locale of these
  Keywords, Signs,
  ChosenTopics, \* the topics of all choices
  Official,     \* keywords that are the name or alias of exactly one taxonomy topic
  Interests,    \* idempotency keys of INTEREST_BUNDLE requests
  Workers, None,
  MaxVersions   \* bound: versions of the seed

\* What is assumed of the constants.
ChoicesAreSound ==
  /\ Requests \subseteq Nat /\ MaxVersions \in Nat
  /\ ChoiceOf \in [Requests -> Selections] /\ SignOf \in [Selections -> Signs]
  /\ KeywordsOf \in [Selections -> SUBSET Keywords] /\ TopicsOf \in [Selections -> SUBSET ChosenTopics]
  /\ None \notin {"official", "named", "renamed", "generic"}

Events == Selections                    \* onboarding-seed:<checksum of the choice>
SeedJobs == Events \X (1 .. MaxVersions)
Meanings == {"official", "named", "renamed", "generic"}

VARIABLES
  context,  \* the context_version that is stored last
  request,  \* what is left to do for a request
  seed,     \* versions of the onboarding_seed head: the choices they were made of
  seedJob,  \* personal_wiki_build jobs of the seed
  worker,   \* what a worker runs
  cache,    \* user_custom_topic_contexts
  wikiPages,\* the pages of keywords
  report,   \* the context of the report job of a topic, 0 if there is none
  bundle    \* INTEREST_BUNDLE requests: job, interest active, last answer

onboardingVars == <<context, request, seed, seedJob, worker, cache, wikiPages, report, bundle>>
requests == <<context, request, report, bundle>>
builds == <<seedJob, worker, cache, wikiPages>>

NoPages == [k \in Keywords |-> None]
Idle == [step |-> "idle", job |-> None, full |-> FALSE, found |-> NoPages, asked |-> {}]

OnboardingInit ==
  /\ context = 0
  /\ request = [r \in Requests |-> [step |-> "none", topics |-> {}]]
  /\ seed = <<>>
  /\ seedJob = [j \in SeedJobs |-> "absent"]
  /\ worker = [w \in Workers |-> Idle]
  /\ cache = [k \in Keywords |-> [s \in Signs |-> [status |-> "absent", meaning |-> None]]]
  /\ wikiPages = NoPages
  /\ report = [t \in ChosenTopics |-> 0]
  /\ bundle = [i \in Interests |-> [job |-> FALSE, active |-> TRUE, answer |-> "none"]]

----------------------------------------------------------------------------
(* Requests. *)

\* A context that is not newer than the stored one is a 409 with its version.
UpsertUserContext(r) ==
  /\ request[r].step = "none"
  /\ IF r > context
     THEN /\ context' = r
          /\ request' = [request EXCEPT ![r] = [step |-> "saved", topics |-> TopicsOf[ChoiceOf[r]]]]
     ELSE /\ request' = [request EXCEPT ![r].step = "stale"]
          /\ UNCHANGED context
  /\ UNCHANGED <<seed, builds, report, bundle>>

\* The single active head: a version if the body differs from the latest, under a
\* lock of the user.
SeedVersions(c) ==
  IF seed # <<>> /\ BodyOf[seed[Len(seed)]] = BodyOf[c] THEN seed ELSE Append(seed, c)

\* The build of the version, once per choice and version.
SaveOnboardingSeed(c) ==
  LET s == SeedVersions(c)
  IN /\ Len(s) <= MaxVersions
     /\ seed' = s
     /\ seedJob' = [seedJob EXCEPT ![<<c, Len(s)>>] = IF @ = "absent" THEN "queued" ELSE @]

\* Stored, or failed and logged.
SeedOnboardingInterests(r) ==
  /\ request[r].step = "saved"
  /\ request' = [request EXCEPT ![r].step = "seeded"]
  /\ \/ SaveOnboardingSeed(ChoiceOf[r])
     \/ UNCHANGED <<seed, seedJob>>
  /\ UNCHANGED <<context, worker, cache, wikiPages, report, bundle>>

\* The job is registered once per user and topic and is for the latest context.
EnqueueReportGeneration(t) ==
  report' = [report EXCEPT ![t] = IF @ = 0 THEN context ELSE @]

\* One topic after the other; a failure is logged.
EnqueueInterestReports(r, t) ==
  /\ request[r].step = "seeded" /\ t \in request[r].topics
  /\ request' = [request EXCEPT ![r].topics = @ \ {t}]
  /\ EnqueueReportGeneration(t) \/ UNCHANGED report
  /\ UNCHANGED <<context, seed, builds, bundle>>

\* The server process dies: what is left of a request is lost.
Lose(r) ==
  /\ request[r].step \in {"saved", "seeded"}
  /\ request' = [request EXCEPT ![r] = [step |-> "lost", topics |-> {}]]
  /\ UNCHANGED <<context, seed, builds, report, bundle>>

\* Mutant: the interest is looked up before the job of the key.
AcceptedBundle_Mutant(i) == bundle[i].active

\* A request that has its job is answered with it, before its interest is looked up.
AcceptedBundle(i) == bundle[i].job \/ bundle[i].active

\* An INTEREST_BUNDLE report, which needs a context and an active interest.
SubmitGeneration(i) ==
  LET accepted == context # 0 /\ AcceptedBundle(i)
  IN /\ bundle' = [bundle EXCEPT ![i].job = @ \/ accepted,
                                 ![i].answer = IF accepted THEN "accepted" ELSE "conflict"]
     /\ UNCHANGED <<context, request, seed, builds, report>>

\* The profile is computed anew, and the interest is in it or not.
Recalculate(i) ==
  /\ bundle' = [bundle EXCEPT ![i].active = ~@]
  /\ UNCHANGED <<context, request, seed, builds, report>>

----------------------------------------------------------------------------
(* Builds. *)

\* A running job whose lease is over is claimed again.
ClaimBuild(w, j) ==
  /\ worker[w].step = "idle" /\ seedJob[j] \in {"queued", "running"}
  /\ seedJob' = [seedJob EXCEPT ![j] = "running"]
  /\ worker' = [worker EXCEPT ![w] = [Idle EXCEPT !.step = "claimed", !.job = j]]
  /\ UNCHANGED <<requests, seed, cache, wikiPages>>

\* Mutant: builds of a user run side by side.
LockFree_Mutant(w) == TRUE

\* The session lock of the user, held from the first read to the end of the job.
LockFree(w) == \A u \in Workers \ {w} : worker[u].step \notin {"started", "loaded", "resolved"}

\* Mutant: the version of the job decides, not that of the head.
IsRebuild_Mutant(j) == j[2] > 1

IsRebuild(j) == Len(seed) > 1

StartBuild(w) ==
  /\ worker[w].step = "claimed" /\ LockFree(w)
  /\ worker' = [worker EXCEPT ![w].step = "started", ![w].full = IsRebuild(worker[w].job)]
  /\ UNCHANGED <<requests, seed, seedJob, cache, wikiPages>>

\* The choice that is built: a rebuild reads the latest version, a build that of its job.
\* A version keeps the choice that made it: one that reads the same adds none.
Source(w) == IF worker[w].full THEN seed[Len(seed)] ELSE seed[worker[w].job[2]]

\* An active context of the keyword, for the taxonomy version and locale of the seed.
Cached(k, s) == cache[k][s].status = "active"

\* A page with the keyword as its title or alias.
Existing(k) == wikiPages[k] \notin {None, "renamed"}

\* A keyword that is resolved without a model: by the taxonomy, the wiki, the cache.
Known(k, s) ==
  IF k \in Official THEN "official"
  ELSE IF Existing(k) THEN wikiPages[k]
  ELSE IF Cached(k, s) THEN cache[k][s].meaning
  ELSE None

Load(w) ==
  LET c == Source(w)
      found == [k \in Keywords |-> IF k \in KeywordsOf[c] THEN Known(k, SignOf[c]) ELSE None]
  IN /\ worker[w].step = "started"
     /\ worker' = [worker EXCEPT ![w].step = "loaded", ![w].found = found,
                     ![w].asked = {[keyword |-> k, sign |-> SignOf[c]] :
                                     k \in {x \in KeywordsOf[c] : found[x] = None}}]
     /\ UNCHANGED <<requests, seed, seedJob, cache, wikiPages>>

\* What one call for all keywords that are left says: a name of the keyword or another
\* for some of them, and for none if it fails.
Answers(ks) == UNION {[answered -> {"named", "renamed"}] : answered \in SUBSET ks}

\* Keywords without an answer get the generic text.
Resolve(w) ==
  LET ks == {a.keyword : a \in worker[w].asked}
  IN /\ worker[w].step = "loaded"
     /\ \E says \in Answers(ks) :
          worker' = [worker EXCEPT ![w].step = "resolved",
                       ![w].found = [k \in Keywords |->
                          IF k \in DOMAIN says THEN says[k]
                          ELSE IF k \in ks THEN "generic" ELSE @[k]]]
     /\ UNCHANGED <<requests, seed, seedJob, cache, wikiPages>>

\* Mutant: contexts of other signatures stay active.
Saved_Mutant(a, m) == [cache[a.keyword] EXCEPT ![a.sign] = [status |-> "active", meaning |-> m]]

\* A context takes the place of those of its keyword and locale with other signatures.
Saved(a, m) ==
  [s \in Signs |->
     IF s = a.sign THEN [status |-> "active", meaning |-> m]
     ELSE IF LocaleOf[s] = LocaleOf[a.sign] /\ cache[a.keyword][s].status = "active"
     THEN [cache[a.keyword][s] EXCEPT !.status = "superseded"]
     ELSE cache[a.keyword][s]]

SaveCustomTopicContexts(w) ==
  cache' = [k \in Keywords |->
              IF \E a \in worker[w].asked : a.keyword = k
              THEN Saved(CHOOSE a \in worker[w].asked : a.keyword = k, worker[w].found[k])
              ELSE cache[k]]

\* A build adds the pages of its source, a rebuild puts them in place of all pages; the
\* contexts are saved in the same transaction.
Persist(w) ==
  /\ worker[w].step = "resolved"
  /\ SaveCustomTopicContexts(w)
  /\ wikiPages' = [k \in Keywords |-> IF worker[w].full \/ worker[w].found[k] # None
                                      THEN worker[w].found[k] ELSE wikiPages[k]]
  /\ seedJob' = [seedJob EXCEPT ![worker[w].job] = "completed"]
  /\ worker' = [worker EXCEPT ![w] = Idle]
  /\ UNCHANGED <<requests, seed>>

\* The build raises, is the last attempt or not, or the worker is gone with its lock.
Fail(w) ==
  /\ worker[w].step # "idle"
  /\ \E status \in {"queued", "running", "failed"} :
       seedJob' = [seedJob EXCEPT ![worker[w].job] = IF @ = "running" THEN status ELSE @]
  /\ worker' = [worker EXCEPT ![w] = Idle]
  /\ UNCHANGED <<requests, seed, cache, wikiPages>>

OnboardingNext ==
  \/ \E r \in Requests : \/ UpsertUserContext(r) \/ SeedOnboardingInterests(r) \/ Lose(r)
                         \/ \E t \in ChosenTopics : EnqueueInterestReports(r, t)
  \/ \E i \in Interests : SubmitGeneration(i) \/ Recalculate(i)
  \/ \E w \in Workers : \/ \E j \in SeedJobs : ClaimBuild(w, j)
                        \/ StartBuild(w) \/ Load(w) \/ Resolve(w) \/ Persist(w) \/ Fail(w)

OnboardingSpec == OnboardingInit /\ [][OnboardingNext]_onboardingVars

----------------------------------------------------------------------------
(* Properties. *)

\* Types of all variables.
OnboardingTypeOK ==
  /\ context \in Requests \cup {0}
  /\ request \in [Requests -> [step : {"none", "saved", "seeded", "stale", "lost"},
                               topics : SUBSET ChosenTopics]]
  /\ seed \in Seq(Selections) /\ Len(seed) <= MaxVersions
  /\ seedJob \in [SeedJobs -> {"absent", "queued", "running", "completed", "failed"}]
  /\ worker \in [Workers -> [step : {"idle", "claimed", "started", "loaded", "resolved"},
                             job : SeedJobs \cup {None}, full : BOOLEAN,
                             found : [Keywords -> Meanings \cup {None}],
                             asked : SUBSET [keyword : Keywords, sign : Signs]]]
  /\ cache \in [Keywords -> [Signs -> [status : {"absent", "active", "superseded"},
                                       meaning : Meanings \cup {None}]]]
  /\ wikiPages \in [Keywords -> Meanings \cup {None}]
  /\ report \in [ChosenTopics -> Requests \cup {0}]
  /\ bundle \in [Interests -> [job : BOOLEAN, active : BOOLEAN,
                               answer : {"none", "accepted", "conflict"}]]

\* Once a build of the latest seed is completed, the wiki has the keywords of that seed
\* and none of an earlier one, though builds of earlier versions are retried and claimed
\* late (agent/graph.py:706-721).
LatestSeedIsInWiki ==
  (\E c \in Selections : seed # <<>> /\ seedJob[<<c, Len(seed)>>] = "completed")
    => {k \in Keywords : wikiPages[k] # None} = KeywordsOf[seed[Len(seed)]]

\* Choices come and go, with other taxonomies too, and a keyword has one active context
\* in a locale (persistence/features/onboarding_contexts.py:190-208).
OneMeaningPerKeyword ==
  \A k \in Keywords : \A s, t \in Signs :
    cache[k][s].status = "active" /\ cache[k][t].status = "active" /\ LocaleOf[s] = LocaleOf[t]
      => s = t

\* The wiki and the contexts follow the seed, and all variables have their types.
SeedIsFollowed == OnboardingTypeOK /\ LatestSeedIsInWiki /\ OneMeaningPerKeyword

\* What a keyword was found to mean stays while its signature does: no build, and none
\* that runs late, asks for it again and says otherwise
\* (agent/wiki_builder/features/onboarding_contexts.py:283-293).
MeaningIsKept ==
  \A k \in Keywords, s \in Signs :
    cache[k][s].status = "active" /\ cache'[k][s].status = "active"
      => cache'[k][s].meaning = cache[k][s].meaning

\* A report request that was accepted is accepted again, whatever became of the interest
\* it names (generation_runtime.py:598-622).
AcceptedStaysAccepted ==
  \A i \in Interests : bundle[i].answer = "accepted" => bundle'[i].answer = "accepted"

\* Meanings and answers are kept.
AnswersAreKept == [][MeaningIsKept /\ AcceptedStaysAccepted]_onboardingVars
=============================================================================
