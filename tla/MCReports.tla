----------------------------- MODULE MCReports -----------------------------
(***************************************************************************)
(* What a user reads, in parts of which a behaviour takes one.             *)
(*                                                                         *)
(* history: ChangeHistory.  Two topics of a report on one connection (a,   *)
(* b); two reports of one topic, with a shared connection or not (a with   *)
(* c, c with d); one whose workers fail and are refused (e).               *)
(* reports: Report.  Jobs with one or two topics, of either reader.        *)
(* assistant: Assistant.  Two requests in two processes; a and b are one   *)
(* text, c an update of a.                                                 *)
(* morning: Briefing.  A preparation, a briefing and a report about the    *)
(* topics of one day, while the wiki gets other pages.                     *)
(* seeds: Onboarding.  Two choices that cross, of a keyword of the user's  *)
(* own and one that the taxonomy has.                                      *)
(* bundles: Onboarding.  The second choice, and reports of an interest.    *)
(***************************************************************************)
EXTENDS Briefing, Onboarding, ChangeHistory, Assistant, Report, TLC

VARIABLE part

Fact(k, v, z) == [key |-> k, value |-> v, drift |-> z]
Launch(v) == {Fact("launch", v, FALSE)}
Price == Fact("price", "20th", TRUE)

\* The runs of the change history: two reports that cross, and one alone.
GraphRuns == {"a", "b", "c", "d", "e"}
RunPlans == {{"a", "b"}, {"a", "c"}, {"c", "d"}, {"e"}}
Spelled == [a |-> "Chips", b |-> "Rates", c |-> "Chips", d |-> "Chips", e |-> "Chips"]
Normal == [Chips |-> "chips", Rates |-> "rates"]
Connections == [a |-> 1, b |-> 1, c |-> 2, d |-> 3, e |-> 3]
MayFind == [a |-> {Launch("20th"), Launch("20th") \cup {Price}}, b |-> {Launch("20th")},
            c |-> {Launch("on the 20th"), Launch("25th")}, d |-> {Launch("20th")},
            e |-> {Launch("20th"), {Price}}]
ModelReplies == {<<"new", "none">>, <<"updated", "made up">>, <<"updated", "seen">>, <<"duplicate", "none">>}
Meaning == "20th" :> 20 @@ "on the 20th" :> 20 @@ "25th" :> 25
CallOutcomes == [r \in GraphRuns |-> IF r = "e" THEN {"ok", "bad", "failed"} ELSE {"ok"}]

\* The hypothesis of the theorems about ChangeHistory.
ASSUME HistoryRunsAreSound == RunsAreSound

Asks(topics, v2reader, delta, bundled, prepared) ==
  [topics |-> topics, v2 |-> v2reader, agent |-> TRUE, delta |-> delta, bundled |-> bundled,
   prepared |-> prepared, tries |-> IF Len(topics) = 1 THEN 2 ELSE 1]

\* The constants of Report.
ReportJobs ==
  {Asks(<<"A", "B">>, v, TRUE, {"A"}, {}) : v \in BOOLEAN}
  \cup {Asks(<<"A", "B">>, FALSE, FALSE, {}, {"A", "B"})}
  \cup {Asks(<<"A">>, FALSE, TRUE, {"A"}, {}), Asks(<<"A">>, TRUE, FALSE, {}, {})}
  \cup {[Asks(<<"A">>, FALSE, FALSE, {}, {"A"}) EXCEPT !.agent = FALSE]}
WikiPages == [A |-> <<"p">>, B |-> <<"p">>]
PoolArticles == [A |-> <<"g">>, B |-> <<"h">>]
WebArticles == [A |-> <<"x">>, B |-> <<"y">>]

\* The hypothesis of the theorems about Report.
ASSUME ReportedAsTheoremsAssume == ReportsAreSound

Unlike == [a |-> 0, b |-> 0, c |-> 0, d |-> 0]
Document(alike, closeness, fresh, published) ==
  [alike |-> alike, closeness |-> closeness, fresh |-> fresh, short |-> FALSE, published |-> published]

\* The constants of Assistant.
OwnProcess == [r1 |-> "p1", r2 |-> "p2"]
News == [a |-> Document([Unlike EXCEPT !.b = 3, !.c = 2], 4, 1, 0),
         b |-> Document([Unlike EXCEPT !.a = 3, !.c = 2], 4, 2, -1),
         c |-> Document([Unlike EXCEPT !.a = 2, !.b = 2], 4, 2, 1),
         d |-> Document(Unlike, 0, 2, -1)]
Had(source, d) == [from |-> source, key |-> d]
Posted == [kw |-> <<Had("news", "a"), Had("posts", "c")>>,
           q1 |-> <<Had("news", "b"), Had("news", "a"), Had("posts", "d")>>]

\* The hypothesis of the theorems about Assistant.
ASSUME AskedAsTheoremsAssume == AskingIsSound

Page(n, s, from) == [node |-> n, summary |-> s, sources |-> from]
Request(kind, limit, key) == [kind |-> kind, date |-> 1, limit |-> limit, key |-> key]
MorningJobs == <<Request("Preparation", 2, 1), Request("Brief", 1, 2), Request("Named", 1, 3)>>
MorningWikis == << <<Page("a", 1, 1), Page("b", 1, 1)>>, <<Page("a", 1, 2), Page("b", 1, 1)>>,
                   <<Page("a", 2, 2)>> >>

\* The hypothesis of the theorems of BriefingProofs.
ASSUME MorningRequestsAreSound == RequestsAreSound

\* Onboarding: two choices, and what they choose.
ChoiceNames == {"a", "a2"}
ChoicesMade == <<"a", "a2">>
SeedBody == [c \in ChoiceNames |-> c]
OwnKeywords == [a |-> {"k1", "k2"}, a2 |-> {"k1"}]
TopicsChosen == [c \in ChoiceNames |-> {"t1"}]
Signature == [a |-> "old", a2 |-> "new"]
OneLocale == [s \in {"old", "new"} |-> "ko"]

\* The hypothesis of the theorems about Onboarding.
ASSUME OnboardingChoicesAreSound == ChoicesAreSound

\* What is done in the parts of it.
SeedsOrBundles ==
  /\ part \in {"seeds", "bundles"} /\ OnboardingNext
  /\ \/ part = "seeds" /\ bundle' = bundle
     \/ part = "bundles" /\ request'[1].step = "none" /\ worker'[2] = Idle

PartsInit ==
  /\ part \in {"morning", "seeds", "bundles", "history", "assistant", "reports"}
  /\ Init /\ OnboardingInit /\ HistoryInit /\ AskInit /\ ReportInit
  /\ part = "history" \/ graph["e"].pc = "prepare"  \* one plan where none is run
  /\ part = "reports" \/ payload = CHOOSE q \in Reports : TRUE
PartsNext ==
  /\ UNCHANGED part
  /\ \/ /\ part = "morning" /\ Next
        /\ UNCHANGED <<onboardingVars, historyVars, askVars, reportVars>>
     \/ SeedsOrBundles /\ UNCHANGED <<vars, historyVars, askVars, reportVars>>
     \/ /\ part = "history" /\ HistoryNext
        /\ UNCHANGED <<vars, onboardingVars, askVars, reportVars>>
     \/ /\ part = "assistant" /\ AskNext
        /\ UNCHANGED <<vars, onboardingVars, historyVars, reportVars>>
     \/ /\ part = "reports" /\ ReportNext
        /\ UNCHANGED <<vars, onboardingVars, historyVars, askVars>>
Parts == PartsInit /\ [][PartsNext]_<<vars, onboardingVars, historyVars, askVars, reportVars, part>>
=============================================================================
