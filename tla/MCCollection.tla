---------------------------- MODULE MCCollection ----------------------------
(***************************************************************************)
(* How articles and sources come in, in parts, of which a behaviour takes  *)
(* one; the state of the others stays as it begins.                        *)
(*                                                                         *)
(* searches: GlobalCollection.  A source plans two searches, one of them   *)
(* for a topic, and may run one a day.                                     *)
(* interests: Interests.  Two users; the wiki of one has two pages of one  *)
(* topic and pages that are seeds; contexts and builds of both cross.      *)
(* bookmarks, links, slots, both: Intake.  A clipping of what a bookmarked *)
(* report says and a note; a URL whose page reads like the report; a URL   *)
(* with two slots of the URL worker; a URL, a clipping of it and a note    *)
(* that reads like the clipping.                                           *)
(***************************************************************************)
EXTENDS GlobalCollection, Intake, Interests

VARIABLE part

OneProvider == [s \in Sources |-> "p1"]
OneSource == [q \in Queries |-> "s1"]
OneTopic == [q \in Queries |-> IF q = "q2" THEN "t1" ELSE None]
OneRun == [s \in Sources |-> 1]

Node(d, t, from, subject) == [doc |-> d, title |-> t, sources |-> from, subject |-> subject]
Link(a, b, w, s) == [ends |-> {a, b}, weight |-> w, supported |-> s]
OneWiki == <<[nodes |-> {Node(1, "a", {"seed"}, "unknown"), Node(2, "b", {"clip"}, "yes"),
                         Node(3, "b", {"clip"}, "no"), Node(4, "c", {"seed"}, "unknown")},
              links |-> {Link(1, 2, 1, FALSE), Link(2, 3, 2, TRUE), Link(2, 4, 2, TRUE)}]>>

Offered == <<[topics |-> {"a"}, custom |-> {}], [topics |-> {}, custom |-> {"b"}]>>
OneSignal == <<[topic |-> "a", weight |-> 20]>>
ByName == [a |-> 1, b |-> 2, c |-> 3]
TwoContexts == <<2, 1>>
OnlyFirst == <<1, 0>>

\* Intake: what is sent in each of its parts.
PageOf == [e \in {"c1", "l1"} |-> "u1"]
TextOf == [e \in {"c1", "n1"} |-> "x"]
Reported == [k1 |-> <<"x", "y">>]
Bookmarked == [r1 |-> "k1"]
Sent == [bookmarks |-> {"c1", "k1", "n1", "r1"}, links |-> {"l1", "k1", "r1"}, slots |-> {"l1"}, both |-> {"l1", "n1", "c1"}]
Take ==
  /\ part \in DOMAIN Sent /\ IntakeNext
  /\ \A e \in (Events \cup Removals) \ Sent[part] : answer'[e] = "none" /\ (e \in Marks => report'[e] = 1)
  /\ part = "slots" \/ fetcher'["f2"] = IdleSlot

ASSUME ConstantsAreWellFormed ==
  /\ FetchersDiffer /\ SourcesAreWellFormed /\ LimitsArePositive
  /\ RequestsAreWellFormed /\ ValuesDiffer
  /\ InterestsAreSound

PartsInit == Init /\ IntakeInit /\ InterestsInit /\ part \in {"searches", "interests"} \cup DOMAIN Sent
PartsNext ==
  /\ UNCHANGED part
  /\ \/ part = "searches" /\ Next /\ UNCHANGED <<intakeVars, interestVars>>
     \/ Take /\ UNCHANGED <<vars, interestVars>>
     \/ part = "interests" /\ InterestsNext /\ UNCHANGED <<vars, intakeVars>>

\* The loop of the scheduler goes on unless its process dies.
all == <<vars, intakeVars, interestVars, part>>
FairParts ==
  PartsInit /\ [][PartsNext]_all
  /\ WF_all(part = "searches" /\ SchedulerStep /\ UNCHANGED <<intakeVars, interestVars, part>>)
=============================================================================
