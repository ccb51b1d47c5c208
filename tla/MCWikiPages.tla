---------------------------- MODULE MCWikiPages ----------------------------
(***************************************************************************)
(* The pages of a wiki, in two parts, of which a behaviour takes one.      *)
(*                                                                         *)
(* build: WikiBuild.  OpenAI and Open-AI have one surface and two slugs;   *)
(* GPT is another name.  The answers let two nodes of a source collide,    *)
(* join two pages, name a page that exists or one that does not, and cross *)
(* the kinds.  The MCP write relates a concept to an entity by a type that *)
(* may join them and by one that may not, or a thing to itself under       *)
(* another spelling.                                                       *)
(* maintenance: WikiMaintenance, with two sources that share a page and a  *)
(* third page that is a topic only a repair makes.  The issues are in the  *)
(* order of a report: by code, then by id.                                 *)
(***************************************************************************)
EXTENDS WikiMaintenance, WikiBuild

CONSTANTS OpenAI, Open_AI, GPT

VARIABLE part

Called == {OpenAI, Open_AI, GPT}
Slug == [n \in Called |-> CASE n = OpenAI -> "openai" [] n = Open_AI -> "open-ai" [] n = GPT -> "gpt"]
Surface == [n \in Called |-> IF n = GPT THEN "gpt" ELSE "openai"]

N(kind, name, aliases, match) == [kind |-> kind, name |-> name, aliases |-> aliases, match |-> match]
Answers ==
  [s1 |-> { <<N("entity", Open_AI, {GPT}, Nothing), N("entity", GPT, {}, Nothing)>> },
   s2 |-> { <<N("entity", GPT, {}, "openai"), N("entity", OpenAI, {Open_AI}, Nothing)>>,
            <<N("concept", OpenAI, {}, Nothing), N("entity", Open_AI, {GPT}, Nothing)>>,
            <<N("entity", GPT, {}, Nothing)>> }]
End(kind, name) == [kind |-> kind, name |-> name, match |-> Nothing]
Relate(from, type, to) == [from |-> from, to |-> to, type |-> type]
Authored ==
  [s \in {"s1", "s2"} |->
     { [nodes |-> <<N("concept", Open_AI, {}, Nothing), N("entity", GPT, {}, Nothing)>>,
        relations |-> <<Relate(End("concept", Open_AI), type, End("entity", GPT))>>] : type \in {"affects", "part_of"} }
     \cup
     { [nodes |-> <<N("entity", OpenAI, {}, Nothing)>>,
        relations |-> <<Relate(End("entity", OpenAI), "alias_of", End("entity", Open_AI))>>] }]
Work == [b2 |-> [kind |-> "build", sources |-> <<"s2">>],
         r |-> [kind |-> "rebuild", sources |-> <<"s1", "s2">>],
         a |-> [kind |-> "author", sources |-> <<"s1">>]]
Candidates == {<<"gpt", "openai">>}
OnlyGPT == {[kind |-> "entity", slug |-> "gpt"]}

I(code, about, cites) == [code |-> code, pages |-> about, cites |-> cites, topic |-> "t"]
Reported == <<I("contradiction", {"p"}, <<"s1", "s2">>), I("contradiction", {"p"}, <<"s2", "s1">>),
              I("knowledge_gap", {"p"}, <<>>), I("missing_relation", {"p", "q"}, <<"s1">>),
              I("missing_topic", {}, <<"s2">>)>>
Pipelines == [w1 |-> [pipeline |-> "langgraph_v3", trigger |-> "weekly"],
              w2 |-> [pipeline |-> "langgraph_v3", trigger |-> "weekly"],
              v2 |-> [pipeline |-> "langgraph_v2", trigger |-> "weekly"]]

FoundIn == [s1 |-> {"p", "q"}, s2 |-> {"p"}]
Answered == {{}, {1, 2, 3}, {2, 4, 5}}
Searched == [i \in DOMAIN Reported |-> IF Reported[i].code = "knowledge_gap" THEN {"u"} ELSE {}]

ASSUME ConstantsAreWellFormed == BuildIsSound /\ ConstantsAreSound

PartsInit ==
  /\ Init /\ BuildInit
  /\ \/ part = "build" /\ version.metrics = "none" /\ ~lacking
     \/ part = "maintenance"
PartsNext ==
  /\ UNCHANGED part
  /\ \/ part = "build" /\ BuildNext /\ UNCHANGED vars
     \/ part = "maintenance" /\ Next /\ UNCHANGED buildVars
Parts == PartsInit /\ [][PartsNext]_<<vars, part, buildVars>>
=============================================================================
