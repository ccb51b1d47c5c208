--------------------------- MODULE MCPersonalWiki ---------------------------
(***************************************************************************)
(* An instance of PersonalWiki for TLC: a bookmarked article (e1) that may *)
(* be removed and stored again, with a note submitted over MCP (m1).       *)
(***************************************************************************)
EXTENDS PersonalWiki, TLC

CONSTANTS e1, m1, article, note

StoredAs == [e \in Events |-> IF e = m1 THEN note ELSE article]
RemovesFirst == [r \in Removals |-> e1]
TwoArticles == [d \in Docs |-> IF d = article THEN 2 ELSE 1]
AlikeWorkers == Permutations(Workers)
=============================================================================
