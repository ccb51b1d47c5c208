------------------------------- MODULE MCReport -------------------------------
EXTENDS Report
MCWiki == ("A" :> <<"p">>) @@ ("B" :> <<"p">>)
MCPool == ("A" :> <<"g">>) @@ ("B" :> <<"h">>)
MCWeb == ("A" :> <<"x">>) @@ ("B" :> <<"y">>)
Asks(topics, v2, delta, bundled, prepared) ==
  [topics |-> topics, v2 |-> v2, agent |-> TRUE, delta |-> delta, bundled |-> bundled, prepared |-> prepared,
   tries |-> IF Len(topics) = 1 THEN 2 ELSE 1]
MCRequests ==
  {Asks(<<"A", "B">>, v2, TRUE, {"A"}, {}) : v2 \in BOOLEAN}
  \cup {Asks(<<"A", "B">>, FALSE, FALSE, {}, {"A", "B"})}
  \cup {Asks(<<"A">>, v2, TRUE, {"A"}, {}) : v2 \in BOOLEAN}
  \cup {[Asks(<<"A">>, FALSE, FALSE, {}, {"A"}) EXCEPT !.agent = FALSE]}
=============================================================================
