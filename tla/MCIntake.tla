------------------------------ MODULE MCIntake ------------------------------
(* Three clippings of two URLs, whose pages have one of two bodies, and a link.  *)
EXTENDS Intake

CONSTANTS c1, c2, c3, l1, u1, u2, x, y

MCUrlOf == [e \in {c1, c2, c3, l1} |-> IF e \in {c1, c3} THEN u1 ELSE u2]
MCBodyOf == [e \in {c1, c2, c3} |-> IF e = c1 THEN x ELSE y]
MCNothing == [e \in {} |-> Null]
=============================================================================
