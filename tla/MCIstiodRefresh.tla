--------------------------- MODULE MCIstiodRefresh ---------------------------
(***************************************************************************)
(* An instance of IstiodRefresh: a Gateway, a policy and three             *)
(* certificates, two of which make the same volume name (a.b and a-b).     *)
(***************************************************************************)
EXTENDS IstiodRefresh

CONSTANTS g1, p1, c1, c2, c3

OneGateway == {g1}
OnePolicy == {p1}
ThreeCerts == {c1, c2, c3}

GatewayAndPolicy ==
  [s \in {g1, p1} |-> IF s = g1 THEN {{c1}, {c1, c3}} ELSE {{}, {c2}}]

TwoCollide == [c \in ThreeCerts |-> IF c = c3 THEN c1 ELSE c]
=============================================================================
