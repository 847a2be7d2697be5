------------------------------ MODULE MCAccess ------------------------------
(* Access on a small instance.                                              *)
EXTENDS Access, TLC

CONSTANTS u1, u2, u3, c1, c2, Initial, Other

TwoAccounts   == {u1, u2}
ThreeAccounts == {u1, u2, u3}
OneClient     == {c1}
TwoClients    == {c1, c2}
TwoNames      == {Initial, Other}
=============================================================================
