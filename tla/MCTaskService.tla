--------------------------- MODULE MCTaskService ---------------------------
(* TaskService on small instances.                                          *)
EXTENDS TaskService

CONSTANTS c1, c2, k1, k2, f1, f2, n1, n2

NoSet    == {}
OneCall  == {c1}
TwoCalls == {c1, c2}
OneModeCall == {k1}
TwoModeCalls == {k1, k2}
OneFile  == {f1}
TwoFiles == {f1, f2}
Second   == {f2}
OneName  == {n1}
TwoNames == {n1, n2}
=============================================================================
