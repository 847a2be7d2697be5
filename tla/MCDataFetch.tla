---------------------------- MODULE MCDataFetch ----------------------------
(* DataFetch on small instances.                                            *)
EXTENDS DataFetch, TLC

CONSTANTS t1, t2, s1, s2, n1, n2

NoSet      == {}
OneTask    == {t1}
TwoTasks   == {t1, t2}
OneSensor  == {s1}
TwoSensors == {s1, s2}
OneName    == {n1}
TwoNames   == {n1, n2}

\* Sensors are interchangeable where both are in the group, and so are names.
Symmetric == Permutations({s1, s2}) \cup Permutations({n1, n2})
=============================================================================
