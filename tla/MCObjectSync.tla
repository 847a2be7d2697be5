---------------------------- MODULE MCObjectSync ---------------------------
(* ObjectSync on small instances.                                           *)
EXTENDS ObjectSync

CONSTANTS a, A, b, x, g, h

\* a and A differ in case only; x has no valueFragmentType.
Triples == {a, A, b, x}
Folded  == [t \in Triples |-> IF t = A THEN a ELSE t]
OnlyX   == {x}
GroupIds == {g, h}

SensorOf(t) == [type |-> "SENSOR", triple |-> t]
GroupOf(id, sensors, groups) ==
  [type |-> "GROUP", id |-> id, sensors |-> sensors, groups |-> groups]

\* A sensor after the group that holds it; one that differs in case; groups in
\* groups, reported before and after.
Messages ==
  { <<GroupOf(g, <<a, x, b>>, <<h>>), SensorOf(A)>>,
    <<SensorOf(a), GroupOf(h, <<A>>, <<>>)>>,
    <<GroupOf(h, <<>>, <<g, g>>), GroupOf(g, <<b>>, <<>>)>> }
=============================================================================
