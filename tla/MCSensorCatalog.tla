-------------------------- MODULE MCSensorCatalog --------------------------
(* SensorCatalog on a small instance.                                       *)
EXTENDS SensorCatalog, TLC

CONSTANTS c1, c2, A, B, d, x, y

TwoCalls  == {c1, c2}
TwoTypes  == {A, B}
OnePlain  == {d}
TwoCustom == {x, y}
Sizes     == {1, 2}

\* The calls are alike.
CallsAlike == Permutations(TwoCalls)

Ask(op, ids, t, keys, whole) ==
  [op |-> op, ids |-> ids, type |-> t, keys |-> keys, whole |-> whole]

\* Several of each that overlap in sensors and in keys; 3 and 4 are not there at first.
Requests ==
  { Ask("create", {1, 2}, B, {x}, FALSE),
    Ask("update", {1, 2}, A, {d, y}, FALSE), Ask("update", {3}, B, {x}, FALSE),
    Ask("updateOne", {1}, B, {x}, TRUE),
    Ask("updateMany", {}, A, {d, y}, FALSE), Ask("updateMany", {1, 3}, B, {x}, FALSE),
    Ask("unset", {}, A, {}, TRUE), Ask("unset", {1, 2}, "any", {d, x}, FALSE),
    Ask("remove", {1}, "any", {}, FALSE) }
=============================================================================
