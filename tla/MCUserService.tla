--------------------------- MODULE MCUserService ---------------------------
(* Values for the constants of UserService. *)
EXTENDS UserService

CONSTANTS u1, u2, c1, c2, c3, Admin, Other, account, tenant, new

TwoAccounts == {u1, u2}
ThreeCalls  == {c1, c2, c3}
TwoNames    == {Admin, Other}
TwoFields   == {account, tenant}
OneValue    == {new}
=============================================================================
