------------------------------- MODULE MCExpiry -------------------------------
(* Instances of Expiry for TLC. *)
EXTENDS Expiry

\* A time to live that is over before it begins, none, and two to wait for.
AllTTLs == {-1, 0, 1, 2}
===============================================================================
