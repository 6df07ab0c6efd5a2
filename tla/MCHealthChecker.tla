-------------------------- MODULE MCHealthChecker --------------------------
(***************************************************************************)
(* Small instances of HealthChecker: a dependency whose ttl is below that  *)
(* of failures, and one whose ttl is above it.                             *)
(***************************************************************************)
EXTENDS HealthChecker, TLC

CONSTANTS c1, c2

TwoCallers == {c1, c2}
Ttls == <<1, 3>>
OneTtl == <<3>>
Perms == Permutations(TwoCallers)
=============================================================================
