---------------------------- MODULE MCOltRegistry ----------------------------
(***************************************************************************)
(* Small instances of OltRegistry: the configurations give every constant  *)
(* a value.  Two OLTs are enough for one to change while the other is      *)
(* left alone, and for the default to be missing; three stacks per OLT     *)
(* leave room for the first one, a rebuild, and one that a late poll       *)
(* builds after Close, so that the bound MaxGen never blocks a Reconcile.  *)
(***************************************************************************)
EXTENDS OltRegistry

\* MaxGen is large enough: no reachable Reconcile is cut off by the bound.
ASSUME BoundsAssumption == MaxGen >= MaxEdits + 2
=============================================================================
