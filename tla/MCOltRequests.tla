---------------------------- MODULE MCOltRequests ----------------------------
(***************************************************************************)
(* Small instances of OltRequests, with one edit of the inventory at any   *)
(* moment.  The OLTs start with the settings "a" (which name they carry    *)
(* makes no difference), the default one with the owner 0, the other with  *)
(* the owner 1.  Three stacks per OLT leave room for the first one, a      *)
(* rebuild, and one that a late poll builds.                               *)
(***************************************************************************)
EXTENDS OltRequests

ASSUME RequestBounds == MaxGen >= MaxEdits + 2 /\ MaxSweeps = 0

MCInit ==
    /\ RInit
    /\ truth = [id \in Ids |-> [conn |-> "a", meta |-> IF id = Default THEN 0 ELSE 1]]

MCSpec == MCInit /\ [][RNext]_rvars /\ RFairness
=============================================================================
