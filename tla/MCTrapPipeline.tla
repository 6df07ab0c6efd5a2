--------------------------- MODULE MCTrapPipeline ---------------------------
(***************************************************************************)
(* Small instances of TrapPipeline: the conditions an ONU goes through.    *)
(***************************************************************************)
EXTENDS TrapPipeline

C(status, reason, rx) == [status |-> status, reason |-> reason, rx |-> rx]

Up     == C("Online", "", "normal")
Weak   == C("Online", "", "low")
Lost   == C("LOS", "", "bad")
Stuck  == C("Logging", "", "normal")

\* An outage whose severity can change.
Outages == {Up, Lost, Stuck}

\* Optical power as well.
Powers == {Up, Weak, Lost}

\* One way to be offline.
OnOff == {Up, Lost}
=============================================================================
