-------------------------------- MODULE Uplink --------------------------------
(***************************************************************************)
(* GetUplinkTopology, internal/usecase/uplink.go: six SNMP walks, one      *)
(* after the other, whose columns are joined by index in memory.  Cards    *)
(* can be plugged and interfaces renumbered between two walks.             *)
(*                                                                         *)
(* A name is its prefix, slot and port; a description is the set of the    *)
(* words cardRole looks for that it contains.  The order of the rows, which*)
(* are sorted for display, is left out: a topology is indexed like the     *)
(* hardware.                                                               *)
(***************************************************************************)
EXTENDS Integers, Sequences

CONSTANTS Hardware,  \* states of the OLT: [ifs |-> ..., ents |-> ...]
          MaxSwaps   \* bound: changes of the hardware

Prefixes == {"xgei", "gei", "gpon"}
Words == {"gpon", "control", "ethernet interface", "power"}

ASSUME HardwareAssumption ==
    /\ \A h \in Hardware :
          /\ \A i \in DOMAIN h.ifs : i \in Nat /\ h.ifs[i].prefix \in Prefixes
          /\ \A e \in DOMAIN h.ents : e \in Nat /\ h.ents[e].descr \subseteq Words
    /\ MaxSwaps \in Nat

VARIABLES hw,       \* what the OLT has
          swaps,
          walked,   \* walks done; 0 when no call is under way
          columns,  \* walk -> index -> value
          topology, \* the answer of the last call: none or one
          quiet     \* no swap since the call began (for the property)

uplinkVars == <<hw, swaps, walked, columns, topology, quiet>>

Walks == <<"name", "admin", "oper", "speed", "class", "descr">>

WalkNames == {Walks[k] : k \in DOMAIN Walks}

Nothing == [i \in {} |-> 0]

UplinkInit ==
    /\ hw \in Hardware
    /\ swaps = 0
    /\ walked = 0
    /\ columns = [w \in WalkNames |-> Nothing]
    /\ topology = {}
    /\ quiet = TRUE

\* Mutant: the prefix is looked for anywhere in the name.
MutKind(prefix) == IF prefix \in {"gei", "xgei"} THEN "1G" ELSE "none"

Kind(prefix) ==
    CASE prefix = "xgei" -> "10G" [] prefix = "gei" -> "1G" [] OTHER -> "none"

\* What the callback of a walk keeps of the column: of the interfaces only uplinks,
\* known from the first walk.
Kept(w) ==
    CASE w = "name" ->
            [i \in {i \in DOMAIN hw.ifs : Kind(hw.ifs[i].prefix) # "none"} |-> hw.ifs[i]]
      [] w \in {"admin", "oper", "speed"} ->
            [i \in DOMAIN hw.ifs \cap DOMAIN columns["name"] |-> hw.ifs[i][w]]
      [] OTHER -> [e \in DOMAIN hw.ents |-> hw.ents[e][w]]

\* An index that a later walk did not find reads as the zero of its map.
At(w, i, zero) == IF i \in DOMAIN columns[w] THEN columns[w][i] ELSE zero

cardRole(words) ==
    CASE "gpon" \in words -> "gpon"
      [] "control" \in words -> "control"
      [] "ethernet interface" \in words -> "uplink"
      [] "power" \in words -> "power"
      [] OTHER -> "other"

BuildPorts ==
    [i \in DOMAIN columns["name"] |->
        LET name == columns["name"][i]
        IN  [kind |-> Kind(name.prefix), slot |-> name.slot, port |-> name.port,
             admin |-> At("admin", i, 0), oper |-> At("oper", i, 0), speed |-> At("speed", i, 0)]]

BuildCards ==
    [e \in {e \in DOMAIN columns["class"] : columns["class"][e] = 3} |->
        [slot |-> e \div 10 - 1, role |-> cardRole(At("descr", e, {}))]]

\* The next walk; the first begins a call.  A walk that fails ends the call with an
\* error, and nothing of it is kept.
Walk ==
    /\ walked < Len(Walks)
    /\ topology' = {}
    /\ quiet' = (walked = 0 \/ quiet)
    /\ \/ /\ columns' = [columns EXCEPT ![Walks[walked + 1]] = Kept(Walks[walked + 1])]
          /\ walked' = walked + 1
       \/ /\ columns' = [w \in DOMAIN columns |-> Nothing]
          /\ walked' = 0
    /\ UNCHANGED <<hw, swaps>>

Build ==
    /\ walked = Len(Walks)
    /\ topology' = {[ports |-> BuildPorts, cards |-> BuildCards]}
    /\ columns' = [w \in DOMAIN columns |-> Nothing]
    /\ walked' = 0
    /\ UNCHANGED <<hw, swaps, quiet>>

\* The OLT: a card is plugged or pulled, a port changes.
Swap ==
    /\ swaps < MaxSwaps
    /\ \E h \in Hardware \ {hw} : hw' = h
    /\ swaps' = swaps + 1
    /\ quiet' = FALSE
    /\ UNCHANGED <<walked, columns, topology>>

UplinkNext == Walk \/ Build \/ Swap

UplinkSpec == UplinkInit /\ [][UplinkNext]_uplinkVars

--------------------------------------------------------------------------------
\* What a reader of the tables sees who looks at all of them at once.
Snapshot ==
    [ports |-> [i \in {i \in DOMAIN hw.ifs : hw.ifs[i].prefix \in {"xgei", "gei"}} |->
                   [kind  |-> IF hw.ifs[i].prefix = "xgei" THEN "10G" ELSE "1G",
                    slot  |-> hw.ifs[i].slot,  port |-> hw.ifs[i].port,
                    admin |-> hw.ifs[i].admin, oper |-> hw.ifs[i].oper,
                    speed |-> hw.ifs[i].speed]],
     cards |-> [e \in {e \in DOMAIN hw.ents : hw.ents[e].class = 3} |->
                   [slot |-> e \div 10 - 1, role |-> cardRole(hw.ents[e].descr)]]]

\* On hardware that keeps still during the call, six walks are as good as one look:
\* the table has the uplink ports and the cards that the hardware has and no others, and
\* each stands with its own fields, although a row is put together from walks over
\* different indexes.
UplinkExact == quiet => topology \subseteq {Snapshot}

\* The types of the state; a column is there for every walk.
UplinkTypeOK ==
    /\ hw \in Hardware
    /\ walked \in 0..Len(Walks)
    /\ columns = [w \in WalkNames |-> columns[w]]
    /\ quiet \in BOOLEAN

\* On hardware that has kept still, every column walked so far is that of the
\* hardware.
ColumnsInv == quiet => \A k \in 1..walked : columns[Walks[k]] = Kept(Walks[k])

\* What makes UplinkExact inductive.
UplinkInv == UplinkTypeOK /\ ColumnsInv /\ UplinkExact

\* The comment of GetUplinkTopology: detection "must reflect the live hardware" (not
\* so when it changes between two walks).
UplinkLive == topology # {} => \E h \in Hardware :
    \E t \in topology : \A i \in DOMAIN t.ports :
        /\ i \in DOMAIN h.ifs
        /\ t.ports[i].slot = h.ifs[i].slot /\ t.ports[i].oper = h.ifs[i].oper
================================================================================
