------------------------------ MODULE MCDataPaths ------------------------------
(***************************************************************************)
(* The computations on data, side by side: OLT_BOARDS, the list of OLTs, a *)
(* trap packet, the uplink tables, a page, the address of a client.  They  *)
(* share constants and no state, so that each behaviour is about one of    *)
(* them, `subject', and the others rest in an initial state.               *)
(***************************************************************************)
EXTENDS MCBoardLayout, TrapListener, Inventory, Uplink, Pagination, ClientAddress, TLC

VARIABLE subject

\* Packets with the variables of two ONUs on the outermost ports, of a port that does
\* not exist, and of an index without an ONU.
V(kind, index, value) == [kind |-> kind, index |-> index, value |-> value]

First == GenerateBoardPonOID(1, 1).onuIDSuffix
Last  == GenerateBoardPonOID(MaxBoardID, MaxPonID).onuIDSuffix
PacketVariables ==
    {V("name", i, 0) : i \in {<<First, 1>>, <<Last, 128>>, <<Last + 1, 7>>, <<First>>}}
        \cup {V("status", <<First, 1>>, 5), V("status", <<Last, 128>>, 4), V("status", <<5>>, 2),
              V("status", <<First, 1>>, 7)}
        \cup {V("reason", <<First, 1>>, 9), V("trapOID", <<>>, 1), V("trapOID", <<>>, 0),
              V("text", <<Last, 128>>, 0)}

\* An OLT with two uplink cards; with one of them and the other interface gone
\* down; with the indices of two interfaces swapped.
Iface(prefix, slot, oper) ==
    [prefix |-> prefix, slot |-> slot, port |-> 1, admin |-> 1, oper |-> oper,
     speed |-> IF prefix = "xgei" THEN 10000 ELSE 1000]
Card(class, descr) == [class |-> class, descr |-> descr]
Cards == (30 :> Card(3, {"gpon", "control"})) @@ (200 :> Card(3, {"ethernet interface"}))
             @@ (9 :> Card(9, {"power"}))
MCHardware ==
    {[ifs |-> (1 :> Iface("xgei", 19, 1)) @@ (2 :> Iface("gei", 20, 1)) @@ (3 :> Iface("gpon", 2, 1)),
      ents |-> Cards],
     [ifs |-> (1 :> Iface("xgei", 19, 2)) @@ (3 :> Iface("gpon", 2, 1)),
      ents |-> [e \in {9, 30} |-> Cards[e]]],
     [ifs |-> (1 :> Iface("gpon", 2, 1)) @@ (2 :> Iface("xgei", 19, 1)) @@ (3 :> Iface("gei", 20, 2)),
      ents |-> Cards]}

\* Around the ends of a list of up to seven rows, and of integers up to 31.
MCParams ==
    {[given |-> FALSE, value |-> 0]}
        \union {[given |-> TRUE, value |-> n] : n \in (-2 .. 6) \union {16, 31, -32}}
MCTotals == 0 .. 7

\* Two OLTs with every field that can be left out or be out of range.
Entry(id, usable, port, max, bare, n) ==
    [id |-> id, usable |-> usable, owner |-> 1, host |-> id, port |-> port, max |-> max,
     bare |-> bare, pons |-> n]
MCEntries ==
    {Entry("a", TRUE, 0, 0, TRUE, 0), Entry("a", TRUE, 161, 2, TRUE, 16),
     Entry("a", TRUE, 65697, 0, TRUE, 17), Entry("a", TRUE, 162, 0, FALSE, 8),
     Entry("b", TRUE, 161, 0, TRUE, 8), Entry("b", FALSE, 161, 0, TRUE, 8),
     Entry("", TRUE, 161, 0, TRUE, 8)}
MCLists == {<<>>} \union {<<e>> : e \in MCEntries} \union {<<e, f>> : e, f \in MCEntries}
MCEnvs == [default : {"", "b"}, legacy : BOOLEAN, max : {0, 3}]

LayoutRests   == UNCHANGED vars
TrapRests     == UNCHANGED listenerVars
InventoryRests == UNCHANGED inventoryVars
UplinkRests   == UNCHANGED uplinkVars
PageRests     == UNCHANGED pageVars
AddressRests  == UNCHANGED addressVars

MCInit ==
    /\ subject \in {"layout", "inventory", "trap", "uplink", "page", "address"}
    /\ Init /\ InventoryInit /\ ListenerInit /\ UplinkInit /\ PageInit /\ AddressInit
    /\ subject # "layout"  => pons = 8
    /\ subject # "inventory" =>
          list = <<>> /\ env = [default |-> "", legacy |-> TRUE, max |-> 0]
    /\ subject # "uplink"  => hw = CHOOSE h \in Hardware : TRUE
    /\ subject # "address" => peer = CHOOSE a \in Addresses : TRUE

MCNext ==
    /\ UNCHANGED subject
    /\ IF subject = "layout"    THEN Next          ELSE LayoutRests
    /\ IF subject = "inventory" THEN InventoryNext ELSE InventoryRests
    /\ IF subject = "trap"      THEN ListenerNext  ELSE TrapRests
    /\ IF subject = "uplink"    THEN UplinkNext    ELSE UplinkRests
    /\ IF subject = "page"      THEN PageNext      ELSE PageRests
    /\ IF subject = "address"   THEN AddressNext   ELSE AddressRests

MCSpec ==
    /\ MCInit
    /\ [][MCNext]_<<vars, inventoryVars, listenerVars, uplinkVars, pageVars, addressVars, subject>>
================================================================================
