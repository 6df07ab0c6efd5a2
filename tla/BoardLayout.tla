---------------------------- MODULE BoardLayout ----------------------------
(***************************************************************************)
(* The slots and ports of an OLT: how config.parseBoardSpecs reads         *)
(* OLT_BOARDS, how the map of object identifiers is generated from it, and *)
(* who uses which of the results.  The API validates a port by the number  *)
(* of ports of its slot, the usecase looks it up in the generated map, and *)
(* the power monitor scans the slots with one number of ports for all.     *)
(*                                                                         *)
(* A part of OLT_BOARDS is a record; text that is not an integer is 0,     *)
(* which the code treats like any other number out of range.               *)
(***************************************************************************)
EXTENDS OidCodec

CONSTANTS
    Parts,     \* the parts of OLT_BOARDS
    MaxParts,  \* bound: parts of one OLT_BOARDS
    Defaults,  \* values of OLT_PONS_PER_BOARD
    OnuIDs,    \* ONU identifiers on a port
    Indexes    \* interface indexes that traps carry

ASSUME LayoutAssumption ==
    /\ Parts \subseteq [slot : Int, hasPon : BOOLEAN, pons : Int]
    /\ MaxParts \in Nat
    /\ Defaults \subseteq Int
    /\ OnuIDs \subseteq Nat
    /\ Indexes \subseteq Int

VARIABLES
    raw,      \* the parts read so far
    pons,     \* cfg.PonsPerBoard
    specs,    \* cfg.BoardPons
    portMap,  \* cfg.BoardPonMap
    scanned,  \* ports that the power monitor asks for
    phase

vars == <<raw, pons, specs, portMap, scanned, phase>>

Ports == BoardIDs \X PonIDs
DefaultBoards == {1, 2}

Clamp(n) == IF n \in PonIDs THEN n ELSE MaxPonID

Init ==
    /\ raw = <<>>
    /\ \E d \in Defaults : pons = Clamp(d)
    /\ specs = [s \in {} |-> MaxPonID]
    /\ portMap = [k \in {} |-> GenerateBoardPonOID(k[1], k[2])]
    /\ scanned = {}
    /\ phase = "parse"

\* specs with one more part: a slot out of range is skipped, ports out of range are
\* replaced by the default, and the last part for a slot is the one that counts.
WithPart(part) ==
    IF part.slot \notin BoardIDs THEN specs
    ELSE [s \in DOMAIN specs \cup {part.slot} |->
             IF s = part.slot THEN (IF part.hasPon /\ part.pons \in PonIDs THEN part.pons ELSE pons)
             ELSE specs[s]]

\* One turn of the loop of parseBoardSpecs.
ParsePart ==
    /\ phase = "parse"
    /\ Len(raw) < MaxParts
    /\ \E part \in Parts : raw' = Append(raw, part) /\ specs' = WithPart(part)
    /\ UNCHANGED <<pons, portMap, scanned, phase>>

\* The end of OLT_BOARDS: without a slot, those of a C320.
ParseEnd ==
    /\ phase = "parse"
    /\ specs' = IF DOMAIN specs = {} THEN [s \in DefaultBoards |-> pons] ELSE specs
    /\ phase' = "generate"
    /\ UNCHANGED <<raw, pons, portMap, scanned>>

\* Mutant: the loop over the ports ends one too early.
MutMapKeys == {k \in Ports : k[1] \in DOMAIN specs /\ k[2] < Clamp(specs[k[1]])}

\* The ports for which InitializeBoardPonMapFromSpecs makes an entry.
MapKeys == {k \in Ports : k[1] \in DOMAIN specs /\ k[2] <= Clamp(specs[k[1]])}

InitializeBoardPonMapFromSpecs ==
    /\ phase = "generate"
    /\ IF DOMAIN specs \subseteq BoardIDs
       THEN /\ portMap' = [k \in MapKeys |-> GenerateBoardPonOID(k[1], k[2])]
            /\ phase' = "run"
       ELSE phase' = "failed" /\ UNCHANGED portMap
    /\ UNCHANGED <<raw, pons, specs, scanned>>

\* ValidateBoardPonParams: the request is let through.
ValidateBoardPonParams(boardID, ponID) ==
    boardID \in DOMAIN specs /\ ponID >= 1 /\ ponID <= specs[boardID]

\* PowerMonitor.scan asks for every port of Boards x PonsPerBoard.
PowerScan ==
    /\ phase = "run" /\ scanned = {}
    /\ scanned' = {k \in Ports : k[1] \in DOMAIN specs /\ k[2] <= pons}
    /\ UNCHANGED <<raw, pons, specs, portMap, phase>>

Next == ParsePart \/ ParseEnd \/ InitializeBoardPonMapFromSpecs \/ PowerScan

Spec == Init /\ [][Next]_vars

-----------------------------------------------------------------------------
\* The types of the state, and the layout never fails to be generated.
TypeOK ==
    /\ raw \in Seq(Parts)
    /\ pons \in PonIDs
    /\ DOMAIN specs \subseteq BoardIDs
    /\ \A s \in DOMAIN specs : specs[s] \in PonIDs
    /\ DOMAIN portMap \subseteq Ports
    /\ scanned \subseteq Ports
    /\ phase \in {"parse", "generate", "run"}

\* A port passes the validation of a request exactly when the usecase has its
\* object identifiers: no valid request ends in "config not found".
ValidIsServed ==
    phase = "run" =>
        \A b \in 0..(MaxBoardID + 1), p \in 0..(MaxPonID + 1) :
            ValidateBoardPonParams(b, p) <=> <<b, p>> \in DOMAIN portMap

\* The index of a trap decodes to a configured port and the ONU behind it if it is the
\* one generated for that port, and only then: the listener inverts the generator, no two
\* ports share an index, and none beside them passes for one.
TrapsFindTheirPort ==
    \A k \in DOMAIN portMap, id \in OnuIDs :
        \A n \in Indexes \union {portMap[k].onuIDSuffix} :
            (parseOnuIndex(<<n, id>>) = [board |-> k[1], pon |-> k[2], onuID |-> id])
                <=> n = portMap[k].onuIDSuffix

\* No two ports of an OLT share an object identifier, in either index space: the
\* data of one is never served for the other.
PortsApart ==
    \A k, m \in DOMAIN portMap :
        k # m => /\ portMap[k].onuIDSuffix # portMap[m].onuIDSuffix
                 /\ portMap[k].onuTypeSuffix # portMap[m].onuTypeSuffix

\* docs/SNMP_TRAP_WEBHOOK.md: the power monitor scans all ONUs of every board and
\* PON.
ScanCoversLayout == scanned # {} => DOMAIN portMap \subseteq scanned
=============================================================================
