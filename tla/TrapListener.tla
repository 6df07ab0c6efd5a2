---------------------------- MODULE TrapListener ----------------------------
(***************************************************************************)
(* internal/trap/listener.go: a trap packet is a list of variables in any  *)
(* order; handleTrap collects them into one event and hands it to          *)
(* HandleEvent, which drops events without a board, a PON or an ONU.       *)
(*                                                                         *)
(* A variable has a kind (which prefix its OID has), the numbers behind    *)
(* the prefix and an integer value, where the value is one.  The numbers   *)
(* of an OID are numbers, so that the code's tests for text that is not do *)
(* not fail.  Names, types, serial numbers and descriptions are left out.  *)
(***************************************************************************)
EXTENDS OidCodec, TrapEvents

CONSTANTS
    Variables,  \* the variables that packets are made of
    MaxVars     \* bound: variables of a packet

ASSUME ListenerAssumption ==
    /\ \A v \in Variables : v.kind \in {"trapOID", "text", "name", "status", "reason", "other"}
    /\ \A v \in Variables : v.index \in Seq(Nat) /\ v.value \in Int
    /\ \A v \in Variables : v.kind \in {"name", "status", "text"} => v.index # <<>>
    /\ MaxVars \in Nat

VARIABLES
    packet,   \* the variables received
    next,     \* the next one of pass 2; 0 between packets
    event,    \* the event under construction
    handled   \* what HandleEvent got and did not drop, of the last packet

listenerVars == <<packet, next, event, handled>>

Nowhere == [board |-> 0, pon |-> 0, onuID |-> 0]

NoEvent == [at |-> Nowhere, type |-> ""]

\* mapStatus: the event type of a status.
mapStatus(n) ==
    CASE n = 1 -> "Logging"
      [] n = 2 -> "LOS"
      [] n = 3 -> "Synchronization"
      [] n = 4 -> "Online"
      [] n = 5 -> "DyingGasp"
      [] n = 6 -> "AuthFailed"
      [] n = 7 -> "Offline"
      [] OTHER -> "Unknown"

\* mapOfflineReason, whose names are those of the extractor but for their spelling.
mapOfflineReason(n) ==
    CASE n = 5  -> "SFi"
      [] n = 6  -> "LOAi"
      [] n = 7  -> "LOAMi"
      [] n = 10 -> "DeactivateSuccess"
      [] n = 11 -> "DeactivateFail"
      [] OTHER  -> ExtractLastOfflineReason(n)

\* mapTrapOID: the value 1 stands for the OIDs of the offline and the online trap.
mapTrapOID(n) == IF n = 1 THEN "StatusChange" ELSE ""

ListenerInit ==
    /\ packet = <<>>
    /\ next = 0
    /\ event = NoEvent
    /\ handled = {}

\* Pass 1: the first variable with the OID of the trap gives the type.
TrapType(p) ==
    LET at == {i \in DOMAIN p : p[i].kind = "trapOID"}
    IN  IF at = {} THEN ""
        ELSE mapTrapOID(p[CHOOSE i \in at : \A j \in at : i <= j].value)

Packets == UNION {[1..n -> Variables] : n \in 0..MaxVars}

\* gosnmp calls handleTrap with a packet.
Receive ==
    /\ next = 0
    /\ packet' \in Packets
    /\ next' = 1
    /\ event' = [NoEvent EXCEPT !.type = TrapType(packet')]
    /\ handled' = {}

\* Mutant: a status of an ONU that is not known yet only sets the ONU.
MutCollect(e, v) ==
    CASE v.kind = "name"   -> [e EXCEPT !.at = parseOnuIndex(v.index)]
      [] v.kind = "status" -> [at   |-> IF e.at.board = 0 THEN parseOnuIndex(v.index)
                                        ELSE [e.at EXCEPT !.onuID = parseOnuIndex(v.index).onuID],
                               type |-> mapStatus(v.value)]
      [] v.kind = "reason" -> [e EXCEPT !.type = mapOfflineReason(v.value)]
      [] OTHER             -> e

\* Mutant: the index of a status is not used.
MutNoStatus(e, v) ==
    CASE v.kind = "name"   -> [e EXCEPT !.at = parseOnuIndex(v.index)]
      [] v.kind = "status" -> [e EXCEPT !.type = mapStatus(v.value)]
      [] v.kind = "reason" -> [e EXCEPT !.type = mapOfflineReason(v.value)]
      [] OTHER             -> e

\* What one variable does to the event: a name says which ONU it is about, a status
\* says so only when no board is known yet.
Collect(e, v) ==
    CASE v.kind = "name"   -> [e EXCEPT !.at = parseOnuIndex(v.index)]
      [] v.kind = "status" -> [at   |-> IF e.at.board = 0 THEN parseOnuIndex(v.index) ELSE e.at,
                               type |-> mapStatus(v.value)]
      [] v.kind = "reason" -> [e EXCEPT !.type = mapOfflineReason(v.value)]
      [] OTHER             -> e

\* One turn of pass 2.
Variable ==
    /\ next \in 1..Len(packet)
    /\ event' = Collect(event, packet[next])
    /\ next' = next + 1
    /\ UNCHANGED <<packet, handled>>

\* The end of handleTrap, and the first test of HandleEvent.
Deliver ==
    /\ next = Len(packet) + 1
    /\ event' = IF event.at = Nowhere THEN [event EXCEPT !.type = "unknown"] ELSE event
    /\ handled' = IF event.at.board = 0 \/ event.at.pon = 0 \/ event.at.onuID = 0 THEN {}
                  ELSE {event.at}
    /\ next' = 0
    /\ UNCHANGED packet

ListenerNext == Receive \/ Variable \/ Deliver

ListenerSpec == ListenerInit /\ [][ListenerNext]_listenerVars

-----------------------------------------------------------------------------
Located == {i \in DOMAIN packet : packet[i].kind \in {"name", "status"}}
Named   == {parseOnuIndex(packet[i].index) : i \in Located}

Places == [board : 0..MaxBoardID, pon : 0..MaxPonID, onuID : Nat]

\* The types of the state.
ListenerTypeOK ==
    /\ packet \in Seq(Variables)
    /\ next \in 0..(Len(packet) + 1)
    /\ event = [at |-> event.at, type |-> event.type] /\ event.at \in Places
    /\ handled \subseteq [board : BoardIDs, pon : PonIDs, onuID : Nat \ {0}]

\* The event is nowhere until a variable of this packet has named an ONU, and is then
\* of one that has been named.
CollectInv ==
    next # 0 => IF \E i \in Located : i < next
                THEN \E i \in Located : i < next /\ event.at = parseOnuIndex(packet[i].index)
                ELSE event.at = Nowhere

\* The ONU that is verified and reported is one that a variable of this very packet
\* names: never a mixture of two variables or of two packets.
NoMixture == handled \subseteq Named

\* A trap whose variables agree on an ONU reaches the pipeline as an event of that
\* ONU, in whatever order and company they come.
OneOnuIsHandled ==
    \A o \in Named :
        (next = 0 /\ Named = {o} /\ o.board # 0 /\ o.onuID # 0) => handled = {o}

\* What makes the two properties above inductive.
ListenerInv == ListenerTypeOK /\ CollectInv /\ NoMixture /\ OneOnuIsHandled

\* The status of a packet and the same status read from the OLT give the same type:
\* the tables of listener.go, and of extractor.go with handler.go, agree.
StatusAgrees ==
    \A i \in DOMAIN packet :
        (packet[i].kind = "status" /\ packet[i].value \in 1..7 /\ next = i + 1) =>
            event.type = resolveEventType(ExtractAndGetStatus(packet[i].value), "")

\* An outage that a packet announces and that the OLT confirms, with whatever
\* reason, is an alert of a severity that traps have (not the one that is
\* re-verified by optical power): the list of handler.go and the severities of
\* formatter.go cover what the search by words yields.  A specific reason is not
\* taken for a general one that it contains.
OutageIsAlerted ==
    \A i \in DOMAIN packet, r \in Reasons :
        LET s == ExtractAndGetStatus(packet[i].value)
            type == resolveEventType(s, r)
        IN  packet[i].kind = "status" /\ s \notin {"Online", "Unknown"} =>
                /\ type \in alertEventTypes
                /\ eventSeverity(type) \in Severities \ {"Medium"}
                /\ s = "Offline" /\ r \in {"LOS", "LOSi", "LOFi", "PowerOff"} => type = r
=============================================================================
