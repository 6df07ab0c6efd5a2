--------------------------- MODULE DataPathsProofs ---------------------------
(***************************************************************************)
(* The computations on data, for inputs of every size: the index of a port *)
(* and the guarantees of a layout, for every OLT_BOARDS; a poll that finds *)
(* nothing new; a trap packet of any length; the uplink tables of any      *)
(* hardware; a page of any list; the client behind any chain of proxies.   *)
(***************************************************************************)
EXTENDS BoardLayout, TrapListener, Inventory, Uplink, Pagination, ClientAddress, TLAPS

\* How an index with an ONU behind it is decoded.
LEMMA Decoded ==
    ASSUME NEW n \in Int, NEW id \in Nat
    PROVE  LET k    == n - OnuIDIfIndexBase
               slot == k \div OnuIDSlotStride
               pon  == k % OnuIDSlotStride
           IN  parseOnuIndex(<<n, id>>) =
                   IF k < 1 \/ slot \notin BoardIDs \/ pon \notin PonIDs
                   THEN [board |-> 0, pon |-> 0, onuID |-> id]
                   ELSE [board |-> slot, pon |-> pon, onuID |-> id]
<1>1. <<n, id>>[1] = n /\ <<n, id>>[2] = id /\ Len(<<n, id>>) = 2
  OBVIOUS
<1>2. <<n, id>>[Len(<<n, id>>)] = id /\ (IF Len(<<n, id>>) >= 2 THEN <<n, id>>[2] ELSE 0) = id
  BY <1>1
<1> QED
  BY <1>1, <1>2, Zenon DEF parseOnuIndex

\* Division by the stride separates the slot from the PON.
LEMMA Division ==
    ASSUME NEW a \in 1..30, NEW b \in 1..16
    PROVE  (a * 256 + b) \div 256 = a /\ (a * 256 + b) % 256 = b
OBVIOUS

\* parseOnuIndex inverts GenerateBoardPonOID: the base, the stride and the bounds
\* of listener.go are those of oid_generator.go.
THEOREM RoundTrip ==
    ASSUME NEW b \in BoardIDs, NEW p \in PonIDs, NEW id \in Nat
    PROVE  parseOnuIndex(<<GenerateBoardPonOID(b, p).onuIDSuffix, id>>)
               = [board |-> b, pon |-> p, onuID |-> id]
<1>1. b \in 1..30 /\ p \in 1..16
  BY DEF BoardIDs, PonIDs, MaxBoardID, MaxPonID
<1>2. PICK n : n = GenerateBoardPonOID(b, p).onuIDSuffix
  OBVIOUS
<1>3. n \in Int /\ n - OnuIDIfIndexBase = b * 256 + p
  BY <1>1, <1>2, SMT DEF GenerateBoardPonOID, OnuIDIfIndexBase, OnuIDSlotStride, OnuIDIncrement
<1>4. b * 256 + p >= 1
  BY <1>1
<1>5. /\ (n - OnuIDIfIndexBase) \div OnuIDSlotStride = b
      /\ (n - OnuIDIfIndexBase) % OnuIDSlotStride = p
  BY <1>1, <1>3, Division DEF OnuIDSlotStride
<1>6. ~(n - OnuIDIfIndexBase < 1)
  BY <1>1, <1>3, <1>4
<1> QED
  BY <1>2, <1>3, <1>5, <1>6, Decoded, Zenon

\* What the listener decodes to a port is the index of that port and of no other:
\* no index that the generator does not make passes for one.
THEOREM OnlyOwnIndex ==
    ASSUME NEW n \in Int, NEW id \in Nat,
           parseOnuIndex(<<n, id>>).board # 0
    PROVE  \E b \in BoardIDs, p \in PonIDs :
               /\ GenerateBoardPonOID(b, p).onuIDSuffix = n
               /\ parseOnuIndex(<<n, id>>) = [board |-> b, pon |-> p, onuID |-> id]
<1> DEFINE k == n - OnuIDIfIndexBase
           slot == k \div OnuIDSlotStride
           pon == k % OnuIDSlotStride
<1>1. /\ slot \in BoardIDs /\ pon \in PonIDs
      /\ parseOnuIndex(<<n, id>>) = [board |-> slot, pon |-> pon, onuID |-> id]
  <2>1. CASE k < 1 \/ slot \notin BoardIDs \/ pon \notin PonIDs
    <3>1. parseOnuIndex(<<n, id>>) = [board |-> 0, pon |-> 0, onuID |-> id]
      BY <2>1, Decoded, Zenon
    <3> QED
      BY <3>1
  <2>2. CASE ~(k < 1 \/ slot \notin BoardIDs \/ pon \notin PonIDs)
    BY <2>2, Decoded, Zenon
  <2> QED
    BY <2>1, <2>2
<1>2. n = OnuIDIfIndexBase + slot * 256 + pon
  BY SMT DEF OnuIDIfIndexBase, OnuIDSlotStride
<1>3. GenerateBoardPonOID(slot, pon).onuIDSuffix = n
  <2> HIDE DEF slot, pon
  <2>1. slot \in Int /\ pon \in Int
    BY <1>1, SMT DEF BoardIDs, PonIDs, MaxBoardID, MaxPonID
  <2> QED
    BY <1>2, <2>1, SMT DEF GenerateBoardPonOID, OnuIDSlotStride, OnuIDIncrement, OnuIDIfIndexBase
<1> QED
  BY <1>1, <1>3

\* Ports have indexes of their own in both spaces.
LEMMA Injective ==
    ASSUME NEW k \in Ports, NEW m \in Ports, k # m
    PROVE  /\ GenerateBoardPonOID(k[1], k[2]).onuIDSuffix # GenerateBoardPonOID(m[1], m[2]).onuIDSuffix
           /\ GenerateBoardPonOID(k[1], k[2]).onuTypeSuffix # GenerateBoardPonOID(m[1], m[2]).onuTypeSuffix
<1>1. PICK a \in 1..30, b \in 1..16 : k = <<a, b>>
  BY DEF Ports, BoardIDs, PonIDs, MaxBoardID, MaxPonID
<1>2. PICK c \in 1..30, d \in 1..16 : m = <<c, d>>
  BY DEF Ports, BoardIDs, PonIDs, MaxBoardID, MaxPonID
<1>3. a # c \/ b # d
  BY <1>1, <1>2
<1>4. k[1] = a /\ k[2] = b /\ m[1] = c /\ m[2] = d
  BY <1>1, <1>2
<1>5. /\ GenerateBoardPonOID(a, b).onuIDSuffix # GenerateBoardPonOID(c, d).onuIDSuffix
      /\ GenerateBoardPonOID(a, b).onuTypeSuffix # GenerateBoardPonOID(c, d).onuTypeSuffix
  <2>1. /\ OnuIDIfIndexBase + a * 256 + b * 1 # OnuIDIfIndexBase + c * 256 + d * 1
        /\ OnuTypeIfIndexBase + a * 65536 + b * 256 # OnuTypeIfIndexBase + c * 65536 + d * 256
    BY <1>3, SMT DEF OnuIDIfIndexBase, OnuTypeIfIndexBase
  <2>2. /\ GenerateBoardPonOID(a, b).onuIDSuffix = OnuIDIfIndexBase + a * 256 + b * 1
        /\ GenerateBoardPonOID(a, b).onuTypeSuffix = OnuTypeIfIndexBase + a * 65536 + b * 256
    BY SMT DEF GenerateBoardPonOID, OnuIDSlotStride, OnuIDIncrement, OnuTypeSlotStride, OnuTypeIncrement
  <2>3. /\ GenerateBoardPonOID(c, d).onuIDSuffix = OnuIDIfIndexBase + c * 256 + d * 1
        /\ GenerateBoardPonOID(c, d).onuTypeSuffix = OnuTypeIfIndexBase + c * 65536 + d * 256
    BY SMT DEF GenerateBoardPonOID, OnuIDSlotStride, OnuIDIncrement, OnuTypeSlotStride, OnuTypeIncrement
  <2> QED
    BY <2>1, <2>2, <2>3, SMT
<1> QED
  BY <1>4, <1>5

-----------------------------------------------------------------------------
\* The generated map is that of the slots; before, it is empty.
MapInv ==
    portMap = IF phase = "run" THEN [k \in MapKeys |-> GenerateBoardPonOID(k[1], k[2])]
              ELSE [k \in {} |-> GenerateBoardPonOID(k[1], k[2])]

LayoutInv == TypeOK /\ MapInv

\* cfg.PonsPerBoard is a number of ports whatever the environment says.
LEMMA ClampInRange == ASSUME NEW n \in Int PROVE Clamp(n) \in PonIDs
BY DEF Clamp, PonIDs, MaxPonID

\* The invariant holds before the first part is read.
LEMMA LayoutInit == Init => LayoutInv
<1> SUFFICES ASSUME Init PROVE LayoutInv
  OBVIOUS
<1>1. pons \in PonIDs
  BY ClampInRange, LayoutAssumption DEF Init
<1>2. DOMAIN specs = {} /\ DOMAIN portMap = {}
  BY DEF Init
<1> QED
  BY <1>1, <1>2 DEF Init, LayoutInv, TypeOK, MapInv

\* A part changes the ports of one slot in range, or nothing.
LEMMA WithPartTypes ==
    ASSUME TypeOK, NEW part \in Parts
    PROVE  /\ DOMAIN WithPart(part) \subseteq BoardIDs
           /\ \A s \in DOMAIN WithPart(part) : WithPart(part)[s] \in PonIDs
<1>1. CASE part.slot \notin BoardIDs
  BY <1>1 DEF WithPart, TypeOK
<1>2. CASE part.slot \in BoardIDs
  <2> DEFINE f == [s \in DOMAIN specs \cup {part.slot} |->
                     IF s = part.slot THEN (IF part.hasPon /\ part.pons \in PonIDs THEN part.pons ELSE pons)
                     ELSE specs[s]]
  <2>1. WithPart(part) = f
    BY <1>2 DEF WithPart
  <2>2. DOMAIN f \subseteq BoardIDs
    BY <1>2 DEF TypeOK
  <2>3. ASSUME NEW s \in DOMAIN f PROVE f[s] \in PonIDs
    BY <2>3 DEF TypeOK
  <2> QED
    BY <2>1, <2>2, <2>3
<1> QED
  BY <1>1, <1>2

\* The layout's invariant, for every OLT_BOARDS.
THEOREM LayoutInvariant == Spec => []LayoutInv
<1>1. LayoutInv /\ [Next]_vars => LayoutInv'
  <2> SUFFICES ASSUME LayoutInv, [Next]_vars PROVE LayoutInv'
    OBVIOUS
  <2>1. CASE ParsePart
    <3>1. PICK part \in Parts : raw' = Append(raw, part) /\ specs' = WithPart(part)
      BY <2>1 DEF ParsePart
    <3>2. raw' \in Seq(Parts)
      BY <3>1 DEF LayoutInv, TypeOK
    <3>3. DOMAIN specs' \subseteq BoardIDs /\ \A s \in DOMAIN specs' : specs'[s] \in PonIDs
      BY <3>1, WithPartTypes DEF LayoutInv
    <3> QED
      BY <2>1, <3>2, <3>3 DEF ParsePart, LayoutInv, TypeOK, MapInv
  <2>2. CASE ParseEnd
    <3>1. DOMAIN specs' \subseteq BoardIDs /\ \A s \in DOMAIN specs' : specs'[s] \in PonIDs
      BY <2>2 DEF ParseEnd, DefaultBoards, BoardIDs, MaxBoardID, LayoutInv, TypeOK
    <3> QED
      BY <2>2, <3>1 DEF ParseEnd, LayoutInv, TypeOK, MapInv
  <2>3. CASE InitializeBoardPonMapFromSpecs
    <3>1. /\ portMap' = [k \in MapKeys |-> GenerateBoardPonOID(k[1], k[2])]
          /\ phase' = "run"
          /\ UNCHANGED <<raw, pons, specs, scanned>>
      BY <2>3 DEF InitializeBoardPonMapFromSpecs, LayoutInv, TypeOK
    <3>2. MapKeys' = MapKeys /\ MapKeys \subseteq Ports
      BY <3>1 DEF MapKeys
    <3> QED
      BY <3>1, <3>2 DEF LayoutInv, TypeOK, MapInv
  <2>4. CASE PowerScan
    BY <2>4 DEF PowerScan, LayoutInv, TypeOK, MapInv, MapKeys
  <2>5. CASE UNCHANGED vars
    BY <2>5 DEF vars, LayoutInv, TypeOK, MapInv, MapKeys
  <2> QED
    BY <2>1, <2>2, <2>3, <2>4, <2>5 DEF Next
<1> QED
  BY <1>1, LayoutInit, PTL DEF Spec

\* Type correctness, and no configuration makes the generator fail.
THEOREM LayoutTypeCorrect == Spec => []TypeOK
<1>1. LayoutInv => TypeOK
  BY DEF LayoutInv
<1> QED
  BY <1>1, LayoutInvariant, PTL

\* An entry of the map is that of its port.
LEMMA MapEntry ==
    ASSUME LayoutInv, NEW k \in DOMAIN portMap
    PROVE  k \in Ports /\ portMap[k] = GenerateBoardPonOID(k[1], k[2])
BY DEF LayoutInv, TypeOK, MapInv

\* The validation of a request and the map of the usecase agree on every port.
THEOREM LayoutValidIsServed == Spec => []ValidIsServed
<1>1. LayoutInv => ValidIsServed
  <2> SUFFICES ASSUME LayoutInv, phase = "run",
                      NEW b \in 0..(MaxBoardID + 1), NEW p \in 0..(MaxPonID + 1)
               PROVE  ValidateBoardPonParams(b, p) <=> <<b, p>> \in DOMAIN portMap
    BY DEF ValidIsServed
  <2>1. DOMAIN portMap = MapKeys
    BY DEF LayoutInv, MapInv
  <2>2. \A s \in DOMAIN specs : s \in BoardIDs /\ specs[s] \in PonIDs /\ Clamp(specs[s]) = specs[s]
    BY DEF LayoutInv, TypeOK, Clamp
  <2>3. <<b, p>> \in MapKeys <=> /\ b \in BoardIDs /\ p \in PonIDs
                                 /\ b \in DOMAIN specs /\ p <= Clamp(specs[b])
    BY DEF MapKeys, Ports
  <2> QED
    BY <2>1, <2>2, <2>3 DEF ValidateBoardPonParams, PonIDs, MaxPonID
<1> QED
  BY <1>1, LayoutInvariant, PTL

\* An index decodes to a configured port if and only if it is the one generated for it:
\* every trap about the port finds it, and none that is about something else.
THEOREM LayoutTraps == Spec => []TrapsFindTheirPort
<1>1. LayoutInv => TrapsFindTheirPort
  <2> SUFFICES ASSUME LayoutInv, NEW k \in DOMAIN portMap, NEW id \in OnuIDs,
                      NEW n \in Indexes \union {portMap[k].onuIDSuffix}
               PROVE  (parseOnuIndex(<<n, id>>) = [board |-> k[1], pon |-> k[2], onuID |-> id])
                          <=> n = portMap[k].onuIDSuffix
    BY Zenon DEF TrapsFindTheirPort
  <2>1. k \in Ports /\ k[1] \in BoardIDs /\ k[2] \in PonIDs /\ id \in Nat
    BY MapEntry, LayoutAssumption DEF Ports
  <2>2. portMap[k].onuIDSuffix = GenerateBoardPonOID(k[1], k[2]).onuIDSuffix
    BY MapEntry
  <2>3. ASSUME n = portMap[k].onuIDSuffix
        PROVE  parseOnuIndex(<<n, id>>) = [board |-> k[1], pon |-> k[2], onuID |-> id]
    BY <2>1, <2>2, <2>3, RoundTrip
  <2>4. ASSUME parseOnuIndex(<<n, id>>) = [board |-> k[1], pon |-> k[2], onuID |-> id],
               n # portMap[k].onuIDSuffix
        PROVE  FALSE
    <3>1. n \in Int
      BY <2>4, LayoutAssumption
    <3>2. parseOnuIndex(<<n, id>>).board # 0
      BY <2>1, <2>4 DEF BoardIDs
    <3>3. PICK b \in BoardIDs, p \in PonIDs :
              /\ GenerateBoardPonOID(b, p).onuIDSuffix = n
              /\ parseOnuIndex(<<n, id>>) = [board |-> b, pon |-> p, onuID |-> id]
      BY <2>1, <3>1, <3>2, OnlyOwnIndex
    <3>4. b = k[1] /\ p = k[2]
      <4> DEFINE o == parseOnuIndex(<<n, id>>)
      <4>1. o.board = b /\ o.pon = p
        BY <3>3
      <4>2. o.board = k[1] /\ o.pon = k[2]
        BY <2>4
      <4> QED
        BY <4>1, <4>2
    <3> QED
      BY <2>2, <2>4, <3>3, <3>4
  <2> QED
    BY <2>3, <2>4
<1> QED
  BY <1>1, LayoutInvariant, PTL

\* No two ports of a layout share an object identifier.
THEOREM LayoutPortsApart == Spec => []PortsApart
<1>1. LayoutInv => PortsApart
  <2> SUFFICES ASSUME LayoutInv, NEW k \in DOMAIN portMap, NEW m \in DOMAIN portMap, k # m
               PROVE  /\ portMap[k].onuIDSuffix # portMap[m].onuIDSuffix
                      /\ portMap[k].onuTypeSuffix # portMap[m].onuTypeSuffix
    BY DEF PortsApart
  <2> QED
    BY MapEntry, Injective
<1> QED
  BY <1>1, LayoutInvariant, PTL

-----------------------------------------------------------------------------
\* The entries of reg are those of the list that was applied last, with the missing
\* fields filled in by the startup or by a poll.
AppliedInv ==
    (up = "yes" /\ source # <<>>) => \E d \in Int : olts = Built(source, d)

\* What is filled in for a missing limit is no connection field.
LEMMA SameConnection ==
    ASSUME NEW e, NEW c, NEW d
    PROVE  Connection(oltFromJSON(e, c)) = Connection(oltFromJSON(e, d))
  BY DEF Connection, oltFromJSON

\* Reconcile keeps every stack when the lists are the same.
LEMMA SameListIsKept ==
    ASSUME NEW c \in Int, NEW d \in Int, source # <<>>,
           olts = Built(source, c), Apply(Built(source, d))
    PROVE  rebuilt' = {}
<1> DEFINE new == Built(source, d)
<1>1. DOMAIN olts = Ids(source) /\ DOMAIN new = Ids(source)
      BY DEF Built
<1>2. ASSUME NEW id \in Ids(source)
      PROVE  Connection(new[id]) = Connection(olts[id])
  <2> DEFINE e == source[CHOOSE i \in DOMAIN source : source[i].id = id]
  <2>1. new[id] = oltFromJSON(e, d) /\ olts[id] = oltFromJSON(e, c)
        BY DEF Built
  <2>2. QED  BY <2>1, SameConnection
<1>3. rebuilt' = (DOMAIN new \union DOMAIN olts) \
                     {id \in DOMAIN new \cap DOMAIN olts :
                         Connection(new[id]) = Connection(olts[id])}
      BY DEF Apply
<1> HIDE DEF new
<1>4. QED  BY <1>1, <1>2, <1>3

\* Before the startup there is no list, and nothing is applied.
LEMMA AppliedInit == InventoryInit => AppliedInv
  BY DEF InventoryInit, AppliedInv

\* The startup, each poll and each edit of the list keep AppliedInv.
LEMMA AppliedStep ==
    (AppliedInv /\ env \in Envs) /\ [InventoryNext]_inventoryVars => (AppliedInv /\ env \in Envs)'
<1> SUFFICES ASSUME AppliedInv, env \in Envs, [InventoryNext]_inventoryVars
             PROVE  (AppliedInv /\ env \in Envs)'
    OBVIOUS
<1>1. CASE Startup
  <2>1. env.max \in Int  BY InventoryAssumption
  <2>2. CASE list = <<>>  BY <1>1, <2>2 DEF Startup, AppliedInv
  <2>3. CASE list # <<>> /\ Accepted(list, env.default)
        BY <1>1, <2>1, <2>3 DEF Startup, Apply, AppliedInv
  <2>4. CASE list # <<>> /\ ~Accepted(list, env.default)
        BY <1>1, <2>4 DEF Startup, AppliedInv
  <2>5. QED  BY <2>2, <2>3, <2>4
<1>2. CASE Poll
  <2>1. CASE list # <<>> /\ Accepted(list, "")
    <3>1. olts' = Built(list, 0) /\ source' = list /\ env' = env
          BY <1>2, <2>1 DEF Poll, Apply
    <3>2. 0 \in Int
          OBVIOUS
    <3>3. QED  BY <3>1, <3>2 DEF AppliedInv
  <2>2. CASE ~(list # <<>> /\ Accepted(list, ""))
        BY <1>2, <2>2 DEF Poll, AppliedInv
  <2>3. QED  BY <2>1, <2>2
<1>3. CASE Edit  BY <1>3 DEF Edit, AppliedInv
<1>4. CASE UNCHANGED inventoryVars  BY <1>4 DEF inventoryVars, AppliedInv
<1>5. QED  BY <1>1, <1>2, <1>3, <1>4 DEF InventoryNext

\* No poll of an unchanged list disturbs an OLT (BuildOLTRegistry and oltChangeKey).
THEOREM InventoryPollKeepsStacks == InventorySpec => PollKeepsStacks
<1>1. InventoryInit => AppliedInv /\ env \in Envs
      BY AppliedInit DEF InventoryInit
<1>2. ASSUME AppliedInv, Poll, list = source
      PROVE  rebuilt' = {}
  <2>1. CASE list # <<>> /\ Accepted(list, "")
    <3>1. PICK c \in Int : olts = Built(source, c)
          BY <1>2, <2>1 DEF AppliedInv, Poll
    <3>2. Apply(Built(source, 0))
          BY <1>2, <2>1 DEF Poll
    <3>3. 0 \in Int
          OBVIOUS
    <3>4. source # <<>>
          BY <1>2, <2>1, Zenon
    <3>5. QED  BY <3>1, <3>2, <3>3, <3>4, SameListIsKept, Zenon
  <2>2. CASE ~(list # <<>> /\ Accepted(list, ""))
        BY <1>2, <2>2 DEF Poll
  <2>3. QED  BY <2>1, <2>2
<1>3. (AppliedInv /\ env \in Envs) /\ [InventoryNext]_inventoryVars
          => [(Poll /\ list = source) => rebuilt' = {}]_inventoryVars
      BY <1>2
<1>4. QED  BY <1>1, <1>3, AppliedStep, PTL DEF InventorySpec, PollKeepsStacks

-----------------------------------------------------------------------------
\* A place that can be parsed has a board and a port, or neither.
LEMMA ParseFacts ==
    ASSUME NEW parts \in Seq(Nat), parts # <<>>
    PROVE  /\ parseOnuIndex(parts) \in Places
           /\ parseOnuIndex(parts).board # 0 <=> parseOnuIndex(parts).pon # 0
<1> DEFINE n    == parts[1] - OnuIDIfIndexBase
           slot == n \div OnuIDSlotStride
           pon  == n % OnuIDSlotStride
           last == parts[Len(parts)]
           onu  == IF Len(parts) >= 2 THEN parts[2] ELSE 0
<1>1. last \in Nat /\ onu \in Nat
  BY DEF Places
<1>2. parseOnuIndex(parts) = IF n < 1 \/ slot \notin BoardIDs \/ pon \notin PonIDs
                             THEN [board |-> 0, pon |-> 0, onuID |-> last]
                             ELSE [board |-> slot, pon |-> pon, onuID |-> onu]
  BY Zenon DEF parseOnuIndex
<1> HIDE DEF n, slot, pon, last, onu
<1>3. /\ BoardIDs \subseteq 0..MaxBoardID /\ 0 \notin BoardIDs
      /\ PonIDs \subseteq 0..MaxPonID /\ 0 \notin PonIDs
      /\ 0 \in 0..MaxBoardID /\ 0 \in 0..MaxPonID
  BY DEF BoardIDs, PonIDs, MaxBoardID, MaxPonID
<1>4. CASE n < 1 \/ slot \notin BoardIDs \/ pon \notin PonIDs
  BY <1>1, <1>2, <1>3, <1>4 DEF Places
<1>5. CASE ~(n < 1 \/ slot \notin BoardIDs \/ pon \notin PonIDs)
  <2>1. slot \in BoardIDs /\ pon \in PonIDs
    BY <1>5
  <2>2. slot \in 0..MaxBoardID /\ pon \in 0..MaxPonID /\ slot # 0 /\ pon # 0
    BY <1>3, <2>1
  <2>3. parseOnuIndex(parts) = [board |-> slot, pon |-> pon, onuID |-> onu]
    BY <1>2, <1>5
  <2> QED
    BY <1>1, <2>2, <2>3 DEF Places
<1> QED
  BY <1>4, <1>5

\* A variable that says which ONU the event is about has an index.
LEMMA LocatedFacts ==
    ASSUME packet \in Seq(Variables), NEW i \in Located
    PROVE  /\ i \in 1..Len(packet)
           /\ parseOnuIndex(packet[i].index) \in Places
           /\ parseOnuIndex(packet[i].index).board # 0 <=> parseOnuIndex(packet[i].index).pon # 0
<1>1. /\ i \in 1..Len(packet) /\ packet[i] \in Variables
      /\ packet[i].kind \in {"name", "status"}
  BY DEF Located
<1>2. packet[i].index \in Seq(Nat) /\ packet[i].index # <<>>
  BY <1>1, ListenerAssumption
<1> QED
  BY <1>1, <1>2, ParseFacts

\* What a variable does to the place of the event.
LEMMA CollectFacts ==
    ASSUME NEW e, e = [at |-> e.at, type |-> e.type], NEW v
    PROVE  LET r == Collect(e, v)
               p == parseOnuIndex(v.index)
           IN  /\ r = [at |-> r.at, type |-> r.type]
               /\ v.kind = "name" => r.at = p
               /\ v.kind = "status" => r.at = IF e.at.board = 0 THEN p ELSE e.at
               /\ v.kind \notin {"name", "status"} => r.at = e.at
<1> DEFINE p == parseOnuIndex(v.index)
           a == IF e.at.board = 0 THEN p ELSE e.at
           s == mapStatus(v.value)
           o == mapOfflineReason(v.value)
           named    == [e EXCEPT !.at = p]
           reasoned == [e EXCEPT !.type = o]
           stated   == [at |-> a, type |-> s]
<1>1. Collect(e, v) = CASE v.kind = "name"   -> named
                        [] v.kind = "status" -> stated
                        [] v.kind = "reason" -> reasoned
                        [] OTHER             -> e
  BY Zenon DEF Collect
<1>2. /\ named = [at |-> named.at, type |-> named.type] /\ named.at = p
      /\ reasoned = [at |-> reasoned.at, type |-> reasoned.type] /\ reasoned.at = e.at
      /\ stated = [at |-> stated.at, type |-> stated.type] /\ stated.at = a
  <2> HIDE DEF p, a, s, o
  <2> QED
    OBVIOUS
<1> HIDE DEF named, reasoned, stated
<1>3. CASE v.kind = "name"
  <2>1. Collect(e, v) = named
    BY <1>1, <1>3
  <2> QED
    BY <1>2, <1>3, <2>1
<1>4. CASE v.kind = "status"
  <2>1. Collect(e, v) = stated
    BY <1>1, <1>4
  <2> QED
    BY <1>2, <1>4, <2>1
<1>5. CASE v.kind = "reason"
  <2>1. Collect(e, v) = reasoned
    BY <1>1, <1>5
  <2> QED
    BY <1>2, <1>5, <2>1
<1>6. CASE v.kind \notin {"name", "status", "reason"}
  <2>1. Collect(e, v) = e
    BY <1>1, <1>6
  <2> QED
    BY <1>6, <2>1
<1> QED
  BY <1>3, <1>4, <1>5, <1>6

\* Before the first packet there is no event.
LEMMA ListenerStart == ListenerInit => ListenerInv
<1> SUFFICES ASSUME ListenerInit PROVE ListenerInv
  OBVIOUS
<1>1. /\ NoEvent = [at |-> NoEvent.at, type |-> NoEvent.type] /\ NoEvent.at = Nowhere
      /\ Nowhere \in Places
  BY DEF NoEvent, Nowhere, Places, MaxBoardID, MaxPonID
<1>2. packet = <<>> /\ packet \in Seq(Variables) /\ Len(packet) = 0 /\ DOMAIN packet = {}
  BY DEF ListenerInit
<1>3. Located = {} /\ Named = {}
  BY <1>2 DEF Located, Named
<1> QED
  BY <1>1, <1>2, <1>3
     DEF ListenerInit, ListenerInv, ListenerTypeOK, CollectInv, NoMixture, OneOnuIsHandled

\* A packet arrives: nothing of an earlier one is left.
LEMMA ReceiveKeeps ==
    ASSUME ListenerInv, Receive
    PROVE  ListenerInv'
<1> DEFINE type == TrapType(packet')
           fresh == [NoEvent EXCEPT !.type = type]
<1>1. packet' \in Seq(Variables)
  <2>1. PICK n \in 0..MaxVars : packet' \in [1..n -> Variables]
    BY DEF Receive, Packets
  <2> QED
    BY <2>1, ListenerAssumption
<1>2. event' = fresh /\ next' = 1 /\ handled' = {}
  BY DEF Receive
<1>3. fresh = [at |-> fresh.at, type |-> fresh.type] /\ fresh.at = Nowhere
  <2>1. NoEvent = [at |-> NoEvent.at, type |-> NoEvent.type] /\ NoEvent.at = Nowhere
    BY DEF NoEvent
  <2> HIDE DEF type
  <2> QED
    BY <2>1
<1>4. Nowhere \in Places
  BY DEF Nowhere, Places, MaxBoardID, MaxPonID
<1> HIDE DEF fresh
<1>5. ListenerTypeOK'
  BY <1>1, <1>2, <1>3, <1>4 DEF ListenerTypeOK
<1>6. \A i \in Located' : i \in 1..Len(packet')
  BY <1>1 DEF Located
<1>7. CollectInv'
  BY <1>1, <1>2, <1>3, <1>6 DEF CollectInv
<1>8. NoMixture' /\ OneOnuIsHandled'
  BY <1>2 DEF NoMixture, OneOnuIsHandled
<1> QED
  BY <1>5, <1>7, <1>8 DEF ListenerInv

\* One variable: the event moves to the ONU it names, or stays.
LEMMA VariableKeeps ==
    ASSUME ListenerInv, Variable
    PROVE  ListenerInv'
<1> DEFINE v == packet[next]
           p == parseOnuIndex(v.index)
<1>1. /\ ListenerTypeOK /\ CollectInv /\ next \in 1..Len(packet) /\ packet \in Seq(Variables)
      /\ event = [at |-> event.at, type |-> event.type] /\ event.at \in Places
      /\ next' = next + 1 /\ event' = Collect(event, v)
      /\ UNCHANGED <<packet, handled>> /\ Located' = Located
  BY DEF ListenerInv, ListenerTypeOK, Variable, Located
<1>2. next \in Located <=> v.kind \in {"name", "status"}
  BY <1>1 DEF Located
<1>3. \A i \in Located : i \in Nat
  BY <1>1, LocatedFacts
<1>4. /\ event' = [at |-> event'.at, type |-> event'.type]
      /\ v.kind = "name" => event'.at = p
      /\ v.kind = "status" => event'.at = IF event.at.board = 0 THEN p ELSE event.at
      /\ v.kind \notin {"name", "status"} => event'.at = event.at
  <2> HIDE DEF v
  <2> QED
    BY <1>1, CollectFacts
<1>5. next \in Located => p \in Places
  BY <1>1, LocatedFacts
<1> HIDE DEF v
<1>6. event'.at \in Places
  BY <1>1, <1>2, <1>4, <1>5
<1>7. CollectInv'
  <2>1. CASE next \in Located
    <3>1. \/ event'.at = p
          \/ event'.at = event.at /\ event.at.board # 0
      <4>1. CASE v.kind = "name"
        BY <1>4, <4>1
      <4>2. CASE v.kind = "status"
        BY <1>4, <4>2
      <4> QED
        BY <1>2, <2>1, <4>1, <4>2
    <3>2. CASE event'.at = p
      BY <1>1, <2>1, <3>2 DEF CollectInv, v
    <3>3. CASE event'.at = event.at /\ event.at.board # 0
      <4>1. event.at # Nowhere
        BY <3>3 DEF Nowhere
      <4>2. PICK i \in Located : i < next /\ event.at = parseOnuIndex(packet[i].index)
        BY <1>1, <4>1 DEF CollectInv
      <4> QED
        BY <1>1, <1>3, <3>3, <4>2 DEF CollectInv
    <3> QED
      BY <3>1, <3>2, <3>3
  <2>2. CASE next \notin Located
    <3>1. \A i \in Located : i < next + 1 <=> i < next
      BY <1>1, <1>3, <2>2
    <3>2. event'.at = event.at
      BY <1>2, <1>4, <2>2
    <3> QED
      BY <1>1, <3>1, <3>2 DEF CollectInv
  <2> QED
    BY <2>1, <2>2
<1>8. ListenerTypeOK'
  BY <1>1, <1>4, <1>6 DEF ListenerTypeOK
<1>9. NoMixture' /\ OneOnuIsHandled'
  BY <1>1 DEF ListenerInv, NoMixture, OneOnuIsHandled, Named
<1> QED
  BY <1>7, <1>8, <1>9 DEF ListenerInv

\* The end of the packet: an event with a board, a port and an ONU is of an ONU that
\* the packet names, and there is one when all variables agree on it.
LEMMA DeliverKeeps ==
    ASSUME ListenerInv, Deliver
    PROVE  ListenerInv'
<1> DEFINE unknown == [event EXCEPT !.type = "unknown"]
           at == event.at
<1>1. /\ ListenerTypeOK /\ CollectInv /\ packet \in Seq(Variables) /\ Len(packet) \in Nat
      /\ event = [at |-> event.at, type |-> event.type] /\ at \in Places
      /\ next = Len(packet) + 1 /\ next # 0 /\ next' = 0 /\ packet' = packet
      /\ Located' = Located /\ Named' = Named
      /\ event' = IF at = Nowhere THEN unknown ELSE event
      /\ handled' = IF at.board = 0 \/ at.pon = 0 \/ at.onuID = 0 THEN {} ELSE {at}
  BY DEF ListenerInv, ListenerTypeOK, Deliver, Located, Named
<1>2. \A i \in Located : i < next
  BY <1>1, LocatedFacts
<1>3. Located # {} => at \in Named
  BY <1>1, <1>2 DEF CollectInv, Named
<1>4. Located = {} => at = Nowhere
  BY <1>1 DEF CollectInv
<1>5. unknown = [at |-> unknown.at, type |-> unknown.type] /\ unknown.at = at
  BY <1>1
<1>6. /\ at.board \in 0..MaxBoardID /\ at.pon \in 0..MaxPonID /\ at.onuID \in Nat
      /\ at = [board |-> at.board, pon |-> at.pon, onuID |-> at.onuID]
  BY <1>1 DEF Places
<1>7. \A o \in Named : o.board # 0 => o.pon # 0
  BY <1>1, LocatedFacts DEF Named
<1>8. Nowhere.board = 0
  BY DEF Nowhere
<1> HIDE DEF unknown, at
<1>9. handled' \subseteq [board : BoardIDs, pon : PonIDs, onuID : Nat \ {0}]
  BY <1>1, <1>6 DEF BoardIDs, PonIDs, MaxBoardID, MaxPonID
<1>10. ListenerTypeOK'
  BY <1>1, <1>5, <1>9 DEF ListenerTypeOK, at
<1>11. CollectInv'
  BY <1>1 DEF CollectInv
<1>12. NoMixture'
  BY <1>1, <1>3, <1>4, <1>8 DEF NoMixture
<1>13. OneOnuIsHandled'
  <2> SUFFICES ASSUME NEW o \in Named, Named = {o}, o.board # 0, o.onuID # 0
               PROVE  handled' = {o}
    BY <1>1 DEF OneOnuIsHandled
  <2>1. Located # {}
    BY DEF Named
  <2>2. at = o
    BY <1>3, <2>1
  <2> QED
    BY <1>1, <1>7, <2>2
<1> QED
  BY <1>10, <1>11, <1>12, <1>13 DEF ListenerInv

\* Every variable that handleTrap looks at, and its end, keep ListenerInv.
LEMMA ListenerStep == ListenerInv /\ [ListenerNext]_listenerVars => ListenerInv'
<1> SUFFICES ASSUME ListenerInv, [ListenerNext]_listenerVars PROVE ListenerInv'
  OBVIOUS
<1>1. CASE UNCHANGED listenerVars
  <2>1. /\ UNCHANGED <<packet, next, event, handled>>
        /\ Located' = Located /\ Named' = Named
    BY <1>1 DEF listenerVars, Located, Named
  <2> QED
    BY <2>1 DEF ListenerInv, ListenerTypeOK, CollectInv, NoMixture, OneOnuIsHandled
<1> QED
  BY <1>1, ReceiveKeeps, VariableKeeps, DeliverKeeps DEF ListenerNext

\* The invariant of the listener, for packets of any length made of any variables.
THEOREM ListenerInvariant == ListenerSpec => []ListenerInv
BY ListenerStart, ListenerStep, PTL DEF ListenerSpec

\* An event is of an ONU that a variable of its own packet names (handleTrap): no
\* board of one variable with the ONU of another, and nothing of an earlier packet.
THEOREM ListenerNoMixture == ListenerSpec => []NoMixture
<1>1. ListenerInv => NoMixture
  BY DEF ListenerInv
<1> QED
  BY <1>1, ListenerInvariant, PTL

\* A packet whose variables agree on an ONU is handled, in any order and company
\* (handleTrap, HandleEvent).
THEOREM ListenerOneOnuIsHandled == ListenerSpec => []OneOnuIsHandled
<1>1. ListenerInv => OneOnuIsHandled
  BY DEF ListenerInv
<1> QED
  BY <1>1, ListenerInvariant, PTL

\* What the search by words yields for every status but the one of an ONU that is off:
\* the reason does not matter.
LEMMA StatusType ==
    ASSUME NEW s \in {"Logging", "LOS", "Synchronization", "Dying Gasp", "Auth Failed"}, NEW r
    PROVE  /\ resolveEventType(s, r) \in {"Logging", "LOS", "Synchronization", "DyingGasp", "AuthFailed"}
<1>1. CASE s = "Logging"
  BY <1>1 DEF resolveEventType, StatusWords
<1>2. CASE s = "LOS"
  BY <1>2 DEF resolveEventType, StatusWords
<1>3. CASE s = "Synchronization"
  BY <1>3 DEF resolveEventType, StatusWords
<1>4. CASE s = "Dying Gasp"
  BY <1>4 DEF resolveEventType, StatusWords
<1>5. CASE s = "Auth Failed"
  BY <1>5 DEF resolveEventType, StatusWords
<1> QED
  BY <1>1, <1>2, <1>3, <1>4, <1>5

\* The reason decides the type of an ONU that is off, the specific words first.
LEMMA OfflineType ==
    ASSUME NEW r
    PROVE  /\ resolveEventType("Offline", r) \in {"LOS", "LOSi", "LOFi", "PowerOff", "AuthFailed", "Offline"}
           /\ r \in {"LOS", "LOSi", "LOFi", "PowerOff"} => resolveEventType("Offline", r) = r
<1>1. resolveEventType("Offline", r) = IF r # "" THEN normalizeOfflineReason(r) ELSE "Offline"
  BY DEF resolveEventType, StatusWords
<1>2. "dying" \notin ReasonWords(r)
  BY DEF ReasonWords
<1>3. CASE r = "LOS"
  BY <1>1, <1>3 DEF normalizeOfflineReason, ReasonWords
<1>4. CASE r = "LOSi"
  BY <1>1, <1>4 DEF normalizeOfflineReason, ReasonWords
<1>5. CASE r = "LOFi"
  BY <1>1, <1>5 DEF normalizeOfflineReason, ReasonWords
<1>6. CASE r = "PowerOff"
  BY <1>1, <1>6 DEF normalizeOfflineReason, ReasonWords
<1>7. CASE r \notin {"LOS", "LOSi", "LOFi", "PowerOff"}
  BY <1>1, <1>2, <1>7 DEF normalizeOfflineReason
<1> QED
  BY <1>3, <1>4, <1>5, <1>6, <1>7

\* The severities of the types that traps have.
LEMMA SeverityFacts ==
    ASSUME NEW type \in {"Logging", "LOS", "Synchronization", "DyingGasp", "AuthFailed", "LOSi", "LOFi",
                         "PowerOff", "Offline"}
    PROVE  eventSeverity(type) \in {"Critical", "High", "Low"}
<1>1. CASE type \in {"LOS", "LOSi", "LOFi", "Offline", "AuthFailed", "PowerOff"}
  BY <1>1 DEF eventSeverity, PowerEventTypes
<1>2. CASE type \in {"Logging", "Synchronization"}
  BY <1>2 DEF eventSeverity, PowerEventTypes
<1>3. CASE type = "DyingGasp"
  BY <1>3 DEF eventSeverity, PowerEventTypes
<1> QED
  BY <1>1, <1>2, <1>3

\* An outage that a packet announces and the OLT confirms, with whatever reason, is
\* an alert of a severity that traps have (handler.go's list and formatter.go's
\* severities cover what resolveEventType yields), for every value of a status.
THEOREM ListenerOutageIsAlerted == ListenerSpec => []OutageIsAlerted
<1>1. OutageIsAlerted
  <2> SUFFICES ASSUME NEW i \in DOMAIN packet, NEW r \in Reasons
               PROVE  LET s == ExtractAndGetStatus(packet[i].value)
                          type == resolveEventType(s, r)
                      IN  packet[i].kind = "status" /\ s \notin {"Online", "Unknown"} =>
                              /\ type \in alertEventTypes
                              /\ eventSeverity(type) \in Severities \ {"Medium"}
                              /\ s = "Offline" /\ r \in {"LOS", "LOSi", "LOFi", "PowerOff"} => type = r
    BY DEF OutageIsAlerted
  <2> DEFINE s == ExtractAndGetStatus(packet[i].value)
             type == resolveEventType(s, r)
  <2>1. s \in {"Logging", "LOS", "Synchronization", "Online", "Dying Gasp", "Auth Failed", "Offline",
               "Unknown"}
    BY DEF ExtractAndGetStatus
  <2> HIDE DEF s
  <2>2. s \notin {"Online", "Unknown"} =>
           type \in {"Logging", "LOS", "Synchronization", "DyingGasp", "AuthFailed", "LOSi", "LOFi",
                     "PowerOff", "Offline"}
    <3>1. CASE s \in {"Logging", "LOS", "Synchronization", "Dying Gasp", "Auth Failed"}
      BY <3>1, StatusType
    <3>2. CASE s = "Offline"
      BY <3>2, OfflineType
    <3> QED
      BY <2>1, <3>1, <3>2
  <2>3. s = "Offline" /\ r \in {"LOS", "LOSi", "LOFi", "PowerOff"} => type = r
    BY OfflineType
  <2> HIDE DEF type
  <2>4. s \notin {"Online", "Unknown"} => type \in alertEventTypes
    BY <2>2 DEF alertEventTypes
  <2>5. s \notin {"Online", "Unknown"} => eventSeverity(type) \in {"Critical", "High", "Low"}
    BY <2>2, SeverityFacts
  <2>6. {"Critical", "High", "Low"} \subseteq Severities \ {"Medium"}
    BY DEF Severities
  <2> QED
    BY <2>3, <2>4, <2>5, <2>6 DEF s, type
<1> QED
  BY <1>1, PTL

\* The names of a status and the types they become are those of the table of listener.go.
LEMMA TablesAgree ==
    ASSUME NEW n \in 1..7
    PROVE  resolveEventType(ExtractAndGetStatus(n), "") = mapStatus(n)
<1>1. n \in {1, 2, 3, 4, 5, 6, 7}
  OBVIOUS
<1>2. CASE n = 1
  <2>1. ExtractAndGetStatus(n) = "Logging" /\ mapStatus(n) = "Logging"
    BY <1>2 DEF ExtractAndGetStatus, mapStatus
  <2> QED
    BY <2>1 DEF resolveEventType, StatusWords
<1>3. CASE n = 2
  <2>1. ExtractAndGetStatus(n) = "LOS" /\ mapStatus(n) = "LOS"
    BY <1>3 DEF ExtractAndGetStatus, mapStatus
  <2> QED
    BY <2>1 DEF resolveEventType, StatusWords
<1>4. CASE n = 3
  <2>1. ExtractAndGetStatus(n) = "Synchronization" /\ mapStatus(n) = "Synchronization"
    BY <1>4 DEF ExtractAndGetStatus, mapStatus
  <2> QED
    BY <2>1 DEF resolveEventType, StatusWords
<1>5. CASE n = 4
  <2>1. ExtractAndGetStatus(n) = "Online" /\ mapStatus(n) = "Online"
    BY <1>5 DEF ExtractAndGetStatus, mapStatus
  <2> QED
    BY <2>1 DEF resolveEventType, StatusWords
<1>6. CASE n = 5
  <2>1. ExtractAndGetStatus(n) = "Dying Gasp" /\ mapStatus(n) = "DyingGasp"
    BY <1>6 DEF ExtractAndGetStatus, mapStatus
  <2> QED
    BY <2>1 DEF resolveEventType, StatusWords
<1>7. CASE n = 6
  <2>1. ExtractAndGetStatus(n) = "Auth Failed" /\ mapStatus(n) = "AuthFailed"
    BY <1>7 DEF ExtractAndGetStatus, mapStatus
  <2> QED
    BY <2>1 DEF resolveEventType, StatusWords
<1>8. CASE n = 7
  <2>1. ExtractAndGetStatus(n) = "Offline" /\ mapStatus(n) = "Offline"
    BY <1>8 DEF ExtractAndGetStatus, mapStatus
  <2> QED
    BY <2>1 DEF resolveEventType, StatusWords
<1> QED
  BY <1>1, <1>2, <1>3, <1>4, <1>5, <1>6, <1>7, <1>8

\* The type that a status of a packet gives the event is the one that the same status
\* gives when it is read from the OLT (mapStatus of listener.go; ExtractAndGetStatus and
\* resolveEventType).
THEOREM ListenerStatusAgrees == ListenerSpec => []StatusAgrees
<1> DEFINE AgreeInv == ListenerInv /\ StatusAgrees
<1>1. ListenerInit => AgreeInv
  <2> SUFFICES ASSUME ListenerInit PROVE AgreeInv
    OBVIOUS
  <2>1. packet = <<>> /\ DOMAIN packet = {}
    BY DEF ListenerInit
  <2> QED
    BY <2>1, ListenerStart DEF StatusAgrees
<1>2. AgreeInv /\ [ListenerNext]_listenerVars => AgreeInv'
  <2> SUFFICES ASSUME AgreeInv, [ListenerNext]_listenerVars PROVE AgreeInv'
    OBVIOUS
  <2>1. ListenerInv'
    BY ListenerStep
  <2>2. packet' \in Seq(Variables) /\ DOMAIN packet' = 1..Len(packet') /\ Len(packet') \in Nat
    BY <2>1 DEF ListenerInv, ListenerTypeOK
  <2> SUFFICES ASSUME NEW i \in 1..Len(packet'), packet'[i].kind = "status", packet'[i].value \in 1..7,
                      next' = i + 1
               PROVE  event'.type = resolveEventType(ExtractAndGetStatus(packet'[i].value), "")
    BY <2>1, <2>2 DEF StatusAgrees
  <2>3. CASE Receive \/ Deliver
    <3>1. next' \in {0, 1}
      BY <2>3 DEF Receive, Deliver
    <3>2. i + 1 \notin {0, 1}
      BY <2>2
    <3> QED
      BY <3>1, <3>2, Zenon
  <2>4. CASE Variable
    <3>1. next = i /\ packet' = packet /\ event' = Collect(event, packet[i])
      BY <2>4 DEF Variable, ListenerInv, ListenerTypeOK
    <3>2. Collect(event, packet[i]).type = mapStatus(packet[i].value)
      <4> DEFINE v == packet[i]
      <4>1. v.kind = "status"
        BY <3>1
      <4> DEFINE a == IF event.at.board = 0 THEN parseOnuIndex(v.index) ELSE event.at
                 t == mapStatus(v.value)
      <4>2. Collect(event, v) = [at |-> a, type |-> t]
        BY <4>1 DEF Collect
      <4> HIDE DEF v, a, t
      <4> QED
        BY <4>2 DEF v, t
    <3> QED
      BY <3>1, <3>2, TablesAgree
  <2>5. CASE UNCHANGED listenerVars
    <3>1. packet' = packet /\ next' = next /\ event' = event
      BY <2>5 DEF listenerVars
    <3>2. i \in DOMAIN packet
      BY <2>2, <3>1
    <3> QED
      BY <3>1, <3>2 DEF StatusAgrees
  <2> QED
    BY <2>3, <2>4, <2>5 DEF ListenerNext
<1> QED
  BY <1>1, <1>2, PTL DEF ListenerSpec

-----------------------------------------------------------------------------
\* The six walks, in their order.
LEMMA WalkFacts ==
    /\ Len(Walks) = 6 /\ DOMAIN Walks = 1..6
    /\ Walks[1] = "name" /\ Walks[2] = "admin" /\ Walks[3] = "oper" /\ Walks[4] = "speed"
    /\ Walks[5] = "class" /\ Walks[6] = "descr"
    /\ \A k \in 1..6 : Walks[k] \in WalkNames
    /\ \A j, k \in 1..6 : Walks[j] = Walks[k] => j = k
    /\ "name" \in WalkNames
<1>1. /\ Len(Walks) = 6 /\ DOMAIN Walks = 1..6
      /\ Walks[1] = "name" /\ Walks[2] = "admin" /\ Walks[3] = "oper" /\ Walks[4] = "speed"
      /\ Walks[5] = "class" /\ Walks[6] = "descr"
  BY DEF Walks
<1>2. \A k \in 1..6 : Walks[k] \in WalkNames
  BY <1>1 DEF WalkNames
<1>3. ASSUME NEW j \in 1..6, NEW k \in 1..6, Walks[j] = Walks[k] PROVE j = k
  <2>1. j \in {1, 2, 3, 4, 5, 6} /\ k \in {1, 2, 3, 4, 5, 6}
    OBVIOUS
  <2> QED
    BY <1>1, <1>3, <2>1
<1>4. "name" \in WalkNames
  BY <1>1, <1>2
<1> QED
  BY <1>1, <1>2, <1>3, <1>4

\* What a walk keeps depends on the OLT and on the names found by the first walk.
LEMMA KeptFacts ==
    /\ hw' = hw => Kept("name")' = Kept("name")
    /\ hw' = hw /\ columns'["name"] = columns["name"] => \A w : Kept(w)' = Kept(w)
BY DEF Kept

\* Before the first call there are no columns and no table.
LEMMA UplinkStart == UplinkInit => UplinkInv
<1> SUFFICES ASSUME UplinkInit PROVE UplinkInv
  OBVIOUS
<1>1. hw \in Hardware /\ walked = 0 /\ topology = {} /\ quiet \in BOOLEAN
  BY DEF UplinkInit
<1>2. columns = [w \in WalkNames |-> columns[w]]
  BY DEF UplinkInit
<1>3. UplinkTypeOK
  BY <1>1, <1>2, WalkFacts DEF UplinkTypeOK
<1> QED
  BY <1>1, <1>3 DEF UplinkInv, ColumnsInv, UplinkExact

\* A walk that is done adds its column, of the OLT as it is; one that fails begins
\* again from nothing.
LEMMA WalkKeeps ==
    ASSUME UplinkInv, Walk
    PROVE  UplinkInv'
<1> DEFINE k == walked + 1
<1>1. /\ UplinkTypeOK /\ ColumnsInv /\ walked \in 0..5 /\ k \in 1..6
      /\ columns = [w \in WalkNames |-> columns[w]]
      /\ topology' = {} /\ hw' = hw /\ hw \in Hardware
  BY WalkFacts DEF UplinkInv, UplinkTypeOK, Walk
<1>2. quiet' \in BOOLEAN
  BY DEF Walk
<1>3. UplinkExact'
  BY <1>1 DEF UplinkExact
<1>4. CASE /\ columns' = [columns EXCEPT ![Walks[k]] = Kept(Walks[k])]
           /\ walked' = k
  <2>1. columns' = [w \in WalkNames |-> columns'[w]]
        /\ \A w \in WalkNames : columns'[w] = IF w = Walks[k] THEN Kept(Walks[k]) ELSE columns[w]
    BY <1>1, <1>4
  <2>2. UplinkTypeOK'
    BY <1>1, <1>2, <1>4, <2>1, WalkFacts DEF UplinkTypeOK
  <2>3. ColumnsInv'
    <3> SUFFICES ASSUME quiet', NEW j \in 1..k
                 PROVE  columns'[Walks[j]] = Kept(Walks[j])'
      BY <1>4 DEF ColumnsInv
    <3>1. j \in 1..6 /\ j <= k
      BY <1>1
    <3>2. CASE k = 1
      <4>1. Walks[j] = "name" /\ Walks[k] = "name"
        BY <3>1, <3>2, WalkFacts
      <4> QED
        BY <1>1, <2>1, <4>1, WalkFacts, KeptFacts
    <3>3. CASE k # 1
      <4>1. quiet
        <5>1. quiet' = (walked = 0 \/ quiet) /\ walked # 0
          BY <1>1, <3>3 DEF Walk
        <5> QED
          BY <5>1, Zenon
      <4>2. "name" # Walks[k]
        BY <1>1, <3>3, WalkFacts
      <4>3. columns'["name"] = columns["name"]
        BY <2>1, <4>2, WalkFacts
      <4>4. Kept(Walks[j])' = Kept(Walks[j])
        BY <1>1, <4>3, KeptFacts
      <4>5. CASE j = k
        BY <1>1, <2>1, <4>4, <4>5, WalkFacts
      <4>6. CASE j # k
        <5>1. j \in 1..walked /\ Walks[j] # Walks[k] /\ Walks[j] \in WalkNames
          BY <1>1, <3>1, <4>6, WalkFacts
        <5> QED
          BY <2>1, <4>1, <4>4, <5>1, <1>1 DEF ColumnsInv
      <4> QED
        BY <4>5, <4>6
    <3> QED
      BY <3>2, <3>3
  <2> QED
    BY <1>3, <2>2, <2>3 DEF UplinkInv
<1>5. CASE /\ columns' = [w \in DOMAIN columns |-> Nothing]
           /\ walked' = 0
  <2>1. columns' = [w \in WalkNames |-> columns'[w]]
    BY <1>1, <1>5
  <2>2. UplinkTypeOK'
    BY <1>1, <1>2, <1>5, <2>1, WalkFacts DEF UplinkTypeOK
  <2>3. ColumnsInv'
    BY <1>5 DEF ColumnsInv
  <2> QED
    BY <1>3, <2>2, <2>3 DEF UplinkInv
<1> QED
  BY <1>4, <1>5 DEF Walk

\* The ports of columns that are those of the OLT.
LEMMA PortsAreLive ==
    ASSUME \A w \in {"name", "admin", "oper", "speed"} : columns[w] = Kept(w)
    PROVE  BuildPorts = Snapshot.ports
<1> DEFINE U == {i \in DOMAIN hw.ifs : hw.ifs[i].prefix \in {"xgei", "gei"}}
           N == {i \in DOMAIN hw.ifs : Kind(hw.ifs[i].prefix) # "none"}
<1>1. N = U /\ \A i \in U : /\ i \in DOMAIN hw.ifs
                            /\ Kind(hw.ifs[i].prefix) = IF hw.ifs[i].prefix = "xgei" THEN "10G" ELSE "1G"
  BY DEF Kind
<1>2. columns["name"] = [i \in N |-> hw.ifs[i]]
  BY DEF Kept
<1>3. DOMAIN columns["name"] = U /\ \A i \in U : columns["name"][i] = hw.ifs[i]
  BY <1>1, <1>2
<1>4. /\ columns["admin"] = [i \in DOMAIN hw.ifs \cap DOMAIN columns["name"] |-> hw.ifs[i]["admin"]]
      /\ columns["oper"] = [i \in DOMAIN hw.ifs \cap DOMAIN columns["name"] |-> hw.ifs[i]["oper"]]
      /\ columns["speed"] = [i \in DOMAIN hw.ifs \cap DOMAIN columns["name"] |-> hw.ifs[i]["speed"]]
  BY DEF Kept
<1>5. DOMAIN hw.ifs \cap DOMAIN columns["name"] = U
  BY <1>1, <1>3
<1>6. \A i \in U : /\ At("admin", i, 0) = hw.ifs[i].admin
                   /\ At("oper", i, 0) = hw.ifs[i].oper
                   /\ At("speed", i, 0) = hw.ifs[i].speed
  BY <1>4, <1>5 DEF At
<1>7. Snapshot.ports = [i \in U |->
                   [kind  |-> IF hw.ifs[i].prefix = "xgei" THEN "10G" ELSE "1G",
                    slot  |-> hw.ifs[i].slot,  port |-> hw.ifs[i].port,
                    admin |-> hw.ifs[i].admin, oper |-> hw.ifs[i].oper,
                    speed |-> hw.ifs[i].speed]]
  BY DEF Snapshot
<1>8. BuildPorts = [i \in U |->
        [kind |-> Kind(columns["name"][i].prefix), slot |-> columns["name"][i].slot,
         port |-> columns["name"][i].port,
         admin |-> At("admin", i, 0), oper |-> At("oper", i, 0), speed |-> At("speed", i, 0)]]
  BY <1>3 DEF BuildPorts
<1> HIDE DEF U, N
<1> QED
  BY <1>1, <1>3, <1>6, <1>7, <1>8

\* The cards of columns that are those of the OLT.
LEMMA CardsAreLive ==
    ASSUME \A w \in {"class", "descr"} : columns[w] = Kept(w)
    PROVE  BuildCards = Snapshot.cards
<1> DEFINE C == {e \in DOMAIN hw.ents : hw.ents[e].class = 3}
<1>1. /\ columns["class"] = [e \in DOMAIN hw.ents |-> hw.ents[e]["class"]]
      /\ columns["descr"] = [e \in DOMAIN hw.ents |-> hw.ents[e]["descr"]]
  BY DEF Kept
<1>2. {e \in DOMAIN columns["class"] : columns["class"][e] = 3} = C
  BY <1>1
<1>3. \A e \in C : At("descr", e, {}) = hw.ents[e].descr
  BY <1>1 DEF At
<1>4. Snapshot.cards = [e \in C |-> [slot |-> e \div 10 - 1, role |-> cardRole(hw.ents[e].descr)]]
  BY DEF Snapshot
<1>5. BuildCards = [e \in C |-> [slot |-> e \div 10 - 1, role |-> cardRole(At("descr", e, {}))]]
  BY <1>2 DEF BuildCards
<1> HIDE DEF C
<1> QED
  BY <1>3, <1>4, <1>5

\* The columns are joined: of an OLT that kept still, they are one look at it.
LEMMA BuildKeeps ==
    ASSUME UplinkInv, Build
    PROVE  UplinkInv'
<1>1. /\ UplinkTypeOK /\ ColumnsInv /\ walked = 6 /\ walked' = 0
      /\ hw' = hw /\ quiet' = quiet /\ topology' = {[ports |-> BuildPorts, cards |-> BuildCards]}
      /\ columns' = [w \in DOMAIN columns |-> Nothing]
  BY WalkFacts DEF UplinkInv, Build
<1>2. columns' = [w \in WalkNames |-> columns'[w]]
  BY <1>1 DEF UplinkTypeOK
<1>3. UplinkTypeOK'
  BY <1>1, <1>2, WalkFacts DEF UplinkTypeOK
<1>4. ColumnsInv'
  BY <1>1 DEF ColumnsInv
<1>5. UplinkExact'
  <2> SUFFICES ASSUME quiet PROVE topology' \subseteq {Snapshot'}
    BY <1>1 DEF UplinkExact
  <2>1. \A k \in 1..6 : columns[Walks[k]] = Kept(Walks[k])
    BY <1>1 DEF ColumnsInv
  <2>2. \A w \in {"name", "admin", "oper", "speed", "class", "descr"} : columns[w] = Kept(w)
    BY <2>1, WalkFacts
  <2>3. BuildPorts = Snapshot.ports /\ BuildCards = Snapshot.cards
    BY <2>2, PortsAreLive, CardsAreLive
  <2>4. Snapshot = [ports |-> Snapshot.ports, cards |-> Snapshot.cards]
    BY DEF Snapshot
  <2>5. Snapshot' = Snapshot
    BY <1>1 DEF Snapshot
  <2> QED
    BY <1>1, <2>3, <2>4, <2>5
<1> QED
  BY <1>3, <1>4, <1>5 DEF UplinkInv

\* The invariant of the walks, for any hardware and any swaps.
THEOREM UplinkInvariant == UplinkSpec => []UplinkInv
<1>1. UplinkInv /\ [UplinkNext]_uplinkVars => UplinkInv'
  <2> SUFFICES ASSUME UplinkInv, [UplinkNext]_uplinkVars PROVE UplinkInv'
    OBVIOUS
  <2>1. CASE Swap
    <3>1. /\ hw' \in Hardware /\ UNCHANGED <<walked, columns>>
          /\ quiet' = FALSE /\ UplinkTypeOK
      BY <2>1 DEF Swap, UplinkInv
    <3> QED
      BY <3>1 DEF UplinkInv, UplinkTypeOK, ColumnsInv, UplinkExact
  <2>2. CASE UNCHANGED uplinkVars
    <3>1. UNCHANGED <<hw, walked, columns, topology, quiet>>
      BY <2>2 DEF uplinkVars
    <3>2. Snapshot' = Snapshot
      BY <3>1 DEF Snapshot
    <3>3. \A w : Kept(w)' = Kept(w)
      BY <3>1, KeptFacts
    <3> QED
      BY <3>1, <3>2, <3>3 DEF UplinkInv, UplinkTypeOK, ColumnsInv, UplinkExact
  <2> QED
    BY <2>1, <2>2, WalkKeeps, BuildKeeps DEF UplinkNext
<1> QED
  BY <1>1, UplinkStart, PTL DEF UplinkSpec

\* On hardware that keeps still, the six walks of GetUplinkTopology are as good as
\* one look at it.
THEOREM UplinkIsExact == UplinkSpec => []UplinkExact
<1>1. UplinkInv => UplinkExact
  BY DEF UplinkInv
<1> QED
  BY <1>1, UplinkInvariant, PTL

-----------------------------------------------------------------------------
\* The place at which the walk ends is the smallest that trusted proxies vouch for.
LEMMA EndOfWalk ==
    ASSUME AddressTypeOK, hop > 0, NEW h, h = hop,
           \A j \in DOMAIN hops : j > h => hops[j] \in TrustedProxies,
           hops[h] \notin TrustedProxies \/ h = 1
    PROVE  Min(Vouched) = h
<1>1. /\ DOMAIN hops = 1..Len(hops) /\ Len(hops) \in Nat /\ h \in 1..Len(hops)
  BY DEF AddressTypeOK
<1>2. h \in Vouched
  BY <1>1 DEF Vouched
<1>3. \A i \in Vouched : i \in 1..Len(hops) /\ h <= i
  BY <1>1 DEF Vouched
<1>4. \A x \in Vouched : (\A y \in Vouched : x <= y) => x = h
  <2> SUFFICES ASSUME NEW x \in Vouched, \A y \in Vouched : x <= y PROVE x = h
    OBVIOUS
  <2>1. x <= h /\ h <= x /\ x \in Int /\ h \in Int
    BY <1>1, <1>2, <1>3
  <2> QED
    BY <2>1
<1>5. \E x \in Vouched : \A y \in Vouched : x <= y
  BY <1>2, <1>3
<1>6. Min(Vouched) \in Vouched /\ \A y \in Vouched : Min(Vouched) <= y
  BY <1>5 DEF Min
<1> QED
  BY <1>4, <1>6

\* Before the first request no hop has been walked.
LEMMA AddressStart == AddressInit => AddressInv
BY DEF AddressInit, AddressInv, AddressTypeOK, WalkInv, ClientIsVouched

\* A request: the chain is walked only for a peer that is trusted.
LEMMA RequestKeeps ==
    ASSUME AddressInv, Request
    PROVE  AddressInv'
<1>1. peer' \in Addresses
  BY DEF Request
<1>2. hops' \in Seq(Addresses \union {Malformed}) /\ Len(hops') \in Nat /\ DOMAIN hops' = 1..Len(hops')
  <2>1. PICK n \in 0..MaxHops : hops' \in [1 .. n -> Addresses \union {Malformed}]
    BY DEF Request
  <2>2. hops' \in Seq(Addresses \union {Malformed})
    BY <2>1, AddressAssumption
  <2> QED
    BY <2>2
<1>3. /\ hop' = IF peer' \in TrustedProxies THEN Len(hops') ELSE 0
      /\ client' = IF peer' \in TrustedProxies /\ hops' = <<>> /\ realIP' # Malformed
                   THEN realIP' ELSE peer'
  BY DEF Request
<1>4. AddressTypeOK'
  BY <1>1, <1>2, <1>3 DEF AddressTypeOK
<1>5. WalkInv'
  BY <1>2, <1>3 DEF WalkInv
<1>6. ClientIsVouched'
  <2> SUFFICES ASSUME hop' = 0, hops' # <<>>
               PROVE  client' = IF peer' \notin TrustedProxies \/ hops'[Min(Vouched')] = Malformed
                                THEN peer' ELSE hops'[Min(Vouched')]
    BY DEF ClientIsVouched
  <2>1. Len(hops') # 0
    BY <1>2
  <2>2. peer' \notin TrustedProxies
    BY <1>3, <2>1
  <2> QED
    BY <1>3, <2>2
<1> QED
  BY <1>4, <1>5, <1>6 DEF AddressInv

\* One turn of the loop: it ends at the first hop that is not trusted, or at the end.
LEMMA HopKeeps ==
    ASSUME AddressInv, WalkHop
    PROVE  AddressInv'
<1>1. /\ AddressTypeOK /\ WalkInv /\ hop \in 1..Len(hops) /\ DOMAIN hops = 1..Len(hops)
      /\ Len(hops) \in Nat
      /\ client' = IF hops[hop] = Malformed THEN peer ELSE hops[hop]
      /\ hop' = IF hops[hop] \notin TrustedProxies THEN 0 ELSE hop - 1
      /\ peer' = peer /\ hops' = hops /\ peer \in TrustedProxies
      /\ \A j \in DOMAIN hops : j > hop => hops[j] \in TrustedProxies
  BY DEF AddressInv, AddressTypeOK, WalkInv, WalkHop, Stops
<1>2. AddressTypeOK'
  BY <1>1 DEF AddressTypeOK
<1>3. WalkInv'
  BY <1>1 DEF WalkInv
<1>4. ClientIsVouched'
  <2> SUFFICES ASSUME hop' = 0
               PROVE  client' = IF peer \notin TrustedProxies \/ hops[Min(Vouched)] = Malformed
                                THEN peer ELSE hops[Min(Vouched)]
    BY <1>1 DEF ClientIsVouched, Vouched
  <2>1. hops[hop] \notin TrustedProxies \/ hop = 1
    BY <1>1
  <2>2. Min(Vouched) = hop
    BY <1>1, <2>1, EndOfWalk
  <2> QED
    BY <1>1, <2>2
<1> QED
  BY <1>2, <1>3, <1>4 DEF AddressInv

\* The invariant of the walk, for chains of any length and any set of proxies.
THEOREM AddressInvariant == AddressSpec => []AddressInv
<1>1. AddressInv /\ [AddressNext]_addressVars => AddressInv'
  <2> SUFFICES ASSUME AddressInv, [AddressNext]_addressVars PROVE AddressInv'
    OBVIOUS
  <2>1. CASE UNCHANGED addressVars
    BY <2>1 DEF addressVars, AddressInv, AddressTypeOK, WalkInv, ClientIsVouched, Vouched
  <2> QED
    BY <2>1, RequestKeeps, HopKeeps DEF AddressNext
<1> QED
  BY <1>1, AddressStart, PTL DEF AddressSpec

\* The client is the peer or the furthest address that trusted proxies vouch for
\* (ResolveClientIP): what a client writes to the left of it changes nothing.
THEOREM AddressClientIsVouched == AddressSpec => []ClientIsVouched
<1>1. AddressInv => ClientIsVouched
  BY DEF AddressInv
<1> QED
  BY <1>1, AddressInvariant, PTL

-----------------------------------------------------------------------------
\* Multiplication and division of natural numbers.
LEMMA Products ==
    ASSUME NEW p \in Nat \ {0}, NEW n \in Nat \ {0}
    PROVE  /\ p * n \in Nat /\ (p - 1) * n \in Nat
           /\ (p - 1) * n + n = p * n
OBVIOUS

\* Go's division of what is not negative: a lies between the quotient's multiple and the next.
LEMMA Quotient ==
    ASSUME NEW a \in Nat, NEW n \in Nat \ {0}
    PROVE  /\ a \div n \in Nat
           /\ (a \div n) * n <= a
           /\ a < (a \div n) * n + n
OBVIOUS

\* The quotient is the only integer with that property.
LEMMA QuotientIs ==
    ASSUME NEW a \in Nat, NEW n \in Nat \ {0}, NEW q \in Int
    PROVE  a \div n = q <=> q * n <= a /\ a < (q + 1) * n
OBVIOUS

\* The quotient is the largest integer whose multiple is no larger than a.
LEMMA QuotientAtLeast ==
    ASSUME NEW a \in Nat, NEW n \in Nat \ {0}, NEW q \in Int, q * n <= a
    PROVE  q <= a \div n
OBVIOUS

\* An integer that fits is kept.
LEMMA WrapKeeps ==
    ASSUME NEW n \in 0..MaxInt
    PROVE  Wrap(n) = n
<1> DEFINE half == MaxInt + 1
<1>1. half \in Nat /\ half >= 1 /\ n + half \in Nat /\ n + half < 2 * half /\ 2 * half \in Nat
  BY PaginationAssumption
<1>2. \A a, b \in Nat : a < b => a % b = a
  OBVIOUS
<1>3. (n + half) % (2 * half) = n + half
  BY <1>1, <1>2
<1>4. Wrap(n) = ((n + half) % (2 * half)) - half
  BY DEF Wrap
<1> QED
  BY <1>1, <1>3, <1>4

\* The slice of a page of proper parameters.
LEMMA SliceFacts ==
    ASSUME NEW p \in Nat \ {0}, NEW n \in Nat \ {0}, p * n <= MaxInt, NEW count \in Nat
    PROVE  /\ StartIndex(p, n) = (p - 1) * n
           /\ EndIndex(p, n, count) = IF p * n > count THEN count ELSE p * n
<1>1. p * n \in Nat /\ (p - 1) * n \in Nat /\ (p - 1) * n + n = p * n
  BY Products
<1>2. (p - 1) * n \in 0..MaxInt /\ p * n \in 0..MaxInt
  BY <1>1, PaginationAssumption
<1>3. StartIndex(p, n) = (p - 1) * n
  BY <1>2, WrapKeeps DEF StartIndex
<1>4. Wrap(StartIndex(p, n) + n) = p * n
  BY <1>1, <1>2, <1>3, WrapKeeps
<1> QED
  BY <1>3, <1>4 DEF EndIndex

\* The pages of proper parameters partition the list, and the number of pages is
\* that of the pages with rows.
LEMMA PageIsPart ==
    ASSUME NEW p \in Nat \ {0}, NEW n \in 1..MaxPageSize, p * n <= MaxInt, NEW count \in Nat
    PROVE  LET a == Answer(p, n, count)
           IN  /\ a.rows = {i \in 1..count : (i - 1) \div n = p - 1}
               /\ a.status = 200 => p <= a.pages /\ (a.pages - 1) * n < count
               /\ a.status = 404 => (p - 1) * n >= count
               /\ a.status # 500
<1> DEFINE s == (p - 1) * n
           e == IF p * n > count THEN count ELSE p * n
           c == PageCount(n, count)
<1>1. n \in Nat \ {0} /\ PageSize(n) = n
  BY PaginationAssumption DEF PageSize
<1>2. s \in Nat /\ p * n \in Nat /\ s + n = p * n
  BY <1>1, Products
<1>3. StartIndex(p, n) = s /\ EndIndex(p, n, count) = e
  BY <1>1, SliceFacts
<1>4. ~Panics(p, n, count)
  BY <1>1, <1>2, <1>3 DEF Panics
<1>5. Rows(p, n, count) = {i \in 1..count : s < i /\ i <= e}
  BY <1>3 DEF Rows
<1>6. Rows(p, n, count) = {i \in 1..count : (i - 1) \div n = p - 1}
  <2>1. ASSUME NEW i \in 1..count
        PROVE  (i - 1) \div n = p - 1 <=> s < i /\ i <= e
    <3> DEFINE a == i - 1
               q == p - 1
    <3>1. a \in Nat /\ q \in Int /\ q + 1 = p /\ q * n = s
      OBVIOUS
    <3> HIDE DEF a, q, s
    <3>2. a \div n = q <=> s <= a /\ a < p * n
      BY <1>1, <3>1, QuotientIs
    <3>3. s <= a /\ a < p * n <=> s < i /\ i <= e
      BY <1>2 DEF a
    <3> QED
      BY <3>2, <3>3 DEF a, q
  <2> QED
    BY <1>5, <2>1
<1>7. Answer(p, n, count) = IF Rows(p, n, count) = {}
        THEN [status |-> 404, rows |-> {}, pages |-> 0, size |-> 0]
        ELSE [status |-> 200, rows |-> Rows(p, n, count), pages |-> c, size |-> n]
  BY <1>1, <1>4 DEF Answer
<1>8. /\ c \in Nat /\ (c - 1) * n < count
      /\ p * n <= count + n - 1 => p <= c
  <2>1. count + n - 1 \in Nat /\ c = (count + n - 1) \div n
    BY <1>1 DEF PageCount
  <2> HIDE DEF c
  <2>2. c \in Nat /\ c * n <= count + n - 1
    BY <1>1, <2>1, Quotient
  <2>3. (c - 1) * n = c * n - n /\ c * n \in Nat
    BY <1>1, <2>2
  <2>4. p * n <= count + n - 1 => p <= c
    BY <1>1, <2>1, QuotientAtLeast
  <2> QED
    BY <1>1, <2>2, <2>3, <2>4
<1> HIDE DEF s, c
<1>9. CASE Rows(p, n, count) = {}
  <2>1. s >= count
    <3> SUFFICES ASSUME s < count PROVE FALSE
      BY <1>2
    <3>1. s + 1 \in 1..count /\ s < s + 1
      BY <1>2
    <3>2. s + 1 <= e
      BY <1>1, <1>2, <3>1
    <3> QED
      BY <1>5, <1>9, <3>1, <3>2
  <2> QED
    BY <1>6, <1>7, <1>9, <2>1 DEF s
<1>10. CASE Rows(p, n, count) # {}
  <2>1. PICK i \in 1..count : s < i
    BY <1>5, <1>10
  <2>2. p * n <= count + n - 1
    BY <1>1, <1>2, <2>1
  <2> QED
    BY <1>6, <1>7, <1>8, <1>10, <2>2
<1> QED
  BY <1>9, <1>10

\* The empty list has no rows and no pages.
LEMMA PageStart == PageInit => PageInv
<1> SUFFICES ASSUME PageInit PROVE PageInv
  OBVIOUS
<1>1. page = 1 /\ limit = DefaultPageSize /\ limit \in Nat \ {0} /\ total = 0
  BY PaginationAssumption DEF PageInit
<1>2. Rows(page, limit, total) = {}
  BY <1>1 DEF Rows
<1>3. ~Panics(page, limit, total)
  <2>1. (page - 1) * limit = 0 /\ 0 \in 0..MaxInt
    BY <1>1, PaginationAssumption
  <2>2. StartIndex(page, limit) = 0
    BY <2>1, WrapKeeps DEF StartIndex
  <2> QED
    BY <1>1, <2>2 DEF Panics
<1> QED
  BY <1>1, <1>2, <1>3 DEF PageInit, PageInv, Answer

\* The answer is always that of the last request, whatever it asked for.
THEOREM PageInvariant == PageSpec => []PageInv
<1>1. PageInv /\ [PageNext]_pageVars => PageInv'
  <2> SUFFICES ASSUME PageInv, [PageNext]_pageVars PROVE PageInv'
    OBVIOUS
  <2>1. CASE GetPage
    <3>1. PICK p \in Params, n \in Params, count \in Totals, read \in BOOLEAN :
             /\ page' = parseInt(p, 1)
             /\ limit' = parseInt(n, DefaultPageSize)
             /\ total' = IF read THEN count ELSE 0
             /\ answer' = Answer(page', limit', total')
      BY <2>1 DEF GetPage
    <3>2. p.value \in Int /\ n.value \in Int /\ count \in Nat /\ DefaultPageSize \in Int
      BY PaginationAssumption
    <3>3. page' \in Int /\ limit' \in Int
      BY <3>1, <3>2 DEF parseInt
    <3>4. total' \in Nat
      BY <3>1, <3>2
    <3>5. answer' = Answer(page, limit, total)'
      BY <3>1
    <3> QED
      BY <3>3, <3>4, <3>5 DEF PageInv
  <2>2. CASE UNCHANGED pageVars
    BY <2>2 DEF pageVars, PageInv
  <2> QED
    BY <2>1, <2>2 DEF PageNext
<1> QED
  BY <1>1, PageStart, PTL DEF PageSpec

\* The pages partition the list and page_count is the number of pages with rows
\* (GetByBoardIDAndPonIDWithPagination, pagination.New), for lists of any length and
\* pages of any size that the parameters may have.
THEOREM PagesArePartition == PageSpec => []PagesPartition
<1>1. PageInv => PagesPartition
  <2> SUFFICES ASSUME PageInv, Proper
               PROVE  /\ answer.rows = {i \in 1 .. total : (i - 1) \div limit = page - 1}
                      /\ answer.status = 200 => page <= answer.pages /\ (answer.pages - 1) * limit < total
                      /\ answer.status = 404 => (page - 1) * limit >= total
                      /\ answer.status # 500
    BY DEF PagesPartition
  <2>1. page \in Nat \ {0} /\ limit \in 1..MaxPageSize /\ page * limit <= MaxInt /\ total \in Nat
    BY DEF PageInv, Proper
  <2> QED
    BY <2>1, PageIsPart DEF PageInv
<1> QED
  BY <1>1, PageInvariant, PTL
================================================================================
