-------------------------- MODULE TrapPipelineProofs --------------------------
(***************************************************************************)
(* The trap pipeline, for any number of ONUs, severities, scans, changes,  *)
(* lost lookups and repeated traps: an ONU is in one queue, the one of its *)
(* event; a flush learns nothing older than what queued the ONU; and an    *)
(* outage that the handler has seen is lost by one race only.              *)
(***************************************************************************)
EXTENDS TrapPipeline, TLAPS, FiniteSetTheorems

--------------------------------------------------------------------------------
(* Types.                                                                  *)

\* The records that stand for nothing have the types of those that stand for something.
LEMMA ConstantTypes ==
    /\ 0 \in Versions /\ 1 \in Versions
    /\ NoFlight \in Flights /\ Asking \in Flights
    /\ Nothing \in Observations /\ Blank \in Observations
    /\ NoEntry \in Entries
    /\ NotAsked \in Askings
    /\ NotTold \in Tellings
    /\ "handler" \in Procs /\ Flushed \subseteq Procs /\ "handler" \notin Flushed
<1>1. 0 \in Versions /\ 1 \in Versions /\ MaxChanges \in Nat
      BY PipelineAssumption DEF Versions
<1>2. "" \in Statuses /\ "" \in Reasons /\ "bad" \in RxClasses
      BY DEF Statuses, Reasons, RxClasses
<1>3. Nothing \in Observations /\ Blank \in Observations
      BY <1>1, <1>2 DEF Observations, Nothing, Blank
<1>4. NoFlight \in Flights /\ Asking \in Flights
      BY <1>3 DEF NoFlight, Asking, Flights
<1>5. /\ NoEntry \in Entries
      /\ NotAsked \in Askings
      /\ NotTold \in Tellings
      BY <1>1 DEF NoEntry, NotAsked, NotTold, Entries, Askings, Tellings
<1>6. "handler" \in Procs /\ Flushed \subseteq Procs /\ "handler" \notin Flushed
      BY PipelineAssumption DEF Procs, Severities
<1>7. QED  BY <1>1, <1>3, <1>4, <1>5, <1>6

\* What an SNMP read returns is an observation.
LEMMA ObserveType ==
    ASSUME TypeOK, NEW o \in Onus
    PROVE  Observe(o) \in Observations
  BY PipelineAssumption DEF TypeOK, Observe, Observations

\* The power monitor raises events of one severity only, Medium.
LEMMA PowerEventType ==
    ASSUME NEW rx, PowerEvent(rx) # "none"
    PROVE  PowerEvent(rx) \in PowerEventTypes /\ eventSeverity(PowerEvent(rx)) = "Medium"
  BY DEF PowerEvent, PowerEventTypes, eventSeverity

\* handleTrap raises no event of the severity of the power monitor.
LEMMA AlertSeverity ==
    ASSUME NEW t \in alertEventTypes
    PROVE  eventSeverity(t) \in Severities \ {"Medium"}
  BY DEF alertEventTypes, PowerEventTypes, eventSeverity, Severities

\* What a flush sends has its own severity, and an observation that succeeded behind it.
LEMMA FlushTypes ==
    ASSUME NEW s \in Flushed, NEW d, FlushType(s, d) # "none"
    PROVE  /\ FlushType(s, d) \in EventTypes
           /\ eventSeverity(FlushType(s, d)) = s
           /\ d.ok
           /\ s = "Medium" => PowerEvent(d.rx) # "none"
           /\ s # "Medium" => TypeOf(d) \in alertEventTypes
  BY PowerEventType DEF FlushType, EventTypes

\* What the operations on the queues return.
LEMMA AddedType ==
    ASSUME TypeOK, NEW o \in Onus, NEW t \in EventTypes, NEW v \in Versions
    PROVE  Added(o, t, v) \in [Severities -> [Onus -> Entries]]
<1>1. ASSUME NEW s \in Severities
      PROVE  [queue[s] EXCEPT ![o] = NoEntry] \in [Onus -> Entries]
      BY ConstantTypes DEF TypeOK
<1>2. ASSUME NEW s \in Severities
      PROVE  [queue[s] EXCEPT ![o] =
                 [in |-> TRUE, type |-> t, ver |-> v,
                  last |-> IF @.in THEN @.last ELSE "never"]]
                 \in [Onus -> Entries]
  <2>1. queue[s][o] \in Entries
        BY DEF TypeOK
  <2>2. [in |-> TRUE, type |-> t, ver |-> v,
         last |-> IF queue[s][o].in THEN queue[s][o].last ELSE "never"] \in Entries
        BY <2>1 DEF Entries
  <2>3. queue[s] \in [Onus -> Entries]
        BY DEF TypeOK
  <2>4. QED  BY <2>2, <2>3
<1>3. QED  BY <1>1, <1>2 DEF Added

\* Deleting keys leaves queues.
LEMMA TakenType ==
    ASSUME TypeOK, NEW s \in Severities, NEW D
    PROVE  Taken(s, D) \in [Severities -> [Onus -> Entries]]
  BY ConstantTypes DEF TypeOK, Taken

\* The event that a flush holds for an ONU is one of its list.
LEMMA EventFacts ==
    ASSUME NEW s, NEW o, \E e \in list[s] : e.onu = o
    PROVE  Event(s, o) \in list[s] /\ Event(s, o).onu = o
  BY DEF Event

\* Marking what was sent leaves queues.
LEMMA MarkedType ==
    ASSUME TypeOK, NEW s \in Flushed
    PROVE  Marked(s) \in [Severities -> [Onus -> Entries]]
<1>1. s \in Severities  BY PipelineAssumption
<1>2. CASE s \notin Repeating
      BY <1>1, <1>2, TakenType DEF Marked
<1>3. CASE s \in Repeating
  <2>1. \A o \in Onus : (\E e \in list[s] : e.onu = o) =>
            Event(s, o).type \in EventTypes /\ Event(s, o).ver \in Versions
        BY EventFacts DEF TypeOK
  <2>2. QED  BY <1>1, <1>3, <2>1 DEF Marked, TypeOK, Entries
<1>4. QED  BY <1>2, <1>3

\* The initial values have their types.
LEMMA TypeInit == Init => TypeOK
<1> SUFFICES ASSUME Init PROVE TypeOK
    OBVIOUS
<1>1. onu \in [Procs -> Onus]
  <2>1. (CHOOSE o \in Onus : TRUE) \in Onus
        BY PipelineAssumption
  <2>2. QED  BY <2>1 DEF Init
<1>2. queue \in [Severities -> [Onus -> Entries]]
      BY ConstantTypes DEF Init
<1>3. /\ flight \in [Onus -> Flights]
      /\ got \in [Procs -> Observations]
      /\ asked \in [Procs -> Askings]
      /\ told \in [Severities -> [Onus -> Tellings]]
      BY ConstantTypes DEF Init
<1>4. /\ cond \in [Onus -> Conditions]
      /\ ver \in [Onus -> Versions] /\ acted \in [Onus -> Versions]
      BY ConstantTypes, PipelineAssumption DEF Init
<1>5. used \in [{"dups", "gets", "fails", "scans"} -> Nat]
      BY DEF Init, Bounds
<1>6. /\ pc \in [Procs -> Points]
      /\ todo \in [Flushed -> SUBSET Onus]
      /\ list \in [Flushed -> SUBSET [onu : Onus, type : EventTypes, ver : Versions]]
      /\ drop \in [Flushed -> SUBSET [onu : Onus, ver : Versions]]
      /\ scan \in [Scanners -> SUBSET [onu : Onus, obs : Observations]]
      /\ alerted \in [Onus -> {"never", "recent", "old"}]
      BY DEF Init, Points
<1>7. /\ phase = "up" /\ pend \subseteq Onus /\ final \subseteq Flushed
      /\ undone \subseteq Onus /\ late \subseteq Severities \X Onus
      BY DEF Init
<1>8. QED  BY <1>1, <1>2, <1>3, <1>4, <1>5, <1>6, <1>7 DEF TypeOK

\* A lookup begins.
LEMMA StartFetchType ==
    ASSUME TypeOK, NEW p \in Procs, NEW o \in Onus, NEW v \in Versions, StartFetch(p, o, v)
    PROVE  /\ flight' \in [Onus -> Flights]
           /\ pc' \in [Procs -> Points]
           /\ onu' \in [Procs -> Onus]
           /\ got' \in [Procs -> Observations]
           /\ asked' \in [Procs -> Askings]
<1>1. flight' \in [Onus -> Flights]
      BY ConstantTypes DEF TypeOK, StartFetch
<1>2. [now |-> ver[o], entry |-> v] \in Askings
      BY DEF TypeOK, Askings
<1>3. "got" \in Points /\ "wait" \in Points
      BY DEF Points
<1>4. QED  BY <1>1, <1>2, <1>3 DEF TypeOK, StartFetch

\* A bound that is spent is a number.
LEMMA SpendType ==
    ASSUME TypeOK, NEW f \in {"dups", "gets", "fails", "scans"}, NEW b, Spend(f, b)
    PROVE  used' \in [{"dups", "gets", "fails", "scans"} -> Nat]
  BY DEF TypeOK, Spend

\* Steps of the OLT, of clients, and of the lookups.
LEMMA FetchTypeStep ==
    ASSUME TypeOK, NEW o \in Onus,
           Change(o) \/ Duplicate(o) \/ ClientGet(o) \/ FetchStep(o)
    PROVE  TypeOK'
<1>1. CASE Change(o)
  <2>1. cond' \in [Onus -> Conditions] /\ pend' \subseteq Onus
        BY <1>1 DEF Change, TypeOK
  <2>2. ver' \in [Onus -> Versions]
        BY <1>1, PipelineAssumption DEF Change, TypeOK, Versions
  <2>3. QED  BY <1>1, <2>1, <2>2 DEF Change, TypeOK, fetchVars, flushVars, scanVars, ghosts
<1>2. CASE Duplicate(o)
  <2>1. used' \in [{"dups", "gets", "fails", "scans"} -> Nat]
        BY <1>2, SpendType DEF Duplicate
  <2>2. QED  BY <1>2, <2>1 DEF Duplicate, TypeOK, fetchVars, flushVars, scanVars, ghosts
<1>3. CASE ClientGet(o)
  <2>1. used' \in [{"dups", "gets", "fails", "scans"} -> Nat]
        BY <1>3, SpendType DEF ClientGet
  <2>2. flight' \in [Onus -> Flights]
        BY <1>3, ConstantTypes DEF ClientGet, TypeOK
  <2>3. QED  BY <1>3, <2>1, <2>2 DEF ClientGet, TypeOK, onuVars, flushVars, scanVars, ghosts
<1>4. CASE SnmpRead(o)
  <2>1. PICK obs \in {Nothing, Blank, Observe(o)} :
            flight' = [flight EXCEPT ![o] = [st |-> "read", obs |-> obs]]
        BY <1>4 DEF SnmpRead
  <2>2. obs \in Observations
        BY ConstantTypes, ObserveType
  <2>3. flight' \in [Onus -> Flights]
    <3>1. [st |-> "read", obs |-> obs] \in Flights
          BY <2>2 DEF Flights
    <3>2. QED  BY <2>1, <3>1 DEF TypeOK
  <2>4. used' \in [{"dups", "gets", "fails", "scans"} -> Nat]
        BY <1>4, SpendType DEF SnmpRead, TypeOK
  <2>5. QED  BY <1>4, <2>3, <2>4 DEF SnmpRead, TypeOK, onuVars, flushVars, scanVars, ghosts
<1>5. CASE FlightReturn(o)
  <2>1. flight[o].obs \in Observations /\ "got" \in Points
        BY DEF TypeOK, Flights, Points
  <2>2. /\ got' \in [Procs -> Observations]
        /\ pc' \in [Procs -> Points]
        /\ flight' \in [Onus -> Flights]
        BY <1>5, <2>1, ConstantTypes DEF FlightReturn, TypeOK
  <2>3. QED  BY <1>5, <2>2 DEF FlightReturn, TypeOK, onuVars, flushVars, scanVars, ghosts
<1>6. QED  BY <1>1, <1>2, <1>3, <1>4, <1>5 DEF FetchStep

\* A process that is through with its reading forgets it and touches no lookup.
LEMMA ForgetType ==
    ASSUME TypeOK, NEW p \in Procs, Forget(p)
    PROVE  /\ got' \in [Procs -> Observations]
           /\ asked' \in [Procs -> Askings]
           /\ UNCHANGED <<flight, onu>>
  BY ConstantTypes DEF TypeOK, Forget

\* An ONU that recovered has been told nothing.
LEMMA UntoldType ==
    ASSUME TypeOK, NEW U
    PROVE  Untold(U) \in [Severities -> [Onus -> Tellings]]
  BY ConstantTypes DEF TypeOK, Untold

\* The steps of HandleEvent keep the types.
LEMMA HandlerTypeStep ==
    ASSUME TypeOK, HandleEvent \/ \E o \in Onus : Receive(o)
    PROVE  TypeOK'
<1>1. ASSUME NEW o \in Onus, Receive(o) PROVE TypeOK'
  <2>1. StartFetch("handler", o, 0) /\ pend' \subseteq Onus
        BY <1>1 DEF Receive, TypeOK
  <2>2. QED  BY <1>1, <2>1, ConstantTypes, StartFetchType
                DEF Receive, TypeOK, flushVars, scanVars, ghosts
<1>2. CASE HandleEvent
  <2> DEFINE o == onu["handler"]
             d == got["handler"]
  <2>1. o \in Onus /\ d \in Observations /\ d.ver \in Versions
        BY ConstantTypes DEF TypeOK, Observations
  <2>2. queue' \in [Severities -> [Onus -> Entries]]
    <3>1. CASE d.ok /\ TypeOf(d) \in alertEventTypes
          BY <1>2, <2>1, <3>1, AddedType DEF HandleEvent, EventTypes
    <3>2. CASE d.ok /\ TypeOf(d) \notin alertEventTypes
      <4>1. queue' = Removed(o)
            BY <1>2, <3>2 DEF HandleEvent
      <4>2. Removed(o) \in [Severities -> [Onus -> Entries]]
            BY ConstantTypes DEF Removed, TypeOK
      <4>3. QED  BY <4>1, <4>2
    <3>3. CASE ~d.ok
          BY <1>2, <3>3 DEF HandleEvent, TypeOK
    <3>4. QED  BY <3>1, <3>2, <3>3
  <2>3. /\ acted' \in [Onus -> Versions] /\ undone' \subseteq Onus
        /\ told' \in [Severities -> [Onus -> Tellings]]
    <3>1. Untold({o}) \in [Severities -> [Onus -> Tellings]]
          BY UntoldType
    <3>2. CASE d.ok
          BY <1>2, <2>1, <3>1, <3>2 DEF HandleEvent, TypeOK
    <3>3. CASE ~d.ok
          BY <1>2, <3>3 DEF HandleEvent, TypeOK
    <3>4. QED  BY <3>2, <3>3
  <2>4. /\ Forget("handler")
        /\ pc' \in [Procs -> Points]
        /\ UNCHANGED <<phase, onuVars, flushVars, scanVars, late, used>>
        BY <1>2 DEF HandleEvent, TypeOK, Points
  <2>5. QED  BY <2>2, <2>3, <2>4, ConstantTypes, ForgetType
                DEF TypeOK, onuVars, flushVars, scanVars
<1>3. QED  BY <1>1, <1>2

\* The flush of a severity.
LEMMA FlushTypeStep ==
    ASSUME TypeOK, NEW s \in Flushed, FlushStep(s)
    PROVE  TypeOK'
<1>0. s \in Severities /\ s \in Procs /\ {"pick", "send", "mark", "idle", "stopped"} \subseteq Points
      BY PipelineAssumption DEF Procs, Points
<1>1. CASE FlushBegin(s)
  <2>1. Keys(s) \subseteq Onus
        BY DEF Keys
  <2>2. final' \subseteq Flushed /\ todo' \in [Flushed -> SUBSET Onus]
        BY <1>1, <2>1 DEF FlushBegin, TypeOK
  <2>3. pc' \in [Procs -> Points]
    <3>1. PICK p \in Points : pc' = [pc EXCEPT ![s] = p]
          BY <1>0, <1>1 DEF FlushBegin, AfterFlush
    <3>2. QED  BY <3>1 DEF TypeOK
  <2>4. QED  BY <1>1, <2>2, <2>3
                DEF FlushBegin, TypeOK, onuVars, fetchVars, scanVars, ghosts
<1>2. CASE FlushRead(s)
  <2>1. PICK o \in todo[s] :
            /\ todo' = [todo EXCEPT ![s] = @ \ {o}]
            /\ IF Skip(s, o) THEN UNCHANGED <<pc, fetchVars>>
               ELSE StartFetch(s, o, queue[s][o].ver)
        BY <1>2 DEF FlushRead
  <2>2. o \in Onus
        BY DEF TypeOK
  <2>3. todo' \in [Flushed -> SUBSET Onus]
        BY <2>1 DEF TypeOK
  <2>4. queue[s][o].ver \in Versions
        BY <1>0, <2>2 DEF TypeOK, Entries
  <2>5. /\ flight' \in [Onus -> Flights] /\ pc' \in [Procs -> Points]
        /\ onu' \in [Procs -> Onus] /\ got' \in [Procs -> Observations]
        /\ asked' \in [Procs -> Askings]
    <3>1. CASE Skip(s, o)
          BY <2>1, <3>1 DEF TypeOK, fetchVars
    <3>2. CASE ~Skip(s, o)
          BY <1>0, <2>1, <2>2, <2>4, <3>2, StartFetchType
    <3>3. QED  BY <3>1, <3>2
  <2>6. QED  BY <1>2, <2>3, <2>5 DEF FlushRead, TypeOK, onuVars, scanVars, ghosts
<1>3. CASE FlushVerdict(s)
  <2>1. onu[s] \in Onus /\ got[s] \in Observations /\ got[s].ver \in Versions
        BY <1>0 DEF TypeOK, Observations
  <2>2. drop' \in [Flushed -> SUBSET [onu : Onus, ver : Versions]]
    <3>1. [onu |-> onu[s], ver |-> got[s].ver] \in [onu : Onus, ver : Versions]
          BY <2>1
    <3>2. \/ drop' = drop
          \/ drop' = [drop EXCEPT ![s] = @ \cup {[onu |-> onu[s], ver |-> got[s].ver]}]
          BY <1>3 DEF FlushVerdict
    <3>3. drop \in [Flushed -> SUBSET [onu : Onus, ver : Versions]]
          BY DEF TypeOK
    <3>4. QED  BY <3>1, <3>2, <3>3
  <2>3. list' \in [Flushed -> SUBSET [onu : Onus, type : EventTypes, ver : Versions]]
    <3>1. CASE FlushType(s, got[s]) = "none"
          BY <1>3, <3>1 DEF FlushVerdict, TypeOK
    <3>2. CASE FlushType(s, got[s]) # "none"
      <4>1. FlushType(s, got[s]) \in EventTypes
            BY <3>2, FlushTypes
      <4>2. [onu |-> onu[s], type |-> FlushType(s, got[s]), ver |-> got[s].ver]
                \in [onu : Onus, type : EventTypes, ver : Versions]
            BY <2>1, <4>1
      <4>3. list' = [list EXCEPT ![s] = @ \cup
                        {[onu |-> onu[s], type |-> FlushType(s, got[s]), ver |-> got[s].ver]}]
            BY <1>3, <3>2 DEF FlushVerdict
      <4>4. QED  BY <4>2, <4>3 DEF TypeOK
    <3>3. QED  BY <3>1, <3>2
  <2>4. Forget(s) /\ pc' \in [Procs -> Points]
        BY <1>0, <1>3 DEF FlushVerdict, TypeOK
  <2>5. QED  BY <1>0, <1>3, <2>2, <2>3, <2>4, ForgetType
                DEF FlushVerdict, TypeOK, onuVars, scanVars, ghosts
<1>4. CASE FlushCleanup(s)
  <2>1. queue' \in [Severities -> [Onus -> Entries]]
        BY <1>0, <1>4, TakenType DEF FlushCleanup
  <2>2. told' \in [Severities -> [Onus -> Tellings]]
        BY <1>4, UntoldType DEF FlushCleanup
  <2>3. undone' \subseteq Onus
        BY <1>4 DEF FlushCleanup, Overtaken, TypeOK
  <2>4. drop' \in [Flushed -> SUBSET [onu : Onus, ver : Versions]]
        BY <1>4 DEF FlushCleanup, TypeOK
  <2>5. pc' \in [Procs -> Points]
        BY <1>0, <1>4 DEF FlushCleanup, AfterFlush, TypeOK
  <2>6. QED  BY <1>4, <2>1, <2>2, <2>3, <2>4, <2>5
                DEF FlushCleanup, TypeOK, onuVars, fetchVars, scanVars
<1>5. CASE FlushMark(s)
  <2>1. queue' \in [Severities -> [Onus -> Entries]]
        BY <1>5, MarkedType DEF FlushMark
  <2>2. undone' \subseteq Onus
        BY <1>5 DEF FlushMark, Overtaken, TypeOK
  <2>3. late' \subseteq Severities \X Onus
        BY <1>0, <1>5 DEF FlushMark, TypeOK
  <2>4. \A o \in Onus : (\E e \in list[s] : e.onu = o) =>
            [ver |-> Event(s, o).ver, recent |-> TRUE] \in Tellings
        BY EventFacts DEF TypeOK, Tellings
  <2>5. told' \in [Severities -> [Onus -> Tellings]]
        BY <1>0, <1>5, <2>4 DEF FlushMark, TypeOK
  <2>6. pc' \in [Procs -> Points]
        BY <1>0, <1>5 DEF FlushMark, TypeOK
  <2>7. QED  BY <1>5, <2>1, <2>2, <2>3, <2>5, <2>6
                DEF FlushMark, TypeOK, onuVars, fetchVars, flushVars, scanVars
<1>6. CASE FlushSend(s)
  <2>1. list' \in [Flushed -> SUBSET [onu : Onus, type : EventTypes, ver : Versions]]
        BY <1>6 DEF FlushSend, TypeOK
  <2>2. pc' \in [Procs -> Points]
        BY <1>0, <1>6 DEF FlushSend, AfterFlush, TypeOK
  <2>3. QED  BY <1>6, <2>1, <2>2
                DEF FlushSend, TypeOK, onuVars, fetchVars, scanVars, ghosts
<1>7. QED  BY <1>1, <1>2, <1>3, <1>4, <1>5, <1>6 DEF FlushStep

\* Time passes, and the power monitor.
LEMMA PowerTypeStep ==
    ASSUME TypeOK,
           \/ \E s \in Severities, o \in Onus : RepeatElapses(s, o)
           \/ \E o \in Onus : AlertElapses(o)
           \/ \E k \in Scanners : ScanRead(k) \/ ScanOnu(k)
    PROVE  TypeOK'
<1>1. ASSUME NEW s \in Severities, NEW o \in Onus, RepeatElapses(s, o) PROVE TypeOK'
  <2>1. told[s][o] \in Tellings /\ queue[s][o] \in Entries
        BY DEF TypeOK
  <2>2. [told[s][o] EXCEPT !.recent = FALSE] \in Tellings
        BY <2>1 DEF Tellings
  <2>3. \A l \in {"never", "recent", "old"} : [queue[s][o] EXCEPT !.last = l] \in Entries
        BY <2>1 DEF Entries
  <2>4. queue[s][o].last \in {"never", "recent", "old"}
        BY <2>1 DEF Entries
  <2>5. told' = [told EXCEPT ![s] = [@ EXCEPT ![o] = [told[s][o] EXCEPT !.recent = FALSE]]]
        BY <1>1 DEF RepeatElapses
  <2>6. PICK l \in {"never", "recent", "old"} :
            queue' = [queue EXCEPT ![s] = [@ EXCEPT ![o] = [queue[s][o] EXCEPT !.last = l]]]
        BY <1>1, <2>4 DEF RepeatElapses
  <2>7. told' \in [Severities -> [Onus -> Tellings]]
        BY <2>2, <2>5 DEF TypeOK
  <2>8. queue' \in [Severities -> [Onus -> Entries]]
        BY <2>3, <2>6 DEF TypeOK
  <2>9. QED  BY <1>1, <2>7, <2>8
                DEF RepeatElapses, TypeOK, onuVars, fetchVars, flushVars, scanVars
<1>2. ASSUME NEW o \in Onus, AlertElapses(o) PROVE TypeOK'
      BY <1>2 DEF AlertElapses, TypeOK, onuVars, fetchVars, flushVars, ghosts
<1>3. ASSUME NEW k \in Scanners, ScanRead(k) PROVE TypeOK'
  <2>1. used' \in [{"dups", "gets", "fails", "scans"} -> Nat]
        BY <1>3, SpendType DEF ScanRead
  <2>2. scan' \in [Scanners -> SUBSET [onu : Onus, obs : Observations]]
        BY <1>3, ObserveType DEF ScanRead, TypeOK
  <2>3. QED  BY <1>3, <2>1, <2>2 DEF ScanRead, TypeOK, onuVars, fetchVars, flushVars, ghosts
<1>4. ASSUME NEW k \in Scanners, ScanOnu(k) PROVE TypeOK'
  <2>1. PICK r \in scan[k] : ScanOnuOf(k, r)
        BY <1>4 DEF ScanOnu
  <2>2. r.onu \in Onus /\ r.obs \in Observations /\ r.obs.ver \in Versions
        BY DEF TypeOK, Observations
  <2>3. scan' \in [Scanners -> SUBSET [onu : Onus, obs : Observations]]
        BY <2>1 DEF ScanOnuOf, TypeOK
  <2>4. alerted' \in [Onus -> {"never", "recent", "old"}]
        BY <2>1, <2>2 DEF ScanOnuOf, TypeOK
  <2>5. queue' \in [Severities -> [Onus -> Entries]]
    <3>1. CASE PowerEvent(r.obs.rx) # "none"
      <4>1. PowerEvent(r.obs.rx) \in EventTypes
            BY <3>1, PowerEventType DEF EventTypes
      <4>2. Added(r.onu, PowerEvent(r.obs.rx), r.obs.ver) \in [Severities -> [Onus -> Entries]]
            BY <2>2, <4>1, AddedType
      <4>3. QED  BY <2>1, <4>2 DEF ScanOnuOf, TypeOK
    <3>2. CASE PowerEvent(r.obs.rx) = "none"
          BY <2>1, <3>2 DEF ScanOnuOf, TypeOK
    <3>3. QED  BY <3>1, <3>2
  <2>6. told' \in [Severities -> [Onus -> Tellings]]
    <3>1. Untold({r.onu}) \in [Severities -> [Onus -> Tellings]]
          BY UntoldType
    <3>2. QED  BY <2>1, <3>1 DEF ScanOnuOf, TypeOK
  <2>7. undone' \subseteq Onus
        BY <2>1, <2>2 DEF ScanOnuOf, TypeOK
  <2>8. QED  BY <1>4, <2>3, <2>4, <2>5, <2>6, <2>7
                DEF ScanOnu, TypeOK, onuVars, fetchVars, flushVars
<1>5. QED  BY <1>1, <1>2, <1>3, <1>4

\* Every step, or a stutter, keeps the types.
LEMMA TypeStep == TypeOK /\ [Next]_vars => TypeOK'
<1> SUFFICES ASSUME TypeOK, [Next]_vars PROVE TypeOK'
    OBVIOUS
<1>1. CASE Shutdown
      BY <1>1 DEF Shutdown, TypeOK, onuVars, fetchVars, flushVars, scanVars, ghosts
<1>2. CASE UNCHANGED vars
      BY <1>2 DEF TypeOK, vars, onuVars, fetchVars, flushVars, scanVars, ghosts
<1>3. QED  BY <1>1, <1>2, FetchTypeStep, HandlerTypeStep, FlushTypeStep, PowerTypeStep
              DEF Next, Running

\* The state always has its types, and only alert and power events are ever sent.
THEOREM TypeCorrect == Spec => []TypeOK
  BY TypeInit, TypeStep, PTL DEF Spec

--------------------------------------------------------------------------------
(* One queue, the right one.                                               *)

OnlyQueue ==
    \A s, t \in Severities, o \in Onus : queue[s][o].in /\ queue[t][o].in => s = t

\* The steps that touch the queues.
QueueStep ==
    \/ HandleEvent
    \/ \E s \in Flushed : FlushCleanup(s) \/ FlushMark(s)
    \/ \E s \in Severities, o \in Onus : RepeatElapses(s, o)
    \/ \E k \in Scanners : ScanOnu(k)

\* Only the steps of the handler, of the flushes and of the scans touch the queues.
LEMMA OtherSteps ==
    ASSUME [Next]_vars, ~QueueStep
    PROVE  UNCHANGED <<queue, told, late>>
<1>1. CASE Shutdown \/ UNCHANGED vars
      BY <1>1 DEF Shutdown, vars, ghosts
<1>2. ASSUME NEW o \in Onus,
             \/ Change(o) \/ Duplicate(o) \/ ClientGet(o) \/ FetchStep(o)
             \/ Receive(o) \/ AlertElapses(o)
      PROVE  UNCHANGED <<queue, told, late>>
      BY <1>2 DEF Change, Duplicate, ClientGet, FetchStep, SnmpRead, FlightReturn,
                  Receive, AlertElapses, ghosts
<1>3. ASSUME NEW s \in Flushed, FlushStep(s)
      PROVE  UNCHANGED <<queue, told, late>>
      BY <1>3 DEF QueueStep, FlushStep, FlushBegin, FlushRead, FlushVerdict, FlushSend,
                  ghosts
<1>4. ASSUME NEW k \in Scanners, ScanRead(k)
      PROVE  UNCHANGED <<queue, told, late>>
      BY <1>4 DEF ScanRead, ghosts
<1>5. QED  BY <1>1, <1>2, <1>3, <1>4 DEF Next, Running, QueueStep

\* Add puts the ONU in the queue of its severity, and takes it out of all others.
LEMMA AddedFacts ==
    ASSUME TypeOK, NEW o \in Onus, NEW t, NEW v, NEW s \in Severities, NEW q \in Onus
    PROVE  Added(o, t, v)[s][q] =
              IF q # o THEN queue[s][q]
              ELSE IF s # eventSeverity(t) THEN NoEntry
              ELSE [in |-> TRUE, type |-> t, ver |-> v,
                    last |-> IF queue[s][o].in THEN queue[s][o].last ELSE "never"]
<1>1. queue[s] = [u \in Onus |-> queue[s][u]]
      BY DEF TypeOK
<1>2. QED  BY <1>1 DEF Added

\* What removing verified entries from a queue does to each entry of it.
LEMMA TakenFacts ==
    ASSUME TypeOK, NEW s \in Severities, NEW D, NEW t \in Severities, NEW o \in Onus
    PROVE  Taken(s, D)[t][o] = IF t = s /\ \E d \in D : d.onu = o THEN NoEntry
                               ELSE queue[t][o]
  BY DEF Taken, TypeOK

\* What the end of a flush does to each entry: marked when it repeats, deleted otherwise.
LEMMA MarkedFacts ==
    ASSUME TypeOK, NEW s \in Flushed, NEW t \in Severities, NEW o \in Onus
    PROVE  /\ t # s => Marked(s)[t][o] = queue[t][o]
           /\ t = s /\ (\A e \in list[s] : e.onu # o) => Marked(s)[t][o] = queue[t][o]
           /\ t = s /\ (\E e \in list[s] : e.onu = o) =>
                 Marked(s)[t][o] =
                    IF s \in Repeating /\ queue[t][o].in
                    THEN [in |-> TRUE, type |-> Event(s, o).type, last |-> "recent",
                          ver |-> Event(s, o).ver]
                    ELSE IF s \in Repeating THEN queue[t][o] ELSE NoEntry
<1>1. s \in Severities  BY PipelineAssumption
<1>2. CASE s \notin Repeating
      BY <1>1, <1>2, TakenFacts DEF Marked
<1>3. CASE s \in Repeating
      BY <1>1, <1>3 DEF Marked, TypeOK
<1>4. QED  BY <1>2, <1>3

\* That the repeat period elapses changes nothing about what is queued or was told.
LEMMA RepeatFacts ==
    ASSUME TypeOK, NEW s \in Severities, NEW o \in Onus, RepeatElapses(s, o),
           NEW t \in Severities, NEW q \in Onus
    PROVE  /\ queue'[t][q].in = queue[t][q].in /\ queue'[t][q].type = queue[t][q].type
           /\ queue'[t][q].ver = queue[t][q].ver
           /\ told'[t][q].ver = told[t][q].ver
<1>1. told[s][o] \in Tellings /\ queue[s][o] \in Entries
      BY DEF TypeOK
<1>2. PICK l : queue' = [queue EXCEPT ![s] = [@ EXCEPT ![o] = [queue[s][o] EXCEPT !.last = l]]]
      BY <1>1 DEF RepeatElapses
<1>3. /\ [queue[s][o] EXCEPT !.last = l].in = queue[s][o].in
      /\ [queue[s][o] EXCEPT !.last = l].type = queue[s][o].type
      /\ [queue[s][o] EXCEPT !.last = l].ver = queue[s][o].ver
      BY <1>1 DEF Entries
<1>4. told' = [told EXCEPT ![s] = [@ EXCEPT ![o] = [told[s][o] EXCEPT !.recent = FALSE]]]
      BY DEF RepeatElapses
<1>5. [told[s][o] EXCEPT !.recent = FALSE].ver = told[s][o].ver
      BY <1>1 DEF Tellings
<1>6. QED  BY <1>2, <1>3, <1>4, <1>5 DEF TypeOK

\* An entry of a queue after a step was there before, and has its event or another
\* one of the same severity; or it is new, and the only one of its ONU.
LEMMA QueueChange ==
    ASSUME TypeOK, RightQueue, [Next]_vars,
           NEW s \in Severities, NEW o \in Onus, queue'[s][o].in
    PROVE  \/ /\ queue[s][o].in
              /\ \/ queue'[s][o].type = queue[s][o].type
                 \/ eventSeverity(queue'[s][o].type) = s
           \/ /\ eventSeverity(queue'[s][o].type) = s
              /\ \A t \in Severities \ {s} : ~queue'[t][o].in
<1>0. ~NoEntry.in
      BY DEF NoEntry
<1>a. ASSUME NEW u \in Onus, NEW t, NEW v, queue' = Added(u, t, v)
      PROVE  \/ queue[s][o].in /\ queue'[s][o].type = queue[s][o].type
             \/ /\ eventSeverity(queue'[s][o].type) = s
                /\ \A r \in Severities \ {s} : ~queue'[r][o].in
  <2>1. ASSUME NEW r \in Severities
        PROVE  queue'[r][o] =
                  IF o # u THEN queue[r][o]
                  ELSE IF r # eventSeverity(t) THEN NoEntry
                  ELSE [in |-> TRUE, type |-> t, ver |-> v,
                        last |-> IF queue[r][u].in THEN queue[r][u].last ELSE "never"]
        BY <1>a, AddedFacts
  <2>2. CASE u # o
    <3>1. queue'[s][o] = queue[s][o]
          BY <2>1, <2>2
    <3>2. QED  BY <3>1
  <2>3. CASE u = o
    <3>1. s = eventSeverity(t)
          BY <1>0, <2>1, <2>3
    <3>2. \A r \in Severities \ {s} : queue'[r][o] = NoEntry
          BY <2>1, <2>3, <3>1
    <3>3. queue'[s][o] = [in |-> TRUE, type |-> t, ver |-> v,
                          last |-> IF queue[s][u].in THEN queue[s][u].last ELSE "never"]
          BY <2>1, <2>3, <3>1
    <3>4. QED  BY <1>0, <3>1, <3>2, <3>3
  <2>4. QED  BY <2>2, <2>3
<1>1. CASE HandleEvent
  <2>1. onu["handler"] \in Onus
        BY ConstantTypes DEF TypeOK
  <2>2. \/ queue' = queue
        \/ queue' = Added(onu["handler"], TypeOf(got["handler"]), got["handler"].ver)
        \/ queue' = Removed(onu["handler"])
        BY <1>1 DEF HandleEvent
  <2>3. CASE queue' = Removed(onu["handler"])
        BY <1>0, <2>3 DEF Removed, TypeOK
  <2>4. QED  BY <1>a, <2>1, <2>2, <2>3
<1>2. ASSUME NEW r \in Flushed, FlushCleanup(r)
      PROVE  queue[s][o].in /\ queue'[s][o].type = queue[s][o].type
      BY <1>0, <1>2, TakenFacts, PipelineAssumption DEF FlushCleanup
<1>3. ASSUME NEW r \in Flushed, FlushMark(r)
      PROVE  /\ queue[s][o].in
             /\ \/ queue'[s][o].type = queue[s][o].type
                \/ eventSeverity(queue'[s][o].type) = s
  <2>1. queue' = Marked(r)
        BY <1>3 DEF FlushMark
  <2>2. CASE s = r /\ \E e \in list[r] : e.onu = o
    <3>1. Event(r, o) \in list[r]
          BY <2>2, EventFacts
    <3>2. eventSeverity(Event(r, o).type) = s
          BY <2>2, <3>1 DEF RightQueue
    <3>3. r \in Repeating /\ queue[s][o].in
          BY <1>0, <2>1, <2>2, MarkedFacts
    <3>4. queue'[s][o].type = Event(r, o).type
      <4>1. Marked(r)[s][o] = [in |-> TRUE, type |-> Event(r, o).type, last |-> "recent",
                               ver |-> Event(r, o).ver]
            BY <2>2, <3>3, MarkedFacts
      <4>2. QED  BY <2>1, <4>1
    <3>5. QED  BY <3>2, <3>3, <3>4
  <2>3. CASE ~(s = r /\ \E e \in list[r] : e.onu = o)
        BY <2>1, <2>3, MarkedFacts
  <2>4. QED  BY <2>2, <2>3
<1>4. ASSUME NEW r \in Severities, NEW u \in Onus, RepeatElapses(r, u)
      PROVE  queue[s][o].in /\ queue'[s][o].type = queue[s][o].type
      BY <1>4, RepeatFacts
<1>5. ASSUME NEW k \in Scanners, ScanOnu(k)
      PROVE  \/ queue[s][o].in /\ queue'[s][o].type = queue[s][o].type
             \/ /\ eventSeverity(queue'[s][o].type) = s
                /\ \A r \in Severities \ {s} : ~queue'[r][o].in
  <2>1. PICK r \in scan[k] : ScanOnuOf(k, r)
        BY <1>5 DEF ScanOnu
  <2>2. r.onu \in Onus
        BY DEF TypeOK
  <2>3. queue' = queue \/ queue' = Added(r.onu, PowerEvent(r.obs.rx), r.obs.ver)
        BY <2>1 DEF ScanOnuOf
  <2>4. QED  BY <1>a, <2>2, <2>3
<1>6. QED  BY <1>1, <1>2, <1>3, <1>4, <1>5, OtherSteps DEF QueueStep

\* What waits to be sent was there before, or has just been verified.
LEMMA ListChange ==
    ASSUME [Next]_vars, TypeOK, NEW s \in Flushed, NEW e \in list'[s]
    PROVE  \/ e \in list[s]
           \/ /\ FlushVerdict(s) /\ FlushType(s, got[s]) # "none"
              /\ e = [onu |-> onu[s], type |-> FlushType(s, got[s]), ver |-> got[s].ver]
<1>1. CASE Shutdown \/ UNCHANGED vars \/ HandleEvent
      BY <1>1 DEF Shutdown, HandleEvent, vars, flushVars
<1>2. ASSUME NEW o \in Onus,
             \/ Change(o) \/ Duplicate(o) \/ ClientGet(o) \/ FetchStep(o)
             \/ Receive(o) \/ AlertElapses(o)
      PROVE  list' = list
      BY <1>2 DEF Change, Duplicate, ClientGet, FetchStep, SnmpRead, FlightReturn,
                  Receive, AlertElapses, flushVars
<1>3. ASSUME NEW r \in Severities, NEW o \in Onus, RepeatElapses(r, o)
      PROVE  list' = list
      BY <1>3 DEF RepeatElapses, flushVars
<1>4. ASSUME NEW k \in Scanners, ScanRead(k) \/ ScanOnu(k)
      PROVE  list' = list
      BY <1>4 DEF ScanRead, ScanOnu, flushVars
<1>5. ASSUME NEW r \in Flushed,
             FlushBegin(r) \/ FlushRead(r) \/ FlushCleanup(r) \/ FlushMark(r)
      PROVE  list' = list
      BY <1>5 DEF FlushBegin, FlushRead, FlushCleanup, FlushMark, flushVars
<1>6. ASSUME NEW r \in Flushed, FlushSend(r)
      PROVE  e \in list[s]
      BY <1>6 DEF FlushSend, TypeOK
<1>7. ASSUME NEW r \in Flushed, FlushVerdict(r)
      PROVE  \/ e \in list[s]
             \/ /\ FlushVerdict(s) /\ FlushType(s, got[s]) # "none"
                /\ e = [onu |-> onu[s], type |-> FlushType(s, got[s]), ver |-> got[s].ver]
  <2>1. CASE r # s \/ FlushType(r, got[r]) = "none"
        BY <1>7, <2>1 DEF FlushVerdict, TypeOK
  <2>2. CASE r = s /\ FlushType(r, got[r]) # "none"
    <3>1. list' = [list EXCEPT ![s] = @ \cup
                      {[onu |-> onu[s], type |-> FlushType(s, got[s]), ver |-> got[s].ver]}]
          BY <1>7, <2>2 DEF FlushVerdict
    <3>2. list[s] \in SUBSET [onu : Onus, type : EventTypes, ver : Versions] /\ s \in DOMAIN list
          BY DEF TypeOK
    <3>3. list'[s] = list[s] \cup
                      {[onu |-> onu[s], type |-> FlushType(s, got[s]), ver |-> got[s].ver]}
          BY <3>1, <3>2
    <3>4. QED  BY <1>7, <2>2, <3>3
  <2>3. QED  BY <2>1, <2>2
<1>8. QED  BY <1>1, <1>2, <1>3, <1>4, <1>5, <1>6, <1>7 DEF Next, Running, FlushStep

QueueInv == OnlyQueue /\ RightQueue

\* The queues are empty at the start.
LEMMA QueueInit == Init => QueueInv
<1> SUFFICES ASSUME Init PROVE QueueInv
    OBVIOUS
<1>1. \A s \in Severities, o \in Onus : ~queue[s][o].in
      BY DEF Init, NoEntry
<1>2. \A s \in Flushed : list[s] = {}
      BY DEF Init
<1>3. QED  BY <1>1, <1>2 DEF QueueInv, OnlyQueue, RightQueue, Keys

\* Every step keeps each ONU in one queue at most, and in the one of its severity.
LEMMA QueueInvStep == TypeOK /\ QueueInv /\ [Next]_vars => QueueInv'
<1> SUFFICES ASSUME TypeOK, OnlyQueue, RightQueue, [Next]_vars PROVE QueueInv'
    BY DEF QueueInv
<1>1. OnlyQueue'
  <2> SUFFICES ASSUME NEW s \in Severities, NEW t \in Severities, NEW o \in Onus,
                      queue'[s][o].in, queue'[t][o].in
               PROVE  s = t
      BY DEF OnlyQueue
  <2>1. CASE queue[s][o].in /\ queue[t][o].in
        BY <2>1 DEF OnlyQueue
  <2>2. CASE ~queue[s][o].in
        BY <2>2, QueueChange
  <2>3. CASE ~queue[t][o].in
        BY <2>3, QueueChange
  <2>4. QED  BY <2>1, <2>2, <2>3
<1>2. ASSUME NEW s \in Severities, NEW o \in Onus, queue'[s][o].in
      PROVE  eventSeverity(queue'[s][o].type) = s
  <2>1. queue[s][o].in => eventSeverity(queue[s][o].type) = s
        BY DEF RightQueue, Keys
  <2>2. QED  BY <1>2, <2>1, QueueChange
<1>3. ASSUME NEW s \in Flushed, NEW e \in list'[s]
      PROVE  eventSeverity(e.type) = s
  <2>1. CASE e \in list[s]
        BY <2>1 DEF RightQueue
  <2>2. CASE e \notin list[s]
        BY <2>2, ListChange, FlushTypes
  <2>3. QED  BY <2>1, <2>2
<1>4. QED  BY <1>1, <1>2, <1>3 DEF QueueInv, RightQueue, Keys

\* Cardinality at most one from the absence of two different members.
LEMMA AtMostOne ==
    ASSUME NEW S, \A x, y \in S : x = y
    PROVE  Cardinality(S) <= 1
<1>1. CASE S = {}
      BY <1>1, FS_EmptySet
<1>2. CASE S # {}
  <2>1. PICK x \in S : S = {x}
        BY <1>2
  <2>2. QED  BY <2>1, FS_Singleton
<1>3. QED  BY <1>1, <1>2

\* RightQueue: an entry is always in the queue of its own severity and so is what is
\* about to be sent, whatever the handler, the flush loops and the monitor do at once
\* (Batcher.Add, Remove and flushSeverity).
THEOREM RightQueueAlways == Spec => []RightQueue
<1>1. Init => TypeOK /\ QueueInv
      BY TypeInit, QueueInit
<1>2. TypeOK /\ QueueInv /\ [Next]_vars => (TypeOK /\ QueueInv)'
      BY TypeStep, QueueInvStep
<1>3. QueueInv => RightQueue
      BY DEF QueueInv
<1>4. QED  BY <1>1, <1>2, <1>3, PTL DEF Spec

\* OneQueue: an ONU is in one queue at most.
THEOREM OneQueueAlways == Spec => []OneQueue
<1>1. Init => TypeOK /\ QueueInv
      BY TypeInit, QueueInit
<1>2. TypeOK /\ QueueInv /\ [Next]_vars => (TypeOK /\ QueueInv)'
      BY TypeStep, QueueInvStep
<1>3. QueueInv => OneQueue
      BY AtMostOne DEF QueueInv, OnlyQueue, OneQueue
<1>4. QED  BY <1>1, <1>2, <1>3, PTL DEF Spec

--------------------------------------------------------------------------------
(* What is known about an ONU only gets newer.                             *)

\* An observation of the ONU: what it saw if that is still the case, and no alert if
\* it saw nothing.
Faithful(obs, o) ==
    /\ obs.ver <= ver[o]
    /\ obs.ver = ver[o] => obs = Observe(o)
    /\ obs.ver = 0 => TypeOf(obs) \notin alertEventTypes /\ PowerEvent(obs.rx) = "none"

\* A lookup that is started or joined now returns nothing older than this, unless it
\* fails: what the call in flight has read already, or the present.
SeenVer(o) ==
    IF flight[o].st = "read" /\ flight[o].obs.ver # 0 THEN flight[o].obs.ver ELSE ver[o]

\* Every reading on its way is faithful.
ReadingsInv ==
    /\ \A o \in Onus : ver[o] >= 1 /\ acted[o] <= ver[o]
    /\ \A o \in Onus : flight[o].st = "read" => Faithful(flight[o].obs, o)
    /\ \A p \in Procs : /\ Faithful(got[p], onu[p])
                        /\ got[p].ver <= SeenVer(onu[p])
                        /\ pc[p] # "got" => got[p] = Nothing
    /\ \A k \in Scanners : \A r \in scan[k] : Faithful(r.obs, r.onu)

\* Nothing that came through the lookups is newer than what they return next.
AgesInv ==
    /\ \A s \in Severities, o \in Onus : /\ s # "Medium" => queue[s][o].ver <= SeenVer(o)
                                         /\ told[s][o].ver <= SeenVer(o)
    /\ \A s \in Flushed : \A e \in list[s] : e.ver >= 1 /\ e.ver <= SeenVer(e.onu)
    /\ \A s \in Flushed \ {"Medium"} :
          /\ pc[s] = "wait" => asked[s].entry <= SeenVer(onu[s])
          /\ pc[s] = "got" /\ got[s].ver # 0 => asked[s].entry <= got[s].ver

\* A flush never notifies anything older than what it notified last.
ToldInv ==
    \A s \in Flushed :
        /\ pc[s] # "send" => \A e \in list[s] : told[s][e.onu].ver <= e.ver
        /\ pc[s] = "got" /\ got[s].ver # 0 => told[s][onu[s]].ver <= got[s].ver

\* An entry that is to be dropped is outdated now, or the reason for it is.
DropInv ==
    \A s \in Flushed : \A d \in drop[s] :
        /\ d.ver <= ver[d.onu]
        /\ d.ver = ver[d.onu] => FlushType(s, Observe(d.onu)) = "none"

\* Where a seen outage is while nobody has undone it.
KnownAt(o) ==
    \/ queue[eventSeverity(TypeOf(Observe(o)))][o].in
    \/ \E s \in Severities : told[s][o].ver = ver[o]
    \/ queue["Medium"][o].in /\ PowerEvent(cond[o].rx) # "none"

KnownInv == \A o \in Onus : ShouldBeKnown(o) /\ o \notin undone => KnownAt(o)

\* Which steps change what.
LEMMA Frame ==
    ASSUME [Next]_vars
    PROVE  /\ (\A o \in Onus : ~Change(o)) => UNCHANGED <<cond, ver>>
           /\ \/ UNCHANGED <<flight, onu, got, asked, pc, list, drop, undone, acted>>
              \/ HandleEvent
              \/ \E o \in Onus : ClientGet(o) \/ FetchStep(o) \/ Receive(o)
              \/ \E s \in Flushed : FlushStep(s)
              \/ /\ \E k \in Scanners : ScanOnu(k)
                 /\ UNCHANGED <<flight, onu, got, asked, pc, list, drop, acted>>
           /\ UNCHANGED scan \/ \E k \in Scanners : ScanRead(k) \/ ScanOnu(k)
<1>1. CASE Shutdown \/ UNCHANGED vars
      BY <1>1 DEF Shutdown, vars, onuVars, fetchVars, flushVars, scanVars, ghosts
<1>2. ASSUME NEW o \in Onus, Change(o)
      PROVE  UNCHANGED <<flight, onu, got, asked, pc, list, drop, undone, acted, scan>>
      BY <1>2 DEF Change, fetchVars, flushVars, scanVars, ghosts
<1>3. ASSUME NEW o \in Onus, Duplicate(o) \/ AlertElapses(o)
      PROVE  UNCHANGED <<cond, ver, flight, onu, got, asked, pc, list, drop, undone, acted, scan>>
      BY <1>3 DEF Duplicate, AlertElapses, onuVars, fetchVars, flushVars, scanVars, ghosts
<1>4. ASSUME NEW o \in Onus, ClientGet(o) \/ FetchStep(o) \/ Receive(o)
      PROVE  UNCHANGED <<cond, ver, scan>>
      BY <1>4 DEF ClientGet, FetchStep, SnmpRead, FlightReturn, Receive, onuVars, scanVars
<1>5. ASSUME NEW s \in Severities, NEW o \in Onus, RepeatElapses(s, o)
      PROVE  UNCHANGED <<cond, ver, flight, onu, got, asked, pc, list, drop, undone, acted, scan>>
      BY <1>5 DEF RepeatElapses, onuVars, fetchVars, flushVars, scanVars
<1>6. CASE HandleEvent
      BY <1>6 DEF HandleEvent, onuVars, scanVars
<1>7. ASSUME NEW s \in Flushed, FlushStep(s)
      PROVE  UNCHANGED <<cond, ver, scan>>
      BY <1>7 DEF FlushStep, FlushBegin, FlushRead, FlushVerdict, FlushCleanup, FlushMark,
                  FlushSend, onuVars, scanVars
<1>8. ASSUME NEW k \in Scanners, ScanRead(k)
      PROVE  UNCHANGED <<cond, ver, flight, onu, got, asked, pc, list, drop, undone, acted>>
      BY <1>8 DEF ScanRead, onuVars, fetchVars, flushVars, ghosts
<1>9. ASSUME NEW k \in Scanners, ScanOnu(k)
      PROVE  UNCHANGED <<cond, ver, flight, onu, got, asked, pc, list, drop, acted>>
      BY <1>9 DEF ScanOnu, onuVars, fetchVars, flushVars
<1>10. CASE \E o \in Onus : Change(o) \/ Duplicate(o) \/ AlertElapses(o)
       BY <1>2, <1>3, <1>10
<1>11. CASE \E o \in Onus : ClientGet(o) \/ FetchStep(o) \/ Receive(o)
       BY <1>4, <1>11
<1>12. CASE \E k \in Scanners : ScanRead(k) \/ ScanOnu(k)
       BY <1>8, <1>9, <1>12
<1>13. CASE \E s \in Severities, o \in Onus : RepeatElapses(s, o)
       BY <1>5, <1>13
<1>14. CASE \E s \in Flushed : FlushStep(s)
       BY <1>7, <1>14
<1>15. QED  BY <1>1, <1>6, <1>10, <1>11, <1>12, <1>13, <1>14 DEF Next, Running

\* A lookup that is started leaves a call in flight; it does not disturb another one.
LEMMA StartFetchFlight ==
    ASSUME TypeOK, NEW p \in Procs, NEW u \in Onus, NEW v, StartFetch(p, u, v), NEW o \in Onus
    PROVE  \/ flight'[o] = flight[o]
           \/ flight[o].st = "none" /\ flight'[o] = Asking
<1>1. CASE flight' = flight
      BY <1>1
<1>2. CASE flight' # flight
  <2>1. flight[u].st = "none" /\ flight' = [flight EXCEPT ![u] = Asking]
        BY <1>2 DEF StartFetch
  <2>2. QED  BY <2>1 DEF TypeOK
<1>3. QED  BY <1>1, <1>2

\* What becomes of the call in flight for an ONU.
LEMMA FlightChange ==
    ASSUME TypeOK, [Next]_vars, NEW o \in Onus
    PROVE  \/ flight'[o] = flight[o]
           \/ /\ ver'[o] = ver[o]
              /\ \/ flight[o].st = "none" /\ flight'[o] = Asking
                 \/ flight[o].st = "read" /\ flight'[o] = NoFlight
                 \/ /\ flight[o].st = "asking"
                    /\ \E obs \in {Nothing, Blank, Observe(o)} :
                          flight'[o] = [st |-> "read", obs |-> obs]
<1>1. ASSUME NEW u \in Onus, ClientGet(u)
      PROVE  /\ ver' = ver
             /\ \/ flight'[o] = flight[o]
                \/ flight[o].st = "none" /\ flight'[o] = Asking
      BY <1>1 DEF ClientGet, TypeOK, onuVars
<1>2. ASSUME NEW u \in Onus, Receive(u)
      PROVE  /\ ver' = ver
             /\ \/ flight'[o] = flight[o]
                \/ flight[o].st = "none" /\ flight'[o] = Asking
      BY <1>2, ConstantTypes, StartFetchFlight DEF Receive
<1>3. ASSUME NEW u \in Onus, SnmpRead(u)
      PROVE  /\ ver' = ver
             /\ \/ flight'[o] = flight[o]
                \/ /\ flight[o].st = "asking"
                   /\ \E obs \in {Nothing, Blank, Observe(o)} :
                         flight'[o] = [st |-> "read", obs |-> obs]
      BY <1>3 DEF SnmpRead, TypeOK, onuVars
<1>4. ASSUME NEW u \in Onus, FlightReturn(u)
      PROVE  /\ ver' = ver
             /\ \/ flight'[o] = flight[o]
                \/ flight[o].st = "read" /\ flight'[o] = NoFlight
      BY <1>4 DEF FlightReturn, TypeOK, onuVars
<1>5. ASSUME NEW s \in Flushed, FlushStep(s)
      PROVE  /\ ver' = ver
             /\ \/ flight'[o] = flight[o]
                \/ flight[o].st = "none" /\ flight'[o] = Asking
  <2>1. CASE FlushRead(s)
    <3>1. PICK u \in todo[s] : IF Skip(s, u) THEN UNCHANGED <<pc, fetchVars>>
                               ELSE StartFetch(s, u, queue[s][u].ver)
          BY <2>1 DEF FlushRead
    <3>2. s \in Procs /\ u \in Onus
          BY DEF TypeOK, Procs
    <3>3. CASE Skip(s, u)
          BY <2>1, <3>1, <3>3 DEF FlushRead, fetchVars, onuVars
    <3>4. CASE ~Skip(s, u)
      <4>1. StartFetch(s, u, queue[s][u].ver)
            BY <3>1, <3>4
      <4>2. \/ flight'[o] = flight[o]
            \/ flight[o].st = "none" /\ flight'[o] = Asking
            BY <3>2, <4>1, StartFetchFlight
      <4>3. QED  BY <2>1, <4>2 DEF FlushRead, onuVars
    <3>5. QED  BY <3>3, <3>4
  <2>2. CASE FlushBegin(s) \/ FlushVerdict(s) \/ FlushCleanup(s) \/ FlushMark(s) \/ FlushSend(s)
        BY <2>2 DEF FlushBegin, FlushVerdict, Forget, FlushCleanup, FlushMark, FlushSend,
                    onuVars, fetchVars
  <2>3. QED  BY <1>5, <2>1, <2>2 DEF FlushStep
<1>6. CASE HandleEvent
      BY <1>6 DEF HandleEvent, Forget
<1>7. QED  BY <1>1, <1>2, <1>3, <1>4, <1>5, <1>6, Frame DEF FetchStep

\* The numbers of conditions only grow.
LEMMA VerStep ==
    ASSUME TypeOK, [Next]_vars, NEW o \in Onus
    PROVE  /\ ver[o] \in Nat /\ ver'[o] \in Nat /\ ver[o] <= ver'[o]
           /\ ver'[o] = ver[o] => cond'[o] = cond[o]
<1>1. ver[o] \in Nat
      BY PipelineAssumption DEF TypeOK, Versions
<1>2. ASSUME NEW u \in Onus, Change(u)
      PROVE  /\ ver'[o] = IF u = o THEN ver[o] + 1 ELSE ver[o]
             /\ u # o => cond'[o] = cond[o]
      BY <1>2 DEF Change, TypeOK
<1>3. QED  BY <1>1, <1>2, Frame

\* What a lookup returns next is not newer than the OLT.
LEMMA SeenBound ==
    ASSUME TypeOK, ReadingsInv, NEW o \in Onus
    PROVE  SeenVer(o) \in Nat /\ SeenVer(o) <= ver[o]
<1>1. ver[o] \in Nat /\ flight[o].obs.ver \in Nat
      BY PipelineAssumption DEF TypeOK, Flights, Observations, Versions
<1>2. flight[o].st = "read" => flight[o].obs.ver <= ver[o]
      BY DEF ReadingsInv, Faithful
<1>3. QED  BY <1>1, <1>2 DEF SeenVer

\* What a lookup returns next never gets older, although lookups are shared.
LEMMA SeenStep ==
    ASSUME TypeOK, ReadingsInv, [Next]_vars, NEW o \in Onus
    PROVE  /\ SeenVer(o) \in Nat /\ SeenVer(o)' \in Nat
           /\ SeenVer(o) <= SeenVer(o)' /\ SeenVer(o) <= ver[o]
<1>1. flight[o].obs.ver \in Nat
      BY PipelineAssumption DEF TypeOK, Flights, Observations, Versions
<1>2. flight[o].st = "read" => flight[o].obs.ver <= ver[o]
      BY DEF ReadingsInv, Faithful
<1>3. SeenVer(o) \in Nat /\ SeenVer(o) <= ver[o]
      BY SeenBound
<1>4. CASE flight'[o] = flight[o]
      BY <1>1, <1>2, <1>4, VerStep DEF SeenVer
<1>5. CASE flight[o].st = "none" /\ flight'[o] = Asking /\ ver'[o] = ver[o]
      BY <1>3, <1>5, VerStep DEF SeenVer, Asking
<1>6. CASE flight[o].st = "read" /\ flight'[o] = NoFlight /\ ver'[o] = ver[o]
      BY <1>3, <1>6, VerStep DEF SeenVer, NoFlight
<1>7. ASSUME flight[o].st = "asking", ver'[o] = ver[o], NEW obs \in {Nothing, Blank, Observe(o)},
             flight'[o] = [st |-> "read", obs |-> obs]
      PROVE  SeenVer(o) = ver[o] /\ SeenVer(o)' = ver[o]
  <2>1. obs.ver = ver[o] \/ obs.ver = 0
    <3>1. Nothing.ver = 0 /\ Blank.ver = 0
          BY DEF Nothing, Blank
    <3>2. Observe(o).ver = ver[o]
          BY DEF Observe
    <3>3. QED  BY <3>1, <3>2
  <2>2. flight'[o].st = "read" /\ flight'[o].obs = obs
        BY <1>7
  <2>3. QED  BY <1>7, <2>1, <2>2 DEF SeenVer
<1>8. QED  BY <1>3, <1>4, <1>5, <1>6, <1>7, FlightChange, VerStep

\* An observation stays faithful whatever the ONU does.
LEMMA FaithfulKept ==
    ASSUME TypeOK, [Next]_vars, NEW o \in Onus, NEW obs, obs.ver \in Nat, Faithful(obs, o)
    PROVE  Faithful(obs, o)'
<1>1. CASE ver'[o] = ver[o]
  <2>1. Observe(o)' = Observe(o)
        BY <1>1, VerStep DEF Observe
  <2>2. QED  BY <1>1, <2>1 DEF Faithful
<1>2. CASE ver'[o] # ver[o]
      BY <1>2, VerStep DEF Faithful
<1>3. QED  BY <1>1, <1>2

\* A reading that failed, or of an ONU that is not there, is no reason for an alert.
LEMMA NothingSeen ==
    /\ TypeOf(Nothing) = "Online" /\ TypeOf(Blank) = "Online"
    /\ PowerEvent(Nothing.rx) = "none" /\ PowerEvent(Blank.rx) = "none"
    /\ Nothing.ver = 0 /\ Blank.ver = 0 /\ ~Nothing.ok
    /\ "Online" \notin alertEventTypes
<1>1. Nothing.status = "" /\ Blank.status = ""
      BY DEF Nothing, Blank
<1>2. StatusWords("") = {}
      BY DEF StatusWords
<1>3. \A r : resolveEventType("", r) = "Online"
      BY <1>2 DEF resolveEventType
<1>4. QED  BY <1>1, <1>3 DEF TypeOf, Nothing, Blank, PowerEvent, alertEventTypes

\* A reading that failed, is empty, or is made now is one of a condition the ONU has had.
LEMMA NothingFaithful ==
    ASSUME NEW o \in Onus, ver[o] >= 1, ver[o] \in Nat
    PROVE  Faithful(Nothing, o) /\ Faithful(Blank, o) /\ Faithful(Observe(o), o)
<1>1. Observe(o).ver = ver[o]
      BY DEF Observe
<1>2. QED  BY <1>1, NothingSeen DEF Faithful

\* What a step does to the lookup of a process: nothing; it forgets what the lookup
\* returned; it starts one; or its lookup returns.
Keeps(p) ==
    /\ got'[p] = got[p] /\ onu'[p] = onu[p] /\ asked'[p] = asked[p]
    /\ \/ pc'[p] = pc[p]
       \/ pc[p] \notin {"wait", "got"} /\ pc'[p] \notin {"wait", "got"}

Forgets(p) == pc[p] = "got" /\ pc'[p] \notin {"wait", "got"} /\ got'[p] = Nothing

Starts(p) ==
    /\ pc[p] \notin {"wait", "got"} /\ pc'[p] \in {"wait", "got"}
    /\ got'[p] = got[p]
    /\ onu'[p] \in Onus
    /\ p \in Flushed => asked'[p] = [now |-> ver[onu'[p]], entry |-> queue[p][onu'[p]].ver]

Returns(p) ==
    /\ pc[p] = "wait" /\ pc'[p] = "got"
    /\ onu'[p] = onu[p] /\ asked'[p] = asked[p]
    /\ flight[onu[p]].st = "read" /\ got'[p] = flight[onu[p]].obs
    /\ flight'[onu[p]] = NoFlight /\ ver' = ver

\* GetByBoardIDPonIDAndOnuID starts a lookup for its caller and for no one else.
LEMMA StartFetchStarts ==
    ASSUME TypeOK, NEW p \in Procs, NEW u \in Onus, NEW v, StartFetch(p, u, v),
           pc[p] \notin {"wait", "got"}, p \in Flushed => v = queue[p][u].ver
    PROVE  /\ Starts(p)
           /\ \A r \in Procs \ {p} : Keeps(r)
<1>1. /\ onu'[p] = u /\ pc'[p] \in {"wait", "got"} /\ got' = got
      /\ asked'[p] = [now |-> ver[u], entry |-> v]
      BY DEF StartFetch, TypeOK
<1>2. \A r \in Procs \ {p} : onu'[r] = onu[r] /\ pc'[r] = pc[r] /\ asked'[r] = asked[r]
      BY DEF StartFetch, TypeOK
<1>3. QED  BY <1>1, <1>2 DEF Starts, Keeps

\* A process that goes on with its work leaves the readings of the others alone.
LEMMA ForgetForgets ==
    ASSUME TypeOK, NEW p \in Procs, Forget(p), pc[p] = "got", NEW x \in {"idle", "pick"},
           pc' = [pc EXCEPT ![p] = x]
    PROVE  /\ Forgets(p)
           /\ \A r \in Procs \ {p} : Keeps(r)
  BY DEF Forget, Forgets, Keeps, TypeOK

\* No step does more to the lookup of a process than these four.
LEMMA LookupChange ==
    ASSUME TypeOK, [Next]_vars, NEW p \in Procs
    PROVE  Keeps(p) \/ Forgets(p) \/ Starts(p) \/ Returns(p)
<1>1. CASE UNCHANGED <<got, onu, asked, pc>>
      BY <1>1 DEF Keeps
<1>2. CASE HandleEvent
  <2>1. /\ Forget("handler") /\ pc["handler"] = "got"
        /\ pc' = [pc EXCEPT !["handler"] = "idle"]
        BY <1>2 DEF HandleEvent
  <2>2. QED  BY <2>1, ConstantTypes, ForgetForgets
<1>3. ASSUME NEW u \in Onus, Receive(u)
      PROVE  Keeps(p) \/ Starts(p)
      BY <1>3, ConstantTypes, StartFetchStarts DEF Receive
<1>4. ASSUME NEW u \in Onus, ClientGet(u) \/ SnmpRead(u)
      PROVE  Keeps(p)
      BY <1>4 DEF ClientGet, SnmpRead, Keeps
<1>5. ASSUME NEW u \in Onus, FlightReturn(u)
      PROVE  Keeps(p) \/ Returns(p)
  <2>1. CASE pc[p] = "wait" /\ onu[p] = u
        BY <1>5, <2>1 DEF FlightReturn, Returns, TypeOK, onuVars
  <2>2. CASE ~(pc[p] = "wait" /\ onu[p] = u)
        BY <1>5, <2>2 DEF FlightReturn, Keeps, TypeOK
  <2>3. QED  BY <2>1, <2>2
<1>6. ASSUME NEW s \in Flushed, FlushStep(s)
      PROVE  Keeps(p) \/ Forgets(p) \/ Starts(p)
  <2>0. s \in Procs
        BY DEF Procs
  <2>1. CASE FlushRead(s)
    <3>1. PICK u \in todo[s] : IF Skip(s, u) THEN UNCHANGED <<pc, fetchVars>>
                               ELSE StartFetch(s, u, queue[s][u].ver)
          BY <2>1 DEF FlushRead
    <3>2. u \in Onus /\ pc[s] = "pick"
          BY <2>1 DEF FlushRead, TypeOK
    <3>3. CASE Skip(s, u)
          BY <3>1, <3>3 DEF fetchVars, Keeps
    <3>4. CASE ~Skip(s, u)
          BY <2>0, <3>1, <3>2, <3>4, StartFetchStarts
    <3>5. QED  BY <3>3, <3>4
  <2>2. CASE FlushVerdict(s)
    <3>1. /\ Forget(s) /\ pc[s] = "got"
          /\ pc' = [pc EXCEPT ![s] = "pick"]
          BY <2>2 DEF FlushVerdict
    <3>2. QED  BY <2>0, <3>1, ForgetForgets
  <2>3. CASE FlushBegin(s) \/ FlushCleanup(s) \/ FlushMark(s) \/ FlushSend(s)
    <3>1. PICK x \in Points \ {"wait", "got"} : pc' = [pc EXCEPT ![s] = x]
          BY <2>3 DEF FlushBegin, FlushCleanup, FlushMark, FlushSend, AfterFlush, Points
    <3>2. pc[s] \notin {"wait", "got"} /\ UNCHANGED <<got, onu, asked>>
          BY <2>3 DEF FlushBegin, FlushCleanup, FlushMark, FlushSend, fetchVars
    <3>3. QED  BY <3>1, <3>2 DEF Keeps, TypeOK
  <2>4. QED  BY <1>6, <2>1, <2>2, <2>3 DEF FlushStep
<1>7. ASSUME NEW k \in Scanners, ScanOnu(k)
      PROVE  Keeps(p)
      BY <1>7 DEF ScanOnu, fetchVars, Keeps
<1>8. QED  BY <1>1, <1>2, <1>3, <1>4, <1>5, <1>6, <1>7, Frame DEF FetchStep

\* The handler acts on what its lookup returned.
LEMMA ActedChange ==
    ASSUME TypeOK, [Next]_vars, NEW o \in Onus
    PROVE  \/ acted'[o] = acted[o]
           \/ /\ HandleEvent /\ got["handler"].ok
              /\ o = onu["handler"] /\ acted'[o] = got["handler"].ver
<1>1. CASE HandleEvent
      BY <1>1 DEF HandleEvent, TypeOK
<1>2. CASE ~HandleEvent
  <2>1. ASSUME NEW u \in Onus, ClientGet(u) \/ FetchStep(u) \/ Receive(u)
        PROVE  acted' = acted
        BY <2>1 DEF ClientGet, FetchStep, SnmpRead, FlightReturn, Receive, ghosts
  <2>2. ASSUME NEW s \in Flushed, FlushStep(s)
        PROVE  acted' = acted
        BY <2>2 DEF FlushStep, FlushBegin, FlushRead, FlushVerdict, FlushCleanup, FlushMark,
                    FlushSend, ghosts
  <2>3. QED  BY <1>2, <2>1, <2>2, Frame
<1>3. QED  BY <1>1, <1>2

\* At the start nobody has read anything.
LEMMA ReadingsInit == Init => ReadingsInv
<1> SUFFICES ASSUME Init PROVE ReadingsInv
    OBVIOUS
<1>1. \A o \in Onus : ver[o] = 1 /\ acted[o] = 0 /\ flight[o].st = "none"
      BY DEF Init, NoFlight
<1>2. \A p \in Procs : got[p] = Nothing /\ onu[p] \in Onus
      BY PipelineAssumption DEF Init
<1>3. \A k \in Scanners : scan[k] = {}
      BY DEF Init
<1>4. \A o \in Onus : Faithful(Nothing, o) /\ SeenVer(o) = 1
      BY <1>1, NothingFaithful DEF SeenVer
<1>5. QED  BY <1>1, <1>2, <1>3, <1>4, NothingSeen DEF ReadingsInv

\* Every step keeps what has been read faithful to what the ONU was.
LEMMA ReadingsStep == TypeOK /\ ReadingsInv /\ [Next]_vars => ReadingsInv'
<1> SUFFICES ASSUME TypeOK, ReadingsInv, [Next]_vars PROVE ReadingsInv'
    OBVIOUS
<1>0. \A o \in Onus : ver[o] >= 1 /\ ver[o] \in Nat /\ acted[o] <= ver[o] /\ acted[o] \in Nat
      BY PipelineAssumption DEF ReadingsInv, TypeOK, Versions
<1>1. ASSUME NEW o \in Onus
      PROVE  ver'[o] >= 1 /\ acted'[o] <= ver'[o]
  <2>1. got["handler"].ver <= ver[onu["handler"]] /\ got["handler"].ver \in Nat
        BY ConstantTypes, PipelineAssumption
           DEF ReadingsInv, Faithful, TypeOK, Observations, Versions
  <2>2. QED  BY <1>0, <2>1, VerStep, ActedChange
<1>2. ASSUME NEW o \in Onus, NEW obs, Faithful(obs, o), obs.ver \in Nat
      PROVE  Faithful(obs, o)'
      BY <1>2, FaithfulKept
<1>3. ASSUME NEW o \in Onus
      PROVE  Faithful(Nothing, o)'
      BY <1>0, <1>2, NothingSeen, NothingFaithful
<1>4. ASSUME NEW o \in Onus, flight'[o].st = "read"
      PROVE  Faithful(flight[o].obs, o)'
  <2>1. CASE flight'[o] = flight[o]
    <3>1. PICK obs : obs = flight[o].obs
          OBVIOUS
    <3>2. Faithful(obs, o) /\ obs.ver \in Nat
          BY <1>4, <2>1, <3>1, PipelineAssumption
             DEF ReadingsInv, TypeOK, Flights, Observations, Versions
    <3>3. Faithful(obs, o)' /\ flight'[o].obs = obs
          BY <1>2, <2>1, <3>1, <3>2
    <3>4. QED  BY <3>3 DEF Faithful
  <2>2. ASSUME NEW obs \in {Nothing, Blank, Observe(o)}, flight'[o] = [st |-> "read", obs |-> obs]
        PROVE  Faithful(flight[o].obs, o)'
    <3>1. PICK x : x = obs
          OBVIOUS
    <3>2. Faithful(x, o)
          BY <1>0, <3>1, NothingFaithful
    <3>3. x.ver \in Nat
      <4>1. Observe(o).ver = ver[o]
            BY DEF Observe
      <4>2. QED  BY <1>0, <3>1, <4>1, NothingSeen
    <3>4. Faithful(x, o)' /\ flight'[o].obs = x
          BY <1>2, <2>2, <3>1, <3>2, <3>3
    <3>5. QED  BY <3>4 DEF Faithful
  <2>3. CASE flight'[o] = Asking \/ flight'[o] = NoFlight
        BY <1>4, <2>3 DEF Asking, NoFlight
  <2>4. QED  BY <2>1, <2>2, <2>3, FlightChange
<1>5. ASSUME NEW p \in Procs
      PROVE  /\ Faithful(got[p], onu[p])'
             /\ got'[p].ver <= SeenVer(onu[p])'
             /\ pc'[p] # "got" => got'[p] = Nothing
  <2>0. /\ got[p].ver \in Nat /\ Faithful(got[p], onu[p]) /\ onu[p] \in Onus
        /\ got[p].ver <= SeenVer(onu[p])
        /\ pc[p] # "got" => got[p] = Nothing
        BY PipelineAssumption DEF ReadingsInv, TypeOK, Observations, Versions
  <2>1. onu'[p] \in Onus
        BY TypeStep DEF TypeOK
  <2>a. PICK o \in Onus : o = onu'[p]
        BY <2>1
  <2>b. PICK obs : obs = got'[p]
        OBVIOUS
  <2>2. SeenVer(o)' \in Nat /\ SeenVer(o) \in Nat /\ SeenVer(o) <= SeenVer(o)'
        BY SeenStep
  <2>3. CASE obs = Nothing
    <3>1. Faithful(obs, o)' /\ obs.ver <= SeenVer(o)'
          BY <1>3, <2>2, <2>3, NothingSeen
    <3>2. QED  BY <2>a, <2>b, <2>3, <3>1 DEF Faithful, SeenVer
  <2>4. CASE Keeps(p)
    <3>1. obs = got[p] /\ o = onu[p]
          BY <2>a, <2>b, <2>4 DEF Keeps
    <3>2. Faithful(obs, o)' /\ obs.ver <= SeenVer(o)'
          BY <1>2, <2>0, <2>2, <3>1
    <3>3. pc'[p] # "got" => got'[p] = Nothing
          BY <2>0, <2>4 DEF Keeps
    <3>4. QED  BY <2>a, <2>b, <3>2, <3>3 DEF Faithful, SeenVer
  <2>5. CASE Forgets(p) \/ Starts(p)
        BY <2>0, <2>a, <2>b, <2>3, <2>5 DEF Forgets, Starts
  <2>6. CASE Returns(p)
    <3>1. obs = flight[o].obs /\ flight[o].st = "read" /\ ver'[o] = ver[o] /\ pc'[p] = "got"
          /\ flight'[o] = NoFlight
          BY <2>a, <2>b, <2>6 DEF Returns
    <3>2. Faithful(obs, o) /\ obs.ver \in Nat
          BY <3>1, PipelineAssumption DEF ReadingsInv, TypeOK, Flights, Observations, Versions
    <3>3. SeenVer(o)' = ver[o]
          BY <3>1 DEF SeenVer, NoFlight
    <3>4. Faithful(obs, o)' /\ obs.ver <= SeenVer(o)'
          BY <1>2, <3>2, <3>3 DEF Faithful
    <3>5. QED  BY <2>a, <2>b, <3>1, <3>4 DEF Faithful, SeenVer
  <2>7. QED  BY <2>4, <2>5, <2>6, LookupChange
<1>6. ASSUME NEW k \in Scanners, NEW r \in scan'[k]
      PROVE  Faithful(r.obs, r.onu)'
  <2>1. \/ r \in scan[k]
        \/ \E o \in Onus : r = [onu |-> o, obs |-> Observe(o)]
    <3>1. ASSUME NEW j \in Scanners, ScanRead(j)
          PROVE  r \in scan[k] \/ \E o \in Onus : r = [onu |-> o, obs |-> Observe(o)]
          BY <1>6, <3>1 DEF ScanRead, TypeOK
    <3>2. ASSUME NEW j \in Scanners, ScanOnu(j)
          PROVE  r \in scan[k]
          BY <1>6, <3>2 DEF ScanOnu, ScanOnuOf, TypeOK
    <3>3. QED  BY <3>1, <3>2, Frame
  <2>2. PICK obs, o : obs = r.obs /\ o = r.onu
        OBVIOUS
  <2>3. CASE r \in scan[k]
    <3>1. o \in Onus /\ obs.ver \in Nat /\ Faithful(obs, o)
          BY <2>2, <2>3, PipelineAssumption DEF ReadingsInv, TypeOK, Observations, Versions
    <3>2. QED  BY <1>2, <2>2, <3>1
  <2>4. ASSUME NEW u \in Onus, r = [onu |-> u, obs |-> Observe(u)]
        PROVE  Faithful(r.obs, r.onu)'
    <3>1. o = u /\ obs = Observe(u)
          BY <2>2, <2>4
    <3>2. Faithful(obs, o) /\ obs.ver \in Nat
          BY <1>0, <3>1, NothingFaithful DEF Observe
    <3>3. QED  BY <1>2, <2>2, <3>1, <3>2
  <2>5. QED  BY <2>1, <2>3, <2>4
<1>7. QED  BY <1>1, <1>4, <1>5, <1>6 DEF ReadingsInv

--------------------------------------------------------------------------------
(* Queued, notified and listed observations.                               *)

\* Where the number in an entry comes from.
LEMMA EntryVer ==
    ASSUME TypeOK, [Next]_vars, NEW s \in Severities, NEW o \in Onus
    PROVE  \/ queue'[s][o].ver = queue[s][o].ver
           \/ queue'[s][o] = NoEntry
           \/ s = "Medium"
           \/ onu["handler"] = o /\ queue'[s][o].ver = got["handler"].ver
           \/ s \in Flushed /\ \E e \in list[s] : e.onu = o /\ queue'[s][o].ver = e.ver
<1>a. ASSUME NEW u \in Onus, NEW t, NEW v, queue' = Added(u, t, v)
      PROVE  \/ queue'[s][o].ver = queue[s][o].ver
             \/ queue'[s][o] = NoEntry
             \/ s = eventSeverity(t) /\ u = o /\ queue'[s][o].ver = v
  <2>1. queue'[s][o] =
                  IF o # u THEN queue[s][o]
                  ELSE IF s # eventSeverity(t) THEN NoEntry
                  ELSE [in |-> TRUE, type |-> t, ver |-> v,
                        last |-> IF queue[s][u].in THEN queue[s][u].last ELSE "never"]
        BY <1>a, AddedFacts
  <2>2. QED  BY <2>1
<1>1. CASE HandleEvent
  <2>1. onu["handler"] \in Onus
        BY ConstantTypes DEF TypeOK
  <2>2. \/ queue' = queue
        \/ queue' = Added(onu["handler"], TypeOf(got["handler"]), got["handler"].ver)
        \/ queue' = Removed(onu["handler"])
        BY <1>1 DEF HandleEvent
  <2>3. CASE queue' = Removed(onu["handler"])
        BY <2>3 DEF Removed, TypeOK
  <2>4. QED  BY <1>a, <2>1, <2>2, <2>3
<1>2. ASSUME NEW r \in Flushed, FlushCleanup(r)
      PROVE  queue'[s][o].ver = queue[s][o].ver \/ queue'[s][o] = NoEntry
      BY <1>2, TakenFacts, PipelineAssumption DEF FlushCleanup
<1>3. ASSUME NEW r \in Flushed, FlushMark(r)
      PROVE  \/ queue'[s][o].ver = queue[s][o].ver
             \/ queue'[s][o] = NoEntry
             \/ s \in Flushed /\ \E e \in list[s] : e.onu = o /\ queue'[s][o].ver = e.ver
  <2>1. queue' = Marked(r)
        BY <1>3 DEF FlushMark
  <2>2. CASE s = r /\ \E e \in list[r] : e.onu = o
    <3>1. Event(r, o) \in list[r] /\ Event(r, o).onu = o
          BY <2>2, EventFacts
    <3>2. \/ queue'[s][o] = queue[s][o]
          \/ queue'[s][o] = NoEntry
          \/ queue'[s][o] = [in |-> TRUE, type |-> Event(r, o).type, last |-> "recent",
                             ver |-> Event(r, o).ver]
          BY <2>1, <2>2, MarkedFacts
    <3>3. QED  BY <2>2, <3>1, <3>2
  <2>3. CASE ~(s = r /\ \E e \in list[r] : e.onu = o)
        BY <2>1, <2>3, MarkedFacts
  <2>4. QED  BY <2>2, <2>3
<1>4. ASSUME NEW r \in Severities, NEW u \in Onus, RepeatElapses(r, u)
      PROVE  queue'[s][o].ver = queue[s][o].ver
      BY <1>4, RepeatFacts
<1>5. ASSUME NEW k \in Scanners, ScanOnu(k)
      PROVE  \/ queue'[s][o].ver = queue[s][o].ver
             \/ queue'[s][o] = NoEntry
             \/ s = "Medium"
  <2>1. PICK r \in scan[k] : ScanOnuOf(k, r)
        BY <1>5 DEF ScanOnu
  <2>2. r.onu \in Onus
        BY DEF TypeOK
  <2>3. \/ queue' = queue
        \/ /\ PowerEvent(r.obs.rx) # "none"
           /\ queue' = Added(r.onu, PowerEvent(r.obs.rx), r.obs.ver)
        BY <2>1 DEF ScanOnuOf
  <2>4. QED  BY <1>a, <2>2, <2>3, PowerEventType
<1>6. QED  BY <1>1, <1>2, <1>3, <1>4, <1>5, OtherSteps DEF QueueStep

\* A notification is remembered, or forgotten with the entry it was about, until the
\* next one.
LEMMA ToldVer ==
    ASSUME TypeOK, [Next]_vars, NEW s \in Severities, NEW o \in Onus
    PROVE  \/ told'[s][o].ver = told[s][o].ver
           \/ told'[s][o] = NotTold
           \/ /\ s \in Flushed /\ FlushMark(s)
              /\ \E e \in list[s] : e.onu = o /\ told'[s][o].ver = e.ver
<1>a. ASSUME NEW U, told' = Untold(U)
      PROVE  told'[s][o] = told[s][o] \/ told'[s][o] = NotTold
      BY <1>a DEF Untold
<1>1. CASE HandleEvent
      BY <1>a, <1>1 DEF HandleEvent
<1>2. ASSUME NEW r \in Flushed, FlushCleanup(r)
      PROVE  told'[s][o] = told[s][o] \/ told'[s][o] = NotTold
      BY <1>a, <1>2 DEF FlushCleanup
<1>3. ASSUME NEW r \in Flushed, FlushMark(r)
      PROVE  \/ told'[s][o].ver = told[s][o].ver
             \/ /\ s \in Flushed /\ FlushMark(s)
                /\ \E e \in list[s] : e.onu = o /\ told'[s][o].ver = e.ver
  <2>1. told' = [told EXCEPT ![r] =
                  [u \in Onus |->
                     IF \E e \in list[r] : e.onu = u
                     THEN [ver |-> Event(r, u).ver, recent |-> TRUE] ELSE told[r][u]]]
        BY <1>3 DEF FlushMark
  <2>2. CASE s = r /\ \E e \in list[r] : e.onu = o
    <3>1. Event(r, o) \in list[r] /\ Event(r, o).onu = o
          BY <2>2, EventFacts
    <3>2. told'[s][o] = [ver |-> Event(r, o).ver, recent |-> TRUE]
          BY <2>1, <2>2 DEF TypeOK
    <3>3. QED  BY <1>3, <2>2, <3>1, <3>2
  <2>3. CASE ~(s = r /\ \E e \in list[r] : e.onu = o)
        BY <2>1, <2>3 DEF TypeOK
  <2>4. QED  BY <2>2, <2>3
<1>4. ASSUME NEW r \in Severities, NEW u \in Onus, RepeatElapses(r, u)
      PROVE  told'[s][o].ver = told[s][o].ver
      BY <1>4, RepeatFacts
<1>5. ASSUME NEW k \in Scanners, ScanOnu(k)
      PROVE  told'[s][o] = told[s][o] \/ told'[s][o] = NotTold
  <2>1. PICK r \in scan[k] : ScanOnuOf(k, r)
        BY <1>5 DEF ScanOnu
  <2>2. told' = told \/ told' = Untold({r.onu})
        BY <2>1 DEF ScanOnuOf
  <2>3. QED  BY <1>a, <2>2
<1>6. QED  BY <1>1, <1>2, <1>3, <1>4, <1>5, OtherSteps DEF QueueStep

\* What a flush lists or drops has been seen.
LEMMA VerdictSeen ==
    ASSUME TypeOK, ReadingsInv, NEW s \in Flushed, FlushType(s, got[s]) # "none"
    PROVE  got[s].ver \in Nat /\ got[s].ver >= 1
<1>1. s \in Procs
      BY DEF Procs
<1>2. got[s].ver \in Nat
      BY <1>1, PipelineAssumption DEF TypeOK, Observations, Versions
<1>3. got[s].ver # 0
      BY <1>1, FlushTypes DEF ReadingsInv, Faithful
<1>4. QED  BY <1>2, <1>3

\* At the start nothing is queued and nothing was told.
LEMMA AgesInit == Init => AgesInv
<1> SUFFICES ASSUME Init PROVE AgesInv
    OBVIOUS
<1>1. \A o \in Onus : SeenVer(o) = 1
      BY DEF Init, SeenVer, NoFlight
<1>2. \A s \in Severities, o \in Onus : queue[s][o].ver = 0 /\ told[s][o].ver = 0
      BY DEF Init, NoEntry, NotTold
<1>3. \A s \in Flushed : list[s] = {}
      BY DEF Init
<1>4. \A s \in Flushed : pc[s] = "idle"
      BY DEF Init, Procs
<1>5. QED  BY <1>1, <1>2, <1>3, <1>4 DEF AgesInv

\* Every step keeps entries, lists and verdicts no newer than what the lookups return next.
LEMMA AgesStep == TypeOK /\ ReadingsInv /\ AgesInv /\ [Next]_vars => AgesInv'
<1> SUFFICES ASSUME TypeOK, ReadingsInv, AgesInv, [Next]_vars PROVE AgesInv'
    OBVIOUS
<1>0. ASSUME NEW o \in Onus, NEW n \in Nat, n <= SeenVer(o)
      PROVE  n <= SeenVer(o)'
      BY <1>0, SeenStep
<1>a. \A o \in Onus : 0 <= SeenVer(o)'
      BY SeenStep
<1>b. \A s \in Severities, o \in Onus : queue[s][o].ver \in Nat /\ told[s][o].ver \in Nat
      BY PipelineAssumption DEF TypeOK, Entries, Tellings, Versions
<1>c. \A s \in Flushed : \A e \in list[s] : e.onu \in Onus /\ e.ver \in Nat
      BY PipelineAssumption DEF TypeOK, Versions
<1>d. \A p \in Procs : onu[p] \in Onus /\ got[p].ver \in Nat /\ got[p].ver <= SeenVer(onu[p])
      BY PipelineAssumption DEF ReadingsInv, TypeOK, Observations, Versions
<1>1. ASSUME NEW s \in Severities, NEW o \in Onus, s # "Medium"
      PROVE  queue'[s][o].ver <= SeenVer(o)'
  <2>1. CASE queue'[s][o].ver = queue[s][o].ver
        BY <1>0, <1>1, <1>b, <2>1 DEF AgesInv
  <2>2. CASE queue'[s][o] = NoEntry
        BY <1>a, <2>2 DEF NoEntry
  <2>3. CASE onu["handler"] = o /\ queue'[s][o].ver = got["handler"].ver
        BY <1>0, <1>d, <2>3, ConstantTypes
  <2>4. ASSUME s \in Flushed, NEW e \in list[s], e.onu = o, queue'[s][o].ver = e.ver
        PROVE  queue'[s][o].ver <= SeenVer(o)'
        BY <1>0, <1>c, <2>4 DEF AgesInv
  <2>5. QED  BY <1>1, <2>1, <2>2, <2>3, <2>4, EntryVer
<1>2. ASSUME NEW s \in Severities, NEW o \in Onus
      PROVE  told'[s][o].ver <= SeenVer(o)'
  <2>1. CASE told'[s][o].ver = told[s][o].ver
        BY <1>0, <1>b, <2>1 DEF AgesInv
  <2>2. CASE told'[s][o] = NotTold
        BY <1>a, <2>2 DEF NotTold
  <2>3. ASSUME s \in Flushed, NEW e \in list[s], e.onu = o, told'[s][o].ver = e.ver
        PROVE  told'[s][o].ver <= SeenVer(o)'
        BY <1>0, <1>c, <2>3 DEF AgesInv
  <2>4. QED  BY <2>1, <2>2, <2>3, ToldVer
<1>3. ASSUME NEW s \in Flushed, NEW e \in list'[s]
      PROVE  e.ver >= 1 /\ e.ver <= SeenVer(e.onu)'
  <2>1. CASE e \in list[s]
    <3>1. PICK o \in Onus, n \in Nat : e.onu = o /\ e.ver = n
          BY <1>c, <2>1
    <3>2. n >= 1 /\ n <= SeenVer(o)
          BY <2>1, <3>1 DEF AgesInv
    <3>3. QED  BY <1>0, <3>1, <3>2 DEF SeenVer
  <2>2. CASE e \notin list[s]
    <3>1. /\ FlushType(s, got[s]) # "none" /\ s \in Procs
          /\ e = [onu |-> onu[s], type |-> FlushType(s, got[s]), ver |-> got[s].ver]
          BY <2>2, ListChange DEF Procs
    <3>2. PICK o \in Onus, n \in Nat : onu[s] = o /\ got[s].ver = n
          BY <1>d, <3>1
    <3>3. e.onu = o /\ e.ver = n
          BY <3>1, <3>2
    <3>4. n >= 1 /\ n <= SeenVer(o)
          BY <1>d, <3>1, <3>2, VerdictSeen
    <3>5. QED  BY <1>0, <3>3, <3>4 DEF SeenVer
  <2>3. QED  BY <2>1, <2>2
<1>4. ASSUME NEW s \in Flushed \ {"Medium"}
      PROVE  /\ pc'[s] = "wait" => asked'[s].entry <= SeenVer(onu[s])'
             /\ pc'[s] = "got" /\ got'[s].ver # 0 => asked'[s].entry <= got'[s].ver
  <2>0. s \in Procs /\ s \in Severities
        BY PipelineAssumption DEF Procs
  <2>1. CASE Keeps(s)
    <3>1. PICK o \in Onus, n \in Nat : onu[s] = o /\ asked[s].entry = n
          BY <2>0, PipelineAssumption DEF TypeOK, Askings, Versions
    <3>2. onu'[s] = o /\ asked'[s].entry = n /\ got'[s] = got[s]
          BY <2>1, <3>1 DEF Keeps
    <3>3. pc'[s] \in {"wait", "got"} => pc'[s] = pc[s]
          BY <2>1 DEF Keeps
    <3>4. pc[s] = "wait" => n <= SeenVer(o)'
          BY <1>0, <3>1 DEF AgesInv
    <3>5. QED  BY <3>1, <3>2, <3>3, <3>4 DEF AgesInv, SeenVer
  <2>2. CASE Forgets(s)
        BY <2>2 DEF Forgets
  <2>3. CASE Starts(s)
    <3>1. PICK o \in Onus : onu'[s] = o
          BY <2>3 DEF Starts
    <3>2. asked'[s].entry = queue[s][o].ver
          BY <2>3, <3>1 DEF Starts
    <3>3. queue[s][o].ver <= SeenVer(o)'
          BY <1>0, <1>b, <2>0 DEF AgesInv
    <3>4. got'[s].ver = 0
          BY <2>0, <2>3, NothingSeen DEF Starts, ReadingsInv
    <3>5. QED  BY <3>1, <3>2, <3>3, <3>4 DEF SeenVer
  <2>4. CASE Returns(s)
    <3>1. /\ pc[s] = "wait" /\ pc'[s] = "got" /\ asked'[s] = asked[s]
          /\ flight[onu[s]].st = "read" /\ got'[s] = flight[onu[s]].obs
          BY <2>4 DEF Returns
    <3>2. got'[s].ver # 0 => got'[s].ver = SeenVer(onu[s])
          BY <3>1 DEF SeenVer
    <3>3. QED  BY <3>1, <3>2 DEF AgesInv
  <2>5. QED  BY <2>0, <2>1, <2>2, <2>3, <2>4, LookupChange
<1>5. QED  BY <1>1, <1>2, <1>3, <1>4 DEF AgesInv

\* What is to be dropped was so before, or has just been verified.
LEMMA DropChange ==
    ASSUME TypeOK, [Next]_vars, NEW s \in Flushed, NEW d \in drop'[s]
    PROVE  \/ d \in drop[s]
           \/ /\ FlushType(s, got[s]) = "none"
              /\ d = [onu |-> onu[s], ver |-> got[s].ver]
<1>1. CASE HandleEvent
      BY <1>1 DEF HandleEvent, flushVars
<1>2. ASSUME NEW o \in Onus, ClientGet(o) \/ FetchStep(o) \/ Receive(o)
      PROVE  drop' = drop
      BY <1>2 DEF ClientGet, FetchStep, SnmpRead, FlightReturn, Receive, flushVars
<1>3. ASSUME NEW r \in Flushed,
             FlushBegin(r) \/ FlushRead(r) \/ FlushMark(r) \/ FlushSend(r)
      PROVE  drop' = drop
      BY <1>3 DEF FlushBegin, FlushRead, FlushMark, FlushSend, flushVars
<1>4. ASSUME NEW r \in Flushed, FlushCleanup(r)
      PROVE  d \in drop[s]
      BY <1>4 DEF FlushCleanup, TypeOK
<1>5. ASSUME NEW r \in Flushed, FlushVerdict(r)
      PROVE  \/ d \in drop[s]
             \/ /\ FlushType(s, got[s]) = "none"
                /\ d = [onu |-> onu[s], ver |-> got[s].ver]
  <2>1. \/ drop' = drop
        \/ /\ FlushType(r, got[r]) = "none"
           /\ drop' = [drop EXCEPT ![r] = @ \cup {[onu |-> onu[r], ver |-> got[r].ver]}]
        BY <1>5 DEF FlushVerdict
  <2>2. drop \in [Flushed -> SUBSET [onu : Onus, ver : Versions]]
        BY DEF TypeOK
  <2>3. QED  BY <2>1, <2>2
<1>6. QED  BY <1>1, <1>2, <1>3, <1>4, <1>5, Frame DEF FlushStep

\* The list that is being sent is given up with the sending.
LEMMA SendEnds ==
    ASSUME TypeOK, [Next]_vars, NEW s \in Flushed, pc[s] = "send", NEW e \in list'[s]
    PROVE  pc'[s] = "send"
<1>1. s \in Procs /\ s # "handler"
      BY ConstantTypes
<1>2. ASSUME NEW r \in Flushed, FlushStep(r)
      PROVE  pc'[s] = "send"
  <2>1. CASE r = s
    <3>1. FlushSend(s)
          BY <1>2, <2>1 DEF FlushStep, FlushBegin, FlushRead, FlushVerdict, FlushCleanup, FlushMark
    <3>2. list'[s] = {}
          BY <3>1 DEF FlushSend, TypeOK
    <3>3. QED  BY <3>2
  <2>2. CASE r # s
    <3>1. r \in Procs
          BY DEF Procs
    <3>2. pc' = pc \/ \E x : pc' = [pc EXCEPT ![r] = x]
          BY <1>2 DEF FlushStep, FlushBegin, FlushRead, StartFetch, FlushVerdict, FlushCleanup,
                      FlushMark, FlushSend
    <3>3. QED  BY <1>1, <2>2, <3>1, <3>2 DEF TypeOK
  <2>3. QED  BY <2>1, <2>2
<1>3. ASSUME NEW o \in Onus, ClientGet(o) \/ FetchStep(o) \/ Receive(o)
      PROVE  pc'[s] = "send"
      BY <1>1, <1>3 DEF ClientGet, FetchStep, SnmpRead, FlightReturn, Receive, StartFetch, TypeOK
<1>4. CASE HandleEvent
      BY <1>1, <1>4 DEF HandleEvent, TypeOK
<1>5. QED  BY <1>2, <1>3, <1>4, Frame

\* At the start no flush has anything in its list.
LEMMA ToldInit == Init => ToldInv /\ DropInv
  BY DEF Init, ToldInv, DropInv, Procs

\* Every step keeps notifications in the order of what they are about.
LEMMA ToldStep == TypeOK /\ ReadingsInv /\ AgesInv /\ ToldInv /\ [Next]_vars => ToldInv'
<1> SUFFICES ASSUME TypeOK, ReadingsInv, AgesInv, ToldInv, [Next]_vars,
                    NEW s \in Flushed
             PROVE  /\ pc'[s] # "send" => \A e \in list'[s] : told'[s][e.onu].ver <= e.ver
                    /\ pc'[s] = "got" /\ got'[s].ver # 0 => told'[s][onu'[s]].ver <= got'[s].ver
    BY DEF ToldInv
<1>0. s \in Procs /\ s \in Severities
      BY PipelineAssumption DEF Procs
<1>1. \A o \in Onus : told[s][o].ver \in Nat
      BY <1>0, PipelineAssumption DEF TypeOK, Tellings, Versions
<1>2. FlushMark(s) => pc'[s] = "send"
      BY <1>0 DEF FlushMark, TypeOK
<1>3. ASSUME NEW o \in Onus, NEW n \in Nat, told[s][o].ver <= n, ~FlushMark(s)
      PROVE  told'[s][o].ver <= n
      BY <1>0, <1>1, <1>3, ToldVer DEF NotTold
<1>4. ASSUME pc'[s] # "send", NEW e \in list'[s]
      PROVE  told'[s][e.onu].ver <= e.ver
  <2>1. CASE e \in list[s]
    <3>1. e.onu \in Onus /\ e.ver \in Nat
          BY <2>1, PipelineAssumption DEF TypeOK, Versions
    <3>2. pc[s] # "send"
          BY <1>4, SendEnds
    <3>3. told[s][e.onu].ver <= e.ver
          BY <2>1, <3>2 DEF ToldInv
    <3>4. QED  BY <1>2, <1>3, <1>4, <3>1, <3>3
  <2>2. CASE e \notin list[s]
    <3>1. /\ FlushVerdict(s) /\ FlushType(s, got[s]) # "none"
          /\ e = [onu |-> onu[s], type |-> FlushType(s, got[s]), ver |-> got[s].ver]
          BY <2>2, ListChange
    <3>2. pc[s] = "got" /\ told' = told
          BY <3>1 DEF FlushVerdict, ghosts
    <3>3. got[s].ver # 0
          BY <3>1, VerdictSeen
    <3>4. told[s][onu[s]].ver <= got[s].ver
          BY <3>2, <3>3 DEF ToldInv
    <3>5. QED  BY <3>1, <3>2, <3>4
  <2>3. QED  BY <2>1, <2>2
<1>5. ASSUME pc'[s] = "got", got'[s].ver # 0
      PROVE  told'[s][onu'[s]].ver <= got'[s].ver
  <2>1. ~FlushMark(s) /\ ~Forgets(s)
        BY <1>2, <1>5 DEF Forgets
  <2>2. ~Starts(s)
        BY <1>0, <1>5, NothingSeen DEF Starts, ReadingsInv
  <2>3. onu[s] \in Onus /\ got'[s].ver \in Nat
        BY <1>0, TypeStep, PipelineAssumption DEF TypeOK, Observations, Versions
  <2>4. CASE Keeps(s)
    <3>1. pc[s] = "got" /\ got'[s] = got[s] /\ onu'[s] = onu[s]
          BY <1>5, <2>4 DEF Keeps
    <3>2. told[s][onu[s]].ver <= got'[s].ver
          BY <1>5, <3>1 DEF ToldInv
    <3>3. QED  BY <1>3, <2>1, <2>3, <3>1, <3>2
  <2>5. CASE Returns(s)
    <3>1. /\ onu'[s] = onu[s]
          /\ flight[onu[s]].st = "read" /\ got'[s] = flight[onu[s]].obs
          BY <2>5 DEF Returns
    <3>2. got'[s].ver = SeenVer(onu[s])
          BY <1>5, <3>1 DEF SeenVer
    <3>3. told[s][onu[s]].ver <= got'[s].ver
          BY <1>0, <2>3, <3>2 DEF AgesInv
    <3>4. QED  BY <1>3, <2>1, <2>3, <3>1, <3>3
  <2>6. QED  BY <1>0, <2>1, <2>2, <2>4, <2>5, LookupChange
<1>6. QED  BY <1>4, <1>5

\* Every step keeps a reason for each entry that a flush is going to drop.
LEMMA DropStep == TypeOK /\ ReadingsInv /\ DropInv /\ [Next]_vars => DropInv'
<1> SUFFICES ASSUME TypeOK, ReadingsInv, DropInv, [Next]_vars,
                    NEW s \in Flushed, NEW d \in drop'[s]
             PROVE  /\ d.ver <= ver'[d.onu]
                    /\ d.ver = ver'[d.onu] => FlushType(s, Observe(d.onu)') = "none"
    BY DEF DropInv
<1>1. ASSUME NEW o \in Onus, d.onu = o, d.ver \in Nat, d.ver <= ver[o],
             d.ver = ver[o] => FlushType(s, Observe(o)) = "none"
      PROVE  /\ d.ver <= ver'[d.onu]
             /\ d.ver = ver'[d.onu] => FlushType(s, Observe(d.onu)') = "none"
  <2>1. d.ver <= ver'[o]
        BY <1>1, VerStep
  <2>2. ASSUME d.ver = ver'[o]
        PROVE  FlushType(s, Observe(o)') = "none"
    <3>1. ver'[o] = ver[o] /\ cond'[o] = cond[o]
          BY <1>1, <2>2, VerStep
    <3>2. Observe(o)' = Observe(o)
          BY <3>1 DEF Observe
    <3>3. QED  BY <1>1, <2>2, <3>1, <3>2
  <2>3. QED  BY <1>1, <2>1, <2>2 DEF Observe
<1>2. CASE d \in drop[s]
      BY <1>1, <1>2, PipelineAssumption DEF DropInv, TypeOK, Versions
<1>3. CASE d \notin drop[s]
  <2>1. /\ FlushType(s, got[s]) = "none"
        /\ d = [onu |-> onu[s], ver |-> got[s].ver]
        BY <1>3, DropChange
  <2>2. /\ got[s].ver \in Nat /\ onu[s] \in Onus /\ Faithful(got[s], onu[s])
    <3>1. s \in Procs
          BY DEF Procs
    <3>2. got[s].ver \in Nat /\ onu[s] \in Onus
          BY <3>1, PipelineAssumption DEF TypeOK, Observations, Versions
    <3>3. Faithful(got[s], onu[s])
          BY <3>1 DEF ReadingsInv
    <3>4. QED  BY <3>2, <3>3
  <2>3. PICK o \in Onus, n \in Nat : onu[s] = o /\ got[s].ver = n
        BY <2>2
  <2>4. d.onu = o /\ d.ver = n
        BY <2>1, <2>3
  <2>5. n <= ver[o] /\ (n = ver[o] => FlushType(s, Observe(o)) = "none")
        BY <2>1, <2>2, <2>3 DEF Faithful
  <2>6. QED  BY <1>1, <2>4, <2>5
<1>4. QED  BY <1>2, <1>3

--------------------------------------------------------------------------------
(* A seen outage is lost by one race only.                                 *)

\* The steps that act on the queues, in terms of one ONU.
LEMMA AddedIn ==
    ASSUME TypeOK, NEW u \in Onus, NEW t, NEW v, eventSeverity(t) \in Severities,
           queue' = Added(u, t, v), NEW o \in Onus
    PROVE  /\ u # o => \A s \in Severities : queue'[s][o] = queue[s][o]
           /\ queue'[eventSeverity(t)][u].in
<1>1. ASSUME NEW s \in Severities
      PROVE  queue'[s][o] =
                  IF o # u THEN queue[s][o]
                  ELSE IF s # eventSeverity(t) THEN NoEntry
                  ELSE [in |-> TRUE, type |-> t, ver |-> v,
                        last |-> IF queue[s][u].in THEN queue[s][u].last ELSE "never"]
      BY AddedFacts
<1>2. queue'[eventSeverity(t)][u] =
          [in |-> TRUE, type |-> t, ver |-> v,
           last |-> IF queue[eventSeverity(t)][u].in THEN queue[eventSeverity(t)][u].last
                    ELSE "never"]
      BY AddedFacts
<1>3. queue'[eventSeverity(t)][u].in
      BY <1>2
<1>4. QED  BY <1>1, <1>3

\* Only a trap of the ONU, handled with a reading that succeeded, makes good for a race.
LEMMA UndoneChange ==
    ASSUME [Next]_vars, TypeOK, NEW o \in undone
    PROVE  \/ o \in undone'
           \/ HandleEvent /\ got["handler"].ok /\ onu["handler"] = o
<1>1. ASSUME NEW u \in Onus, ClientGet(u) \/ FetchStep(u) \/ Receive(u)
      PROVE  undone' = undone
      BY <1>1 DEF ClientGet, FetchStep, SnmpRead, FlightReturn, Receive, ghosts
<1>2. ASSUME NEW s \in Flushed, FlushStep(s)
      PROVE  undone \subseteq undone'
      BY <1>2 DEF FlushStep, FlushBegin, FlushRead, FlushVerdict, FlushCleanup, FlushMark,
                  FlushSend, ghosts
<1>3. ASSUME NEW k \in Scanners, ScanOnu(k)
      PROVE  undone \subseteq undone'
  <2>1. PICK r \in scan[k] : ScanOnuOf(k, r)
        BY <1>3 DEF ScanOnu
  <2>2. undone' = undone \/ undone' = undone \cup {r.onu}
        BY <2>1 DEF ScanOnuOf
  <2>3. QED  BY <2>2
<1>4. CASE HandleEvent
      BY <1>4 DEF HandleEvent
<1>5. QED  BY <1>1, <1>2, <1>3, <1>4, Frame

\* An event is not "none", and an alert of the ONU's condition is what a flush of its
\* queue would send.
LEMMA FlushTypeOfAlert ==
    ASSUME NEW o, TypeOf(Observe(o)) \in alertEventTypes
    PROVE  /\ FlushType(eventSeverity(TypeOf(Observe(o))), Observe(o)) # "none"
           /\ PowerEvent(cond[o].rx) # "none" => FlushType("Medium", Observe(o)) # "none"
           /\ eventSeverity(TypeOf(Observe(o))) \in Severities
<1>1. eventSeverity(TypeOf(Observe(o))) \in Severities \ {"Medium"}
      BY AlertSeverity
<1>2. Observe(o).ok /\ Observe(o).rx = cond[o].rx
      BY DEF Observe
<1>3. TypeOf(Observe(o)) # "none"
      BY DEF alertEventTypes
<1>4. QED  BY <1>1, <1>2, <1>3 DEF FlushType

\* What the end of a flush records as told: its own list, as it was read.
LEMMA MarkTold ==
    ASSUME TypeOK, NEW s \in Flushed, FlushMark(s), NEW t \in Severities, NEW o \in Onus
    PROVE  /\ ~(t = s /\ \E e \in list[s] : e.onu = o) => told'[t][o] = told[t][o]
           /\ t = s /\ (\E e \in list[s] : e.onu = o) => told'[t][o].ver = Event(s, o).ver
<1>1. told' = [told EXCEPT ![s] =
                [u \in Onus |->
                   IF \E e \in list[s] : e.onu = u
                   THEN [ver |-> Event(s, u).ver, recent |-> TRUE] ELSE told[s][u]]]
      BY DEF FlushMark
<1>2. CASE t = s /\ \E e \in list[s] : e.onu = o
  <2>1. told'[t][o] = [ver |-> Event(s, o).ver, recent |-> TRUE]
        BY <1>1, <1>2 DEF TypeOK
  <2>2. QED  BY <1>2, <2>1
<1>3. CASE ~(t = s /\ \E e \in list[s] : e.onu = o)
      BY <1>1, <1>3 DEF TypeOK
<1>4. QED  BY <1>2, <1>3

\* A seen outage is known, or undone, after the cleanup of a flush,
LEMMA CleanupKnown ==
    ASSUME TypeOK, ReadingsInv, DropInv, NEW s \in Flushed, FlushCleanup(s),
           NEW o \in Onus, ShouldBeKnown(o), KnownAt(o), o \notin undone'
    PROVE  KnownAt(o)'
<1>0. /\ s \in Severities /\ ver' = ver /\ cond' = cond
      /\ queue' = Taken(s, drop[s]) /\ o \notin Overtaken(s, drop[s])
      /\ told' = Untold(Overtaken(s, drop[s]))
      BY PipelineAssumption DEF FlushCleanup, onuVars
<1>1. Observe(o)' = Observe(o)
      BY <1>0 DEF Observe
<1>2. \A t \in Severities : told'[t][o] = told[t][o]
      BY <1>0 DEF Untold
<1>3. ASSUME queue[s][o].in, NEW d \in drop[s], d.onu = o
      PROVE  FlushType(s, Observe(o)) = "none"
  <2>1. ~(acted[o] > d.ver)
        BY <1>0, <1>3 DEF Overtaken
  <2>2. d.ver <= ver[o] /\ d.ver \in Nat /\ ver[o] \in Nat /\ acted[o] = ver[o]
        BY <1>3, PipelineAssumption DEF DropInv, TypeOK, Versions, ShouldBeKnown
  <2>3. d.ver = ver[o]
        BY <2>1, <2>2
  <2>4. QED  BY <1>3, <2>3 DEF DropInv
<1>4. ASSUME NEW t \in Severities, queue[t][o].in, FlushType(t, Observe(o)) # "none"
      PROVE  queue'[t][o].in
  <2>1. ~(t = s /\ \E d \in drop[s] : d.onu = o)
        BY <1>3, <1>4
  <2>2. QED  BY <1>0, <1>4, <2>1, TakenFacts
<1>5. "Medium" \in Severities
      BY DEF Severities
<1>6. QED  BY <1>0, <1>1, <1>2, <1>4, <1>5, FlushTypeOfAlert DEF KnownAt, ShouldBeKnown

\* after its notified entries are marked,
LEMMA MarkKnown ==
    ASSUME TypeOK, ReadingsInv, AgesInv, ToldInv, NEW s \in Flushed, FlushMark(s),
           NEW o \in Onus, ShouldBeKnown(o), KnownAt(o), o \notin undone'
    PROVE  KnownAt(o)'
<1>0. /\ s \in Severities /\ s \in Procs /\ ver' = ver /\ cond' = cond /\ pc[s] = "mark"
      /\ queue' = Marked(s) /\ (s \notin Repeating => o \notin Overtaken(s, list[s]))
      BY PipelineAssumption DEF FlushMark, onuVars, Procs
<1>1. Observe(o)' = Observe(o)
      BY <1>0 DEF Observe
<1>2. ver[o] \in Nat /\ acted[o] = ver[o]
      BY PipelineAssumption DEF TypeOK, Versions, ShouldBeKnown
<1>3. ASSUME NEW t \in Severities, told[t][o].ver = ver[o]
      PROVE  told'[t][o].ver = ver[o]
  <2>1. CASE t = s /\ \E e \in list[s] : e.onu = o
    <3>1. Event(s, o) \in list[s] /\ Event(s, o).onu = o
          BY <2>1, EventFacts
    <3>2. Event(s, o).ver \in Nat
          BY <3>1, PipelineAssumption DEF TypeOK, Versions
    <3>3. Event(s, o).ver <= SeenVer(o)
          BY <3>1 DEF AgesInv
    <3>4. SeenVer(o) <= ver[o] /\ SeenVer(o) \in Nat
          BY SeenBound
    <3>5. told[s][o].ver <= Event(s, o).ver
          BY <1>0, <3>1 DEF ToldInv
    <3>6. Event(s, o).ver = ver[o]
          BY <1>2, <1>3, <2>1, <3>2, <3>3, <3>4, <3>5
    <3>7. QED  BY <2>1, <3>6, MarkTold
  <2>2. CASE ~(t = s /\ \E e \in list[s] : e.onu = o)
        BY <1>3, <2>2, MarkTold
  <2>3. QED  BY <2>1, <2>2
<1>4. ASSUME NEW t \in Severities, queue[t][o].in
      PROVE  queue'[t][o].in \/ told'[s][o].ver = ver[o]
  <2>1. CASE t = s /\ \E e \in list[s] : e.onu = o
    <3>1. Event(s, o) \in list[s] /\ Event(s, o).onu = o
          BY <2>1, EventFacts
    <3>2. CASE s \in Repeating
      <4>1. Marked(s)[t][o] = [in |-> TRUE, type |-> Event(s, o).type, last |-> "recent",
                               ver |-> Event(s, o).ver]
            BY <1>4, <2>1, <3>2, MarkedFacts
      <4>2. QED  BY <1>0, <4>1
    <3>3. CASE s \notin Repeating
      <4>1. ~(acted[o] > Event(s, o).ver)
            BY <1>0, <1>4, <2>1, <3>1, <3>3 DEF Overtaken
      <4>2. Event(s, o).ver \in Nat /\ Event(s, o).ver <= SeenVer(o)
            BY <3>1, PipelineAssumption DEF TypeOK, Versions, AgesInv
      <4>3. SeenVer(o) <= ver[o] /\ SeenVer(o) \in Nat
            BY SeenBound
      <4>4. Event(s, o).ver = ver[o]
            BY <1>2, <4>1, <4>2, <4>3
      <4>5. QED  BY <1>0, <2>1, <4>4, MarkTold
    <3>4. QED  BY <3>2, <3>3
  <2>2. CASE ~(t = s /\ \E e \in list[s] : e.onu = o)
        BY <1>0, <1>4, <2>2, MarkedFacts
  <2>3. QED  BY <2>1, <2>2
<1>5. "Medium" \in Severities
      BY DEF Severities
<1>6. QED  BY <1>0, <1>1, <1>3, <1>4, <1>5, FlushTypeOfAlert DEF KnownAt, ShouldBeKnown

\* and after the power monitor has queued the ONU.
LEMMA ScanKnown ==
    ASSUME TypeOK, ReadingsInv, NEW k \in Scanners, ScanOnu(k),
           NEW o \in Onus, ShouldBeKnown(o), KnownAt(o), o \notin undone'
    PROVE  KnownAt(o)'
<1>0. ver' = ver /\ cond' = cond
      BY DEF ScanOnu, onuVars
<1>1. Observe(o)' = Observe(o)
      BY <1>0 DEF Observe
<1>2. PICK r \in scan[k] : ScanOnuOf(k, r)
      BY DEF ScanOnu
<1>3. r.onu \in Onus /\ r.obs.ver \in Nat /\ Faithful(r.obs, r.onu)
      BY PipelineAssumption DEF ReadingsInv, TypeOK, Observations, Versions
<1>4. CASE queue' = queue /\ told' = told
      BY <1>0, <1>1, <1>4 DEF KnownAt
<1>5. CASE ~(queue' = queue /\ told' = told)
  <2>1. /\ PowerEvent(r.obs.rx) # "none"
        /\ queue' = Added(r.onu, PowerEvent(r.obs.rx), r.obs.ver)
        /\ IF Undoes(r.onu, r.obs.ver)
           THEN undone' = undone \cup {r.onu} /\ told' = Untold({r.onu})
           ELSE UNCHANGED <<undone, told>>
        BY <1>2, <1>5 DEF ScanOnuOf
  <2>2. eventSeverity(PowerEvent(r.obs.rx)) = "Medium" /\ "Medium" \in Severities
        BY <2>1, PowerEventType DEF Severities
  <2>3. CASE r.onu # o
    <3>1. \A s \in Severities : queue'[s][o] = queue[s][o]
          BY <1>3, <2>1, <2>2, <2>3, AddedIn
    <3>2. \A s \in Severities : told'[s][o] = told[s][o]
          BY <2>1, <2>3 DEF Untold
    <3>3. QED  BY <1>0, <1>1, <2>2, <3>1, <3>2, FlushTypeOfAlert DEF KnownAt, ShouldBeKnown
  <2>4. CASE r.onu = o
    <3>1. ~Undoes(o, r.obs.ver) /\ told' = told
          BY <2>1, <2>4
    <3>2. CASE acted[o] > r.obs.ver
      <4>1. \A s \in Severities : queue[s][o].in => queue'[s][o].in
            BY <3>1, <3>2 DEF Undoes
      <4>2. QED  BY <1>0, <1>1, <2>2, <3>1, <4>1, FlushTypeOfAlert DEF KnownAt, ShouldBeKnown
    <3>3. CASE ~(acted[o] > r.obs.ver)
      <4>1. /\ acted[o] = ver[o] /\ ver[o] \in Nat /\ r.obs.ver <= ver[o]
            /\ r.obs.ver = ver[o] => r.obs = Observe(o)
            BY <1>3, <2>4, PipelineAssumption DEF ShouldBeKnown, TypeOK, Versions, Faithful
      <4>2. r.obs = Observe(o)
            BY <1>3, <3>3, <4>1
      <4>3. PowerEvent(cond[o].rx) # "none"
            BY <2>1, <4>2 DEF Observe
      <4>4. queue'["Medium"][o].in
            BY <1>3, <2>1, <2>2, <2>4, AddedIn
      <4>5. QED  BY <1>0, <4>3, <4>4 DEF KnownAt
    <3>4. QED  BY <3>2, <3>3
  <2>5. QED  BY <2>3, <2>4
<1>6. QED  BY <1>4, <1>5

\* When the handler has acted on the present condition, the ONU is queued.
LEMMA HandleKnown ==
    ASSUME TypeOK, ReadingsInv, HandleEvent, got["handler"].ok,
           NEW o \in Onus, o = onu["handler"], ShouldBeKnown(o)'
    PROVE  KnownAt(o)'
<1>0. /\ ver' = ver /\ cond' = cond /\ acted'[o] = got["handler"].ver
      BY DEF HandleEvent, onuVars, TypeOK
<1>1. Observe(o)' = Observe(o)
      BY <1>0 DEF Observe
<1>2. got["handler"] = Observe(o)
      BY <1>0, ConstantTypes DEF ShouldBeKnown, ReadingsInv, Faithful
<1>3. TypeOf(Observe(o)) \in alertEventTypes
      BY <1>1 DEF ShouldBeKnown
<1>4. queue' = Added(o, TypeOf(Observe(o)), got["handler"].ver)
      BY <1>2, <1>3 DEF HandleEvent
<1>5. queue'[eventSeverity(TypeOf(Observe(o)))][o].in
      BY <1>3, <1>4, AlertSeverity, AddedIn
<1>6. QED  BY <1>1, <1>5 DEF KnownAt

\* Every step keeps an ONU that should be known queued or told, unless a race undid it.
LEMMA KnownStep ==
    TypeOK /\ ReadingsInv /\ AgesInv /\ ToldInv /\ DropInv /\ KnownInv /\ [Next]_vars
        => KnownInv'
<1> SUFFICES ASSUME TypeOK, ReadingsInv, AgesInv, ToldInv, DropInv, KnownInv, [Next]_vars,
                    NEW o \in Onus, ShouldBeKnown(o)', o \notin undone'
             PROVE  KnownAt(o)'
    BY DEF KnownInv
<1>1. CASE HandleEvent /\ got["handler"].ok /\ o = onu["handler"]
      BY <1>1, HandleKnown
<1>2. CASE ~(HandleEvent /\ got["handler"].ok /\ o = onu["handler"])
  <2>1. acted'[o] = acted[o] /\ o \notin undone
        BY <1>2, ActedChange, UndoneChange
  <2>2. ver'[o] = ver[o] /\ cond'[o] = cond[o] /\ acted[o] = ver[o]
    <3>1. acted[o] <= ver[o] /\ acted[o] \in Nat
          BY PipelineAssumption DEF ReadingsInv, TypeOK, Versions
    <3>2. acted'[o] = ver'[o]
          BY DEF ShouldBeKnown
    <3>3. QED  BY <2>1, <3>1, <3>2, VerStep
  <2>3. Observe(o)' = Observe(o)
        BY <2>2 DEF Observe
  <2>4. ShouldBeKnown(o)
        BY <2>2, <2>3 DEF ShouldBeKnown
  <2>5. KnownAt(o)
        BY <2>1, <2>4 DEF KnownInv
  <2>6. CASE \A s \in Severities : queue'[s][o] = queue[s][o] /\ told'[s][o] = told[s][o]
    <3>1. "Medium" \in Severities
          BY DEF Severities
    <3>2. QED  BY <2>2, <2>3, <2>4, <2>5, <2>6, <3>1, FlushTypeOfAlert DEF KnownAt, ShouldBeKnown
  <2>7. CASE HandleEvent
    <3>1. \/ queue' = queue /\ told' = told
          \/ /\ onu["handler"] # o
             /\ \/ /\ TypeOf(got["handler"]) \in alertEventTypes
                   /\ queue' = Added(onu["handler"], TypeOf(got["handler"]), got["handler"].ver)
                \/ queue' = Removed(onu["handler"])
             /\ told' = told \/ told' = Untold({onu["handler"]})
          BY <1>2, <2>7 DEF HandleEvent
    <3>2. onu["handler"] \in Onus
          BY ConstantTypes DEF TypeOK
    <3>3. CASE queue' = queue /\ told' = told
          BY <2>6, <3>3
    <3>4. ASSUME onu["handler"] # o, told' = told \/ told' = Untold({onu["handler"]})
          PROVE  \A s \in Severities : told'[s][o] = told[s][o]
          BY <3>4 DEF Untold
    <3>5. ASSUME onu["handler"] # o, TypeOf(got["handler"]) \in alertEventTypes,
                 queue' = Added(onu["handler"], TypeOf(got["handler"]), got["handler"].ver)
          PROVE  \A s \in Severities : queue'[s][o] = queue[s][o]
          BY <3>2, <3>5, AlertSeverity, AddedIn
    <3>6. ASSUME onu["handler"] # o, queue' = Removed(onu["handler"])
          PROVE  \A s \in Severities : queue'[s][o] = queue[s][o]
          BY <3>6 DEF Removed, TypeOK
    <3>7. QED  BY <2>6, <3>1, <3>3, <3>4, <3>5, <3>6
  <2>8. ASSUME NEW s \in Flushed, FlushCleanup(s) PROVE KnownAt(o)'
        BY <2>4, <2>5, <2>8, CleanupKnown
  <2>9. ASSUME NEW s \in Flushed, FlushMark(s) PROVE KnownAt(o)'
        BY <2>4, <2>5, <2>9, MarkKnown
  <2>10. ASSUME NEW s \in Severities, NEW u \in Onus, RepeatElapses(s, u) PROVE KnownAt(o)'
    <3>1. \A t \in Severities : queue'[t][o].in = queue[t][o].in /\ told'[t][o].ver = told[t][o].ver
          BY <2>10, RepeatFacts
    <3>2. "Medium" \in Severities
          BY DEF Severities
    <3>3. QED  BY <2>2, <2>3, <2>4, <2>5, <3>1, <3>2, FlushTypeOfAlert DEF KnownAt, ShouldBeKnown
  <2>11. ASSUME NEW k \in Scanners, ScanOnu(k) PROVE KnownAt(o)'
         BY <2>4, <2>5, <2>11, ScanKnown
  <2>12. QED  BY <2>6, <2>7, <2>8, <2>9, <2>10, <2>11, OtherSteps DEF QueueStep
<1>3. QED  BY <1>1, <1>2

SeenInv == TypeOK /\ ReadingsInv /\ AgesInv /\ ToldInv /\ DropInv /\ KnownInv

\* The invariant holds at the start.
LEMMA SeenInit == Init => SeenInv
<1>1. Init => KnownInv
      BY DEF Init, KnownInv, ShouldBeKnown
<1>2. QED  BY <1>1, TypeInit, ReadingsInit, AgesInit, ToldInit DEF SeenInv

\* Every step of the handler, batcher, monitor and OLT keeps the invariant.
LEMMA SeenInvStep == SeenInv /\ [Next]_vars => SeenInv'
  BY TypeStep, ReadingsStep, AgesStep, ToldStep, DropStep, KnownStep DEF SeenInv

\* Whatever traps, lookups, flushes and scans overlap: readings are of conditions the ONU
\* has had, no entry is newer than what lookups return next, notifications do not go back,
\* and an ONU that should be known is, unless a named race undid it (batcher.go).
THEOREM SeenAlways == Spec => []SeenInv
  BY SeenInit, SeenInvStep, PTL DEF Spec

\* VerifiedNotOlder: what a flush learns about an ONU is never older than what put it
\* in the queue, although its lookup may join one that others started
\* (GetByBoardIDPonIDAndOnuID and its singleflight).
THEOREM VerifiedNotOlderAlways == Spec => []VerifiedNotOlder
<1>1. SeenInv => VerifiedNotOlder
  <2> SUFFICES ASSUME SeenInv, NEW s \in Flushed \ {"Medium"}, pc[s] = "got", got[s].ver # 0
               PROVE  got[s].ver >= asked[s].entry
      BY DEF VerifiedNotOlder
  <2>1. asked[s].entry <= got[s].ver
        BY DEF SeenInv, AgesInv
  <2>2. s \in Procs
        BY DEF Procs
  <2>3. asked[s].entry \in Nat /\ got[s].ver \in Nat
        BY <2>2, PipelineAssumption DEF SeenInv, TypeOK, Askings, Observations, Versions
  <2>4. QED  BY <2>1, <2>3
<1>2. QED  BY <1>1, SeenAlways, PTL

\* LostOnlyByRace: an outage that the handler has seen is queued or has been notified,
\* unless somebody acting on an older observation took it out of its queue
\* (handler.go, batcher.go, power_monitor.go).
THEOREM LostOnlyByRaceAlways == Spec => []LostOnlyByRace
<1>1. SeenInv => LostOnlyByRace
  <2> SUFFICES ASSUME SeenInv, NEW o \in Onus, ShouldBeKnown(o), o \notin undone
               PROVE  Known(o)
      BY DEF LostOnlyByRace
  <2>1. KnownAt(o)
        BY DEF SeenInv, KnownInv
  <2>2. "Medium" \in Severities /\ eventSeverity(TypeOf(Observe(o))) \in Severities
        BY FlushTypeOfAlert DEF ShouldBeKnown, Severities
  <2>3. QED  BY <2>1, <2>2 DEF KnownAt, Known
<1>2. QED  BY <1>1, SeenAlways, PTL
================================================================================
