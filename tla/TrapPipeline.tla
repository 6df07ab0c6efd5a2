---------------------------- MODULE TrapPipeline ----------------------------
(***************************************************************************)
(* From a trap to a notification: the trap handler (internal/trap/         *)
(* handler.go), the batcher with its flush loop per severity (batcher.go), *)
(* the RX power monitor (power_monitor.go), and what they share: the live  *)
(* ONU read coalesced by singleflight (usecase/onu.go,                     *)
(* GetByBoardIDPonIDAndOnuID) and the shutdown of app/app.go.              *)
(*                                                                         *)
(* The batcher's mutex is held for Add, Remove and four short sections of  *)
(* a flush (take the keys, read an entry, clean up, mark); the SNMP reads  *)
(* between them run unlocked.  Each section is one step here.  gosnmp      *)
(* calls the trap handler from its receive loop, one trap at a time.       *)
(*                                                                         *)
(* An ONU's condition on the OLT is [status, reason, rx].  Every change of *)
(* it gets a number, from 1, and an observation carries the number of what *)
(* it saw, or 0: `ver' is no state of the program, it lets properties speak*)
(* of stale observations.  Time is abstracted to whether an interval has elapsed.   *)
(***************************************************************************)
EXTENDS TrapEvents, FiniteSets

CONSTANTS
    Onus,        \* board/pon/onu keys
    Conditions,  \* conditions an ONU can be in
    Healthy,     \* the condition of every ONU at the start; it may be any
    Flushed,     \* severities with a batch interval > 0
    Repeating,   \* severities with a repeat interval > 0
    Scanners,    \* power scans that may overlap: the ticker's and the cron's
    MaxChanges,  \* bound: changes of condition per ONU
    MaxDups,     \* bound: traps repeated by the OLT or the network
    MaxGets,     \* bound: detail requests of API clients
    MaxFails,    \* bound: SNMP reads that fail
    MaxScans     \* bound: power scans

ASSUME PipelineAssumption ==
    /\ Onus # {}
    /\ Conditions \subseteq [status : Statuses, reason : Reasons, rx : RxClasses]
    /\ Healthy \in Conditions
    /\ Flushed \subseteq Severities /\ Repeating \subseteq Severities
    /\ {MaxChanges, MaxDups, MaxGets, MaxFails, MaxScans} \subseteq Nat

VARIABLES
    phase,    \* "up", "stopping" (batcher.Close), "unplugged" (reg.Close), "exited"
    cond,     \* the condition of each ONU on the OLT
    ver,      \* number of that condition
    pend,     \* ONUs with a trap on its way
    flight,   \* the singleflight call for each ONU
    pc,       \* the handler and the flush loops
    onu,      \* the ONU a process is looking up
    got,      \* the detail its lookup returned
    asked,    \* numbers of the ONU's condition and of its entry at that time
    queue,    \* b.groups
    todo,     \* flush: keys left
    list,     \* flush: list and notifiedKeys
    drop,     \* flush: toRemove
    final,    \* flush loops that have taken the stopCh case
    scan,     \* power scan: the readings left to look at
    alerted,  \* pm.alerted: "never", "recent", "old"
    acted,    \* number of the condition the handler last acted on
    undone,   \* ONUs whose entry was taken away for an older observation
    told,     \* the last notification of each ONU in each severity
    late,     \* ONUs notified again for one condition within the repeat interval
    used      \* how much of each bound is used

onuVars   == <<cond, ver, pend>>
fetchVars == <<flight, onu, got, asked>>
flushVars == <<todo, list, drop, final>>
scanVars  == <<scan, alerted>>
ghosts    == <<acted, undone, told, late>>
vars == <<phase, onuVars, pc, fetchVars, queue, flushVars, scanVars, ghosts, used>>

Procs == {"handler"} \cup Flushed

Nothing   == [ok |-> FALSE, status |-> "", reason |-> "", rx |-> "bad", ver |-> 0]
NoFlight  == [st |-> "none", obs |-> Nothing]
Asking    == [st |-> "asking", obs |-> Nothing]
NoEntry   == [in |-> FALSE, type |-> "Online", last |-> "never", ver |-> 0]
NotAsked  == [now |-> 0, entry |-> 0]
NotTold   == [ver |-> 0, recent |-> FALSE]
Bounds    == [dups |-> 0, gets |-> 0, fails |-> 0, scans |-> 0]

\* What an SNMP read of the ONU returns now.
Observe(o) == [ok |-> TRUE, status |-> cond[o].status, reason |-> cond[o].reason,
               rx |-> cond[o].rx, ver |-> ver[o]]

\* The walk found the ONU but every Get for a field failed: nothing was seen.
Blank == [Nothing EXCEPT !.ok = TRUE]

TypeOf(obs) == resolveEventType(obs.status, obs.reason)

Keys(s) == {o \in Onus : queue[s][o].in}

Spend(field, bound) ==
    /\ used[field] < bound
    /\ used' = [used EXCEPT ![field] = @ + 1]

-----------------------------------------------------------------------------
Init ==
    /\ phase = "up"
    /\ cond = [o \in Onus |-> Healthy]
    /\ ver = [o \in Onus |-> 1]
    /\ pend = {}
    /\ flight = [o \in Onus |-> NoFlight]
    /\ pc = [p \in Procs |-> "idle"]
    /\ onu = [p \in Procs |-> CHOOSE o \in Onus : TRUE]
    /\ got = [p \in Procs |-> Nothing]
    /\ asked = [p \in Procs |-> NotAsked]
    /\ queue = [s \in Severities |-> [o \in Onus |-> NoEntry]]
    /\ todo = [s \in Flushed |-> {}]
    /\ list = [s \in Flushed |-> {}]
    /\ drop = [s \in Flushed |-> {}]
    /\ final = {}
    /\ scan = [k \in Scanners |-> {}]
    /\ alerted = [o \in Onus |-> "never"]
    /\ acted = [o \in Onus |-> 0]
    /\ undone = {}
    /\ told = [s \in Severities |-> [o \in Onus |-> NotTold]]
    /\ late = {}
    /\ used = Bounds

\* The OLT: an ONU's condition changes; a new status is announced by a trap.
Change(o) ==
    /\ ver[o] <= MaxChanges
    /\ \E c \in Conditions \ {cond[o]} :
          /\ cond' = [cond EXCEPT ![o] = c]
          /\ pend' = IF <<c.status, c.reason>> # <<cond[o].status, cond[o].reason>>
                     THEN pend \cup {o} ELSE pend
    /\ ver' = [ver EXCEPT ![o] = @ + 1]
    /\ UNCHANGED <<phase, pc, fetchVars, queue, flushVars, scanVars, ghosts, used>>

\* The OLT or the network repeats a trap.
Duplicate(o) ==
    /\ o \notin pend /\ ver[o] > 1
    /\ Spend("dups", MaxDups)
    /\ pend' = pend \cup {o}
    /\ UNCHANGED <<phase, cond, ver, pc, fetchVars, queue, flushVars, scanVars, ghosts>>

-----------------------------------------------------------------------------
\* GetByBoardIDPonIDAndOnuID through the default OLT: join the call in flight or
\* start one.  Without a default OLT the lookup fails at once.
StartFetch(p, o, entry) ==
    /\ onu' = [onu EXCEPT ![p] = o]
    /\ asked' = [asked EXCEPT ![p] = [now |-> ver[o], entry |-> entry]]
    /\ UNCHANGED got
    /\ IF phase = "unplugged"
       THEN /\ pc' = [pc EXCEPT ![p] = "got"]
            /\ UNCHANGED flight
       ELSE /\ pc' = [pc EXCEPT ![p] = "wait"]
            /\ flight' = IF flight[o].st = "none"
                         THEN [flight EXCEPT ![o] = Asking] ELSE flight

\* The process is done with what its lookup returned.
Forget(p) ==
    /\ got' = [got EXCEPT ![p] = Nothing]
    /\ asked' = [asked EXCEPT ![p] = NotAsked]
    /\ UNCHANGED <<flight, onu>>

\* An API client asks for the detail of an ONU; it may be the first to ask.
ClientGet(o) ==
    /\ phase = "up"
    /\ flight[o].st = "none"
    /\ Spend("gets", MaxGets)
    /\ flight' = [flight EXCEPT ![o] = Asking]
    /\ UNCHANGED <<phase, onuVars, pc, onu, got, asked, queue, flushVars, scanVars, ghosts>>

\* Mutant: the detail may come from a cache that is one change behind.
MutSnmpRead(o) ==
    /\ phase # "exited"
    /\ flight[o].st = "asking"
    /\ \E v \in {ver[o], IF ver[o] > 1 THEN ver[o] - 1 ELSE 1} :
          flight' = [flight EXCEPT ![o] = [st |-> "read", obs |-> [Observe(o) EXCEPT !.ver = v]]]
    /\ UNCHANGED <<phase, onuVars, pc, onu, got, asked, queue, flushVars, scanVars, ghosts, used>>

\* The SNMP exchange: the OLT answers, the walk fails or finds no such ONU, or
\* the walk succeeds and the Gets fail.
SnmpRead(o) ==
    /\ phase # "exited"
    /\ flight[o].st = "asking"
    /\ \/ /\ flight' = [flight EXCEPT ![o] = [st |-> "read", obs |-> Observe(o)]]
          /\ UNCHANGED used
       \/ /\ Spend("fails", MaxFails)
          /\ \E obs \in {Nothing, Blank} :
                flight' = [flight EXCEPT ![o] = [st |-> "read", obs |-> obs]]
    /\ UNCHANGED <<phase, onuVars, pc, onu, got, asked, queue, flushVars, scanVars, ghosts>>

\* The call returns: everyone who joined it gets its result, and the next lookup
\* starts a new one.
FlightReturn(o) ==
    /\ phase # "exited"
    /\ flight[o].st = "read"
    /\ got' = [p \in Procs |-> IF pc[p] = "wait" /\ onu[p] = o THEN flight[o].obs ELSE got[p]]
    /\ pc' = [p \in Procs |-> IF pc[p] = "wait" /\ onu[p] = o THEN "got" ELSE pc[p]]
    /\ flight' = [flight EXCEPT ![o] = NoFlight]
    /\ UNCHANGED <<phase, onuVars, onu, asked, queue, flushVars, scanVars, ghosts, used>>

-----------------------------------------------------------------------------
\* The step takes an entry away on behalf of an observation, numbered v, older than
\* the one that the handler last acted on.
Undoes(o, v) ==
    /\ acted[o] > v
    /\ \E s \in Severities : queue[s][o].in /\ ~queue'[s][o].in

\* The notifications without those of the ONUs in U.
Untold(U) == [s \in Severities |-> [o \in Onus |-> IF o \in U THEN NotTold ELSE told[s][o]]]

\* Mutant: the ONU stays in the queues of other severities.
MutAdded(o, type, v) ==
    [s \in Severities |->
        IF s # eventSeverity(type) THEN queue[s]
        ELSE [queue[s] EXCEPT ![o] =
                 [in |-> TRUE, type |-> type, ver |-> v,
                  last |-> IF @.in THEN @.last ELSE "never"]]]

\* Batcher.Add: out of every other queue; an entry that is there keeps the time
\* of its last notification.
Added(o, type, v) ==
    [s \in Severities |->
        IF s # eventSeverity(type) THEN [queue[s] EXCEPT ![o] = NoEntry]
        ELSE [queue[s] EXCEPT ![o] =
                 [in |-> TRUE, type |-> type, ver |-> v,
                  last |-> IF @.in THEN @.last ELSE "never"]]]

\* Batcher.Remove
Removed(o) == [s \in Severities |-> [queue[s] EXCEPT ![o] = NoEntry]]

\* The handler takes the next trap and looks the ONU up.
Receive(o) ==
    /\ phase = "up"
    /\ pc["handler"] = "idle"
    /\ o \in pend
    /\ pend' = pend \ {o}
    /\ StartFetch("handler", o, 0)
    /\ UNCHANGED <<phase, cond, ver, queue, flushVars, scanVars, ghosts, used>>

\* HandleEvent, after the lookup: nothing is done when it failed; otherwise the
\* ONU is queued or removed, according to what the OLT said.
HandleEvent ==
    LET o == onu["handler"]
        d == got["handler"]
    IN  /\ phase # "exited"
        /\ pc["handler"] = "got"
        /\ pc' = [pc EXCEPT !["handler"] = "idle"]
        /\ IF d.ok
           THEN /\ queue' = IF TypeOf(d) \in alertEventTypes
                            THEN Added(o, TypeOf(d), d.ver) ELSE Removed(o)
                /\ acted' = [acted EXCEPT ![o] = d.ver]
                /\ undone' = undone \ {o}
                /\ told' = IF Undoes(o, d.ver) THEN Untold({o}) ELSE told
           ELSE UNCHANGED <<queue, acted, undone, told>>
        /\ Forget("handler")
        /\ UNCHANGED <<phase, onuVars, flushVars, scanVars, late, used>>

-----------------------------------------------------------------------------
\* Mutant: the loop ends with its first flush.
MutAfterFlush(s, fin) == "stopped"

\* A flush is over: the loop waits for the ticker or, after stopCh, ends.
AfterFlush(s, fin) == IF s \in fin THEN "stopped" ELSE "idle"

\* flushSeverity begins, by the ticker or by stopCh: the keys are copied.
FlushBegin(s) ==
    /\ phase # "exited"
    /\ pc[s] = "idle"
    /\ \E fin \in {final, final \cup {s}} :
          /\ s \in fin => phase # "up"
          /\ s \notin fin => Keys(s) # {}
          /\ final' = fin
          /\ pc' = [pc EXCEPT ![s] = IF Keys(s) = {} THEN AfterFlush(s, fin) ELSE "pick"]
    /\ todo' = [todo EXCEPT ![s] = Keys(s)]
    /\ UNCHANGED <<phase, onuVars, fetchVars, queue, list, drop, scanVars, ghosts, used>>

\* The entry is gone, or was notified and is not due again.
Skip(s, o) ==
    \/ ~queue[s][o].in
    \/ queue[s][o].last # "never" /\ (s \notin Repeating \/ queue[s][o].last = "recent")

\* The next key: read its entry under the lock, then look the ONU up unlocked.
FlushRead(s) ==
    /\ phase # "exited"
    /\ pc[s] = "pick"
    /\ \E o \in todo[s] :
          /\ todo' = [todo EXCEPT ![s] = @ \ {o}]
          /\ IF Skip(s, o) THEN UNCHANGED <<pc, fetchVars>> ELSE StartFetch(s, o, queue[s][o].ver)
    /\ UNCHANGED <<phase, onuVars, queue, list, drop, final, scanVars, ghosts, used>>

\* Mutant: every queue is verified like one of traps, whatever its severity.
MutFlushType(s, d) ==
    IF d.ok /\ TypeOf(d) \in alertEventTypes THEN TypeOf(d) ELSE "none"

\* What the re-verification makes of an entry of queue s: the event to send, or
\* "none" for one that failed, recovered, normalised or changed its severity.
FlushType(s, d) ==
    IF ~d.ok THEN "none"
    ELSE IF s = "Medium" THEN PowerEvent(d.rx)
    ELSE IF TypeOf(d) \in alertEventTypes /\ eventSeverity(TypeOf(d)) = s THEN TypeOf(d)
    ELSE "none"

\* The lookup has returned: into the list, or into toRemove.
FlushVerdict(s) ==
    LET o == onu[s]
        d == got[s]
        t == FlushType(s, d)
    IN  /\ phase # "exited"
        /\ pc[s] = "got"
        /\ pc' = [pc EXCEPT ![s] = "pick"]
        /\ IF t = "none"
           THEN /\ drop' = [drop EXCEPT ![s] = @ \cup {[onu |-> o, ver |-> d.ver]}]
                /\ UNCHANGED list
           ELSE /\ list' = [list EXCEPT ![s] = @ \cup {[onu |-> o, type |-> t, ver |-> d.ver]}]
                /\ UNCHANGED drop
        /\ Forget(s)
        /\ UNCHANGED <<phase, onuVars, queue, todo, final, scanVars, ghosts, used>>

\* Mutant: the ONUs leave every queue, as in Remove.
MutTaken(s, D) ==
    [q \in Severities |->
        [o \in Onus |-> IF \E d \in D : d.onu = o THEN NoEntry ELSE queue[q][o]]]

\* The entries in D leave queue s, whatever has been added to them since.
Taken(s, D) ==
    [queue EXCEPT ![s] = [o \in Onus |-> IF \E d \in D : d.onu = o THEN NoEntry ELSE queue[s][o]]]

\* ONUs whose entry in queue s is taken away for an observation older than the one
\* that the handler last acted on.
Overtaken(s, D) == {d.onu : d \in {e \in D : queue[s][e.onu].in /\ acted[e.onu] > e.ver}}

\* All keys are done: toRemove is deleted under the lock.
FlushCleanup(s) ==
    /\ phase # "exited"
    /\ pc[s] = "pick"
    /\ todo[s] = {}
    /\ queue' = Taken(s, drop[s])
    /\ undone' = undone \cup Overtaken(s, drop[s])
    /\ told' = Untold(Overtaken(s, drop[s]))
    /\ drop' = [drop EXCEPT ![s] = {}]
    /\ pc' = [pc EXCEPT ![s] = IF list[s] = {} THEN AfterFlush(s, final) ELSE "mark"]
    /\ UNCHANGED <<phase, onuVars, fetchVars, todo, list, final, scanVars, acted, late, used>>

\* The event about an ONU in the list: there is one at most.
Event(s, o) == CHOOSE e \in list[s] : e.onu = o

\* Notified entries get the time and the event just verified; without a repeat
\* interval they are deleted.
Marked(s) ==
    IF s \notin Repeating THEN Taken(s, list[s])
    ELSE [queue EXCEPT ![s] =
             [o \in Onus |->
                IF queue[s][o].in /\ \E e \in list[s] : e.onu = o
                THEN [in |-> TRUE, type |-> Event(s, o).type, last |-> "recent",
                      ver |-> Event(s, o).ver]
                ELSE queue[s][o]]]

FlushMark(s) ==
    /\ phase # "exited"
    /\ pc[s] = "mark"
    /\ queue' = Marked(s)
    /\ undone' = IF s \in Repeating THEN undone ELSE undone \cup Overtaken(s, list[s])
    /\ late' = late \cup {<<s, e.onu>> : e \in {x \in list[s] : /\ told[s][x.onu].ver = x.ver
                                                             /\ told[s][x.onu].recent}}
    /\ told' = [told EXCEPT ![s] =
                  [o \in Onus |->
                     IF \E e \in list[s] : e.onu = o
                     THEN [ver |-> Event(s, o).ver, recent |-> TRUE] ELSE told[s][o]]]
    /\ pc' = [pc EXCEPT ![s] = "send"]
    /\ UNCHANGED <<phase, onuVars, fetchVars, flushVars, scanVars, acted, used>>

\* The payload goes to the webhook, with its retries; the loop waits for it.
FlushSend(s) ==
    /\ phase # "exited"
    /\ pc[s] = "send"
    /\ list' = [list EXCEPT ![s] = {}]
    /\ pc' = [pc EXCEPT ![s] = AfterFlush(s, final)]
    /\ UNCHANGED <<phase, onuVars, fetchVars, queue, todo, drop, final, scanVars, ghosts, used>>

\* The repeat interval of a notified ONU passes.
RepeatElapses(s, o) ==
    /\ s \in Repeating
    /\ told[s][o].recent \/ queue[s][o].last = "recent"
    /\ told' = [told EXCEPT ![s][o].recent = FALSE]
    /\ queue' = [queue EXCEPT ![s][o].last = IF @ = "recent" THEN "old" ELSE @]
    /\ UNCHANGED <<phase, onuVars, pc, fetchVars, flushVars, scanVars, acted, undone, late, used>>

-----------------------------------------------------------------------------
\* The power monitor reads the ONUs of a PON; the list may be a cached one, so
\* that the time from here to ScanOnu is also the age of the cache.
ScanRead(k) ==
    /\ phase = "up"
    /\ scan[k] = {}
    /\ Spend("scans", MaxScans)
    /\ scan' = [scan EXCEPT ![k] = {[onu |-> o, obs |-> Observe(o)] : o \in Onus}]
    /\ UNCHANGED <<phase, onuVars, pc, fetchVars, queue, flushVars, alerted, ghosts>>

\* One ONU of the list: shouldAlert and sendAlert, or clear its alert state.
ScanOnuOf(k, r) ==
    LET o == r.onu
        t == PowerEvent(r.obs.rx)
    IN  /\ scan' = [scan EXCEPT ![k] = @ \ {r}]
        /\ \/ /\ t # "none" /\ alerted[o] # "recent"
              /\ alerted' = [alerted EXCEPT ![o] = "recent"]
              /\ queue' = Added(o, t, r.obs.ver)
              /\ IF Undoes(o, r.obs.ver)
                 THEN undone' = undone \cup {o} /\ told' = Untold({o})
                 ELSE UNCHANGED <<undone, told>>
           \/ /\ t # "none" /\ alerted[o] = "recent"
              /\ UNCHANGED <<alerted, queue, undone, told>>
           \/ /\ r.obs.rx = "normal"
              /\ alerted' = [alerted EXCEPT ![o] = "never"]
              /\ UNCHANGED <<queue, undone, told>>
           \/ /\ r.obs.rx = "bad"
              /\ UNCHANGED <<alerted, queue, undone, told>>

ScanOnu(k) ==
    /\ phase # "exited"
    /\ \E r \in scan[k] : ScanOnuOf(k, r)
    /\ UNCHANGED <<phase, onuVars, pc, fetchVars, flushVars, acted, late, used>>

\* Thirty minutes have passed since the ONU's power alert.
AlertElapses(o) ==
    /\ alerted[o] = "recent"
    /\ alerted' = [alerted EXCEPT ![o] = "old"]
    /\ UNCHANGED <<phase, onuVars, pc, fetchVars, queue, flushVars, scan, ghosts, used>>

-----------------------------------------------------------------------------
\* The deferred calls of Start: the listener, the monitor and the batcher are
\* closed, then the registry, and the process ends.  None waits for a flush.
Shutdown ==
    /\ \/ phase = "up" /\ phase' = "stopping"
       \/ phase = "stopping" /\ phase' = "unplugged"
       \/ phase = "unplugged" /\ phase' = "exited"
    /\ UNCHANGED <<onuVars, pc, fetchVars, queue, flushVars, scanVars, ghosts, used>>

FlushStep(s) ==
    FlushBegin(s) \/ FlushRead(s) \/ FlushVerdict(s) \/ FlushCleanup(s)
        \/ FlushMark(s) \/ FlushSend(s)

FetchStep(o) == SnmpRead(o) \/ FlightReturn(o)

Running ==
    \/ \E o \in Onus : Change(o) \/ Duplicate(o) \/ ClientGet(o) \/ FetchStep(o)
                           \/ Receive(o) \/ AlertElapses(o)
    \/ \E s \in Severities, o \in Onus : RepeatElapses(s, o)
    \/ HandleEvent
    \/ \E s \in Flushed : FlushStep(s)
    \/ \E k \in Scanners : ScanRead(k) \/ ScanOnu(k)

Next == Running \/ Shutdown

Spec == Init /\ [][Next]_vars

\* Goroutines run, the tickers fire, and an SNMP exchange ends with an answer or
\* with gosnmp's timeout, also when the webhook does not answer (its retries are
\* bounded).
Fairness ==
    /\ \A o \in Onus : WF_vars(FetchStep(o))
    /\ \A s \in Flushed : WF_vars(FlushStep(s))
    /\ WF_vars(HandleEvent)
    /\ WF_vars(\E o \in Onus : Receive(o))
    /\ \A k \in Scanners : WF_vars(ScanOnu(k))

\* The process while it is not shut down.
RunSpec == Init /\ [][Running]_vars

FairSpec == RunSpec /\ Fairness

-----------------------------------------------------------------------------
Versions == 0..(MaxChanges + 1)
Observations == [ok : BOOLEAN, status : Statuses, reason : Reasons, rx : RxClasses,
                 ver : Versions]
EventTypes == alertEventTypes \cup PowerEventTypes
Flights == [st : {"none", "asking", "read"}, obs : Observations]
Points == {"idle", "pick", "wait", "got", "mark", "send", "stopped"}
Entries == [in : BOOLEAN, type : EventTypes \cup {"Online"},
            last : {"never", "recent", "old"}, ver : Versions]
Askings == [now : Versions, entry : Versions]
Tellings == [ver : Versions, recent : BOOLEAN]

\* The types of the state; only alert and power events reach the list that is sent.
TypeOK ==
    /\ phase \in {"up", "stopping", "unplugged", "exited"}
    /\ cond \in [Onus -> Conditions]
    /\ ver \in [Onus -> Versions]
    /\ pend \subseteq Onus
    /\ flight \in [Onus -> Flights]
    /\ pc \in [Procs -> Points]
    /\ onu \in [Procs -> Onus]
    /\ got \in [Procs -> Observations]
    /\ asked \in [Procs -> Askings]
    /\ queue \in [Severities -> [Onus -> Entries]]
    /\ todo \in [Flushed -> SUBSET Onus]
    /\ list \in [Flushed -> SUBSET [onu : Onus, type : EventTypes, ver : Versions]]
    /\ drop \in [Flushed -> SUBSET [onu : Onus, ver : Versions]]
    /\ final \subseteq Flushed
    /\ scan \in [Scanners -> SUBSET [onu : Onus, obs : Observations]]
    /\ alerted \in [Onus -> {"never", "recent", "old"}]
    /\ acted \in [Onus -> Versions]
    /\ undone \subseteq Onus /\ late \subseteq Severities \X Onus
    /\ told \in [Severities -> [Onus -> Tellings]]
    /\ used \in [{"dups", "gets", "fails", "scans"} -> Nat]

\* An ONU is in one queue at most, whatever the handler, the flush loops and the
\* power monitor do to it at the same time.
OneQueue == \A o \in Onus : Cardinality({s \in Severities : queue[s][o].in}) <= 1

\* An entry is always in the queue of its own severity, also after a flush has
\* overwritten its event with one that it verified without the lock; and what is
\* about to be sent as severity s is of severity s.
RightQueue ==
    /\ \A s \in Severities : \A o \in Keys(s) : eventSeverity(queue[s][o].type) = s
    /\ \A s \in Flushed : \A e \in list[s] : eventSeverity(e.type) = s

\* Nobody is working on the ONU and no trap about it is on its way.
Quiet(o) ==
    /\ o \notin pend
    /\ \A p \in Procs : pc[p] \in {"wait", "got"} => onu[p] # o
    /\ \A s \in Flushed : o \notin {e.onu : e \in list[s] \cup drop[s]}
    /\ \A k \in Scanners : o \notin {r.onu : r \in scan[k]}

ShouldBeKnown(o) == TypeOf(Observe(o)) \in alertEventTypes /\ acted[o] = ver[o]

Known(o) == \E s \in Severities : queue[s][o].in \/ told[s][o].ver = ver[o]

\* A seen outage is never forgotten, except by one race: an ONU whose present,
\* abnormal condition the handler has seen is queued or has been notified, unless
\* somebody acting on an older observation, or on a failed lookup, took its entry away.
LostOnlyByRace ==
    \A o \in Onus : ShouldBeKnown(o) /\ o \notin undone => Known(o)

\* What a flush learns about an ONU that the handler or a flush has queued is never
\* older than what put the ONU in the queue, although the lookup may join one that
\* others started.  (The power monitor does not read through those lookups: an entry
\* of its queue may be newer than what verifies it.)
VerifiedNotOlder ==
    \A s \in Flushed \ {"Medium"} :
        pc[s] = "got" /\ got[s].ver # 0 => got[s].ver >= asked[s].entry

\* An outage is notified once per repeat interval, however often its trap is
\* repeated, in the severities that have one.
OncePerInterval == \A l \in late : l[1] \notin Repeating

\* Every queued entry of a severity with a flush loop is dealt with: a flush sends
\* it or finds it outdated, or a trap takes it away.
Waiting(s, o) == queue[s][o].in /\ queue[s][o].last = "never"
EntriesResolved == \A s \in Flushed, o \in Onus : Waiting(s, o) ~> ~Waiting(s, o)

-----------------------------------------------------------------------------
\* docs/SNMP_TRAP_WEBHOOK.md: an ONU that is still offline is sent.
NothingLost == \A o \in Onus : Quiet(o) /\ ShouldBeKnown(o) => Known(o)

\* docs/SNMP_TRAP_WEBHOOK.md: no false alarm for an ONU that recovers before the
\* flush, i.e. an alert describes a condition seen since the flush looked.
NoFalseAlarm ==
    \A s \in Flushed : pc[s] = "got" /\ FlushType(s, got[s]) # "none"
                           => got[s].ver >= asked[s].now

\* handler.go: the actual status is queried, no cache is trusted.
HandlerSeesActual ==
    pc["handler"] = "got" /\ got["handler"].ver # 0
        => got["handler"].ver >= asked["handler"].now

\* .env.example: a repeat interval of 0 means that an outage is notified once.
NotifiedOnce == late = {}

\* formatter.go: a severity without an interval is not batched.
UnbatchedNotQueued == \A s \in Severities \ Flushed : Keys(s) = {}

\* batcher.go: Close flushes the remaining events: none is left unsent.
CloseFlushes ==
    phase = "exited" => \A s \in Flushed, o \in Onus : ~Waiting(s, o)
=============================================================================
