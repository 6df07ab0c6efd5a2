---------------------------- MODULE OltRequests ----------------------------
(***************************************************************************)
(* Requests on the OLTs of the registry while the registry changes.        *)
(*                                                                         *)
(* A request (an HTTP handler, the trap pipeline's fetcher or the probe of *)
(* the default OLT) looks its OLT up under the read lock (resolveOLT,      *)
(* resolveDefaultOLT, defaultOLTFetcher), checks the owner and then works  *)
(* on the entry it got without the lock, while Reconcile and Close retire  *)
(* entries.  Equal requests on one stack share one flight (singleflight):  *)
(* read Redis, walk the device, fetch the rows, save.  HealthCheck keeps   *)
(* the read lock while it pings, and a writer that waits for the lock      *)
(* keeps new readers out, as Go's RWMutex does.                            *)
(*                                                                         *)
(* The registry's own steps are those of OltRegistry; its background       *)
(* workers (GoForEach) are left to that module.  Which answers a flight's  *)
(* list may give is OnuCache's subject: here a list is the device and the  *)
(* stack it was read with, and whether its rows are complete.              *)
(***************************************************************************)
EXTENDS OltRegistry

CONSTANTS
    Requests,   \* goroutines that serve requests, one after the other
    Bare,       \* target of a request that names no OLT: /board/...
    Admin,      \* a caller that may see every OLT (or per-user auth is off)
    Targets,    \* what requests name: OLT ids or Bare
    Callers,    \* who sends them: owners or Admin
    NoData      \* no list: nothing cached, nothing read

ASSUME RequestAssumption ==
    /\ Bare \notin Ids
    /\ Admin \notin Metas
    /\ Targets \subseteq Ids \cup {Bare}
    /\ Callers \subseteq Metas \cup {Admin}

Rows  == {"full", "cut"}    \* the pool was closed before the rows were read
Data  == [conn : Conns, rows : Rows, stack : Stack]
Lists == Data \cup {NoData}

VARIABLES
    writer,     \* who has called reg.mu.Lock() and waits: "none", "poller", "close"
    probe,      \* HealthCheck: running or not, stacks to ping, stacks that answered
    req,        \* the request of each goroutine
    flight,     \* the singleflight call of each stack
    cache,      \* Redis: the list under each OLT's key
    disturbed,  \* requests whose OLT was removed or got other connection settings
    listed      \* requests whose OLT has been served to their caller all the time

reqVars == <<writer, probe, req, flight, cache, disturbed, listed>>
rvars   == <<vars, reqVars>>

NoEntry  == [stack |-> <<Default, 0>>, conn |-> NoData]
NoProbe  == [on |-> FALSE, left |-> {}, saw |-> {}]
NoFlight == [at |-> "none", conn |-> NoData, data |-> NoData]
Idle     == [st |-> "idle", id |-> Bare, user |-> Admin, on |-> NoEntry,
             res |-> "none", list |-> NoData]

NotFound == [Idle EXCEPT !.st = "done", !.res = "notfound"]

\* A request that worked on the entry `on' has its answer.
Answered(on, res, list) ==
    [Idle EXCEPT !.st = "done", !.on = on, !.res = res, !.list = list]

-----------------------------------------------------------------------------
RInit ==
    /\ Init
    /\ writer = "none"
    /\ probe = NoProbe
    /\ req = [r \in Requests |-> Idle]
    /\ flight = [s \in Stack |-> NoFlight]
    /\ cache = [id \in Ids |-> NoData]
    /\ disturbed = {}
    /\ listed = {}

\* Mutant: HealthCheck copies the entries and pings them without the lock.
MutReadHeld == FALSE

\* HealthCheck holds the read lock from its first ping to its last.
ReadHeld == probe.on

\* RLock returns at once: a waiting writer goes first.
CanRead == writer = "none"

\* Lock returns: no reader is inside and no other writer was there first.
CanLock(w) == ~ReadHeld /\ writer \in {"none", w}

\* The caller may see the OLT: no tenant, an administrator, or its owner.
MaySee(user, cfg) == user \in {Admin, cfg.meta}

\* What the list reconciled last says of a request: its OLT is listed, belongs to
\* the caller and could be connected.
Servable(q) ==
    LET id == IF q.id = Bare THEN Default ELSE q.id
    IN  id \in DOMAIN applied \ failed /\ MaySee(q.user, applied[id])

\* Requests on a stack whose OLT disappears from the list, or whose connection
\* settings change, in this step.
DisturbedNow ==
    {r \in Requests : /\ req[r].st \in {"found", "wait"}
                      /\ LET id == req[r].on.stack[1]
                         IN  \/ id \notin DOMAIN applied \cap DOMAIN applied'
                             \/ applied'[id].conn # applied[id].conn}

\* A writer calls Lock while a HealthCheck is inside.
WriterWaits ==
    /\ ReadHeld
    /\ writer = "none"
    /\ \/ poller = "fetch" /\ DOMAIN reply # {} /\ writer' = "poller"
       \/ phase = "stopping" /\ writer' = "close"
    /\ UNCHANGED <<vars, probe, req, flight, cache, disturbed, listed>>

\* Steps of the registry that take no lock.
Unlocked ==
    /\ \/ Boot \/ Edit \/ PollTick \/ PollerExit \/ StopPoller
       \/ PollKeep /\ writer # "poller"
    /\ UNCHANGED reqVars

\* Reconcile and Close under the write lock.
Locked ==
    /\ \/ \E F \in SUBSET Ids : CanLock("poller") /\ PollApply(F)
       \/ CanLock("close") /\ CloseRegistry
    /\ writer' = "none"
    /\ UNCHANGED <<probe, req, flight, cache>>
    /\ disturbed' = disturbed \cup DisturbedNow
    /\ listed' = {r \in listed : req[r].st = "sent" => Servable(req[r])'}

\* HealthCheck, under the read lock: one Ping after another, in the order of the
\* map, until one fails or the context is done.
HealthCheck ==
    /\ phase = "up" /\ ~probe.on /\ CanRead
    /\ probe' = [on |-> TRUE, left |-> Mapped, saw |-> {}]
    /\ UNCHANGED <<vars, writer, req, flight, cache, disturbed, listed>>

PingAnswers ==
    /\ probe.on
    /\ \E s \in probe.left :
          /\ pool[s] = "open"
          /\ probe' = [probe EXCEPT !.left = @ \ {s}, !.saw = @ \cup {s}]
    /\ UNCHANGED <<vars, writer, req, flight, cache, disturbed, listed>>

\* Mutant: a Ping that fails does not end the check.
MutHealthCheckReturns ==
    /\ probe.on /\ probe.left = {}
    /\ probe' = NoProbe
    /\ UNCHANGED <<vars, writer, req, flight, cache, disturbed, listed>>

\* The check returns: nil when every OLT has answered, an error otherwise.
HealthCheckReturns ==
    /\ probe.on
    /\ probe' = NoProbe
    /\ UNCHANGED <<vars, writer, req, flight, cache, disturbed, listed>>

\* A request arrives, for one OLT or for the default, from a tenant or an admin.
Arrive(r) ==
    /\ phase = "up"
    /\ req[r].st \in {"idle", "done"}
    /\ \E id \in Targets, user \in Callers :
          req' = [req EXCEPT ![r] = [Idle EXCEPT !.st = "sent", !.id = id, !.user = user]]
    /\ disturbed' = disturbed \ {r}
    /\ listed' = IF Servable(req'[r]) THEN listed \cup {r} ELSE listed \ {r}
    /\ UNCHANGED <<vars, writer, probe, flight, cache>>

\* reg.Get or reg.GetDefault: the OLTs a lookup may return.
FoundIds(target) ==
    IF target # Bare THEN {target} \cap DOMAIN entries
    ELSE IF Default \in DOMAIN entries THEN {Default} ELSE DOMAIN entries

\* What the request keeps of the entry; the fields of a stack's connection never
\* change.
Found(id) == [stack |-> entries[id].stack, conn |-> entries[id].cfg.conn]

\* resolveOLT, resolveDefaultOLT: not found, not the caller's, or the entry.
Resolve(r) ==
    /\ req[r].st = "sent"
    /\ CanRead
    /\ \/ /\ FoundIds(req[r].id) = {}
          /\ req' = [req EXCEPT ![r] = NotFound]
       \/ \E id \in FoundIds(req[r].id) :
             req' = IF MaySee(req[r].user, entries[id].cfg)
                    THEN [req EXCEPT ![r].st = "found", ![r].on = Found(id)]
                    ELSE [req EXCEPT ![r] = NotFound]
    /\ UNCHANGED <<vars, writer, probe, flight, cache, disturbed, listed>>

\* sg.Do: join the flight of the stack, or start one.
Join(r) ==
    LET s == req[r].on.stack
    IN  /\ req[r].st = "found"
        /\ req' = [req EXCEPT ![r].st = "wait"]
        /\ flight' = IF flight[s].at = "none"
                     THEN [flight EXCEPT ![s].at = "read", ![s].conn = req[r].on.conn]
                     ELSE flight
        /\ UNCHANGED <<vars, writer, probe, cache, disturbed, listed>>

\* The flight ends and every request on it gets the same result.
Land(s, res, list) ==
    /\ flight' = [flight EXCEPT ![s] = NoFlight]
    /\ req' = [r \in Requests |->
                 IF req[r].st = "wait" /\ req[r].on.stack = s
                 THEN Answered(req[r].on, res, list) ELSE req[r]]

\* Redis has the list, or it has not (or does not answer).
FlightRead(s) ==
    /\ flight[s].at = "read"
    /\ \/ cache[s[1]] # NoData /\ Land(s, "list", cache[s[1]])
       \/ flight' = [flight EXCEPT ![s].at = "walk"] /\ UNCHANGED req
    /\ UNCHANGED <<vars, writer, probe, cache, disturbed, listed>>

\* BulkWalk: the pool is closed, the device does not answer, or it does.
FlightWalk(s) ==
    /\ flight[s].at = "walk"
    /\ \/ pool[s] = "closed" /\ Land(s, "closed", NoData)
       \/ pool[s] = "open" /\ Land(s, "silent", NoData)
       \/ /\ pool[s] = "open"
          /\ flight' = [flight EXCEPT ![s].at = "rows",
                        ![s].data = [conn |-> flight[s].conn, rows |-> "full", stack |-> s]]
          /\ UNCHANGED req
    /\ UNCHANGED <<vars, writer, probe, cache, disturbed, listed>>

\* One Get per ONU; when it fails the row stays blank and the list goes on.
FlightRows(s) ==
    /\ flight[s].at = "rows"
    /\ flight' = [flight EXCEPT ![s].at = "save",
                  ![s].data.rows = IF pool[s] = "closed" THEN "cut" ELSE "full"]
    /\ UNCHANGED <<vars, writer, probe, req, cache, disturbed, listed>>

\* Mutant: the key does not name the OLT.
MutFlightSave(s) ==
    /\ flight[s].at = "save"
    /\ cache' = [cache EXCEPT ![Default] = flight[s].data]
    /\ Land(s, "list", flight[s].data)
    /\ UNCHANGED <<vars, writer, probe, disturbed, listed>>

\* The list is saved under the OLT's key, unless Redis fails, and returned.
FlightSave(s) ==
    /\ flight[s].at = "save"
    /\ \/ cache' = [cache EXCEPT ![s[1]] = flight[s].data]
       \/ UNCHANGED cache
    /\ Land(s, "list", flight[s].data)
    /\ UNCHANGED <<vars, writer, probe, disturbed, listed>>

\* The TTL of a cached list passes.
Expire(id) ==
    /\ cache[id] # NoData
    /\ cache' = [cache EXCEPT ![id] = NoData]
    /\ UNCHANGED <<vars, writer, probe, req, flight, disturbed, listed>>

FlightStep(s) == FlightRead(s) \/ FlightWalk(s) \/ FlightRows(s) \/ FlightSave(s)

RNext ==
    \/ WriterWaits \/ Unlocked \/ Locked
    \/ HealthCheck \/ PingAnswers \/ HealthCheckReturns
    \/ \E r \in Requests : Arrive(r) \/ Resolve(r) \/ Join(r)
    \/ \E s \in Stack : FlightStep(s)
    \/ \E id \in Ids : Expire(id)

RSpec == RInit /\ [][RNext]_rvars

\* Goroutines run and exchanges time out.  RWMutex.Unlock lets the readers in that
\* waited for the writer, before the next writer: strong fairness of the lookups.
\* Polls succeed again and again, and cached lists expire.
RFairness ==
    /\ \A r \in Requests : SF_rvars(Resolve(r)) /\ WF_rvars(Join(r))
    /\ \A s \in Stack : WF_rvars(FlightStep(s))
    /\ WF_rvars(HealthCheckReturns)
    /\ WF_rvars(Locked)
    /\ WF_rvars(PollTick /\ Unlocked) /\ SF_rvars(PollApply({}) /\ Locked)
    /\ \A id \in Ids : WF_rvars(Expire(id))

RFairSpec == RSpec /\ RFairness

-----------------------------------------------------------------------------
Holding == [stack : Ids \X (0..MaxGen), conn : Conns \cup {NoData}]
Request == [st : {"idle", "sent", "found", "wait", "done"}, id : Ids \cup {Bare},
            user : Metas \cup {Admin},
            on : Holding,
            res : {"none", "notfound", "list", "silent", "closed"}, list : Lists]
Flight  == [at : {"none", "read", "walk", "rows", "save"}, conn : Conns \cup {NoData},
            data : Lists]

\* The types of the state; a request that has its OLT works on a stack that was built.
RTypeOK ==
    /\ writer \in {"none", "poller", "close"}
    /\ probe \in [on : BOOLEAN, left : SUBSET Stack, saw : SUBSET Stack]
    /\ req \in [Requests -> Request]
    /\ \A r \in Requests :
          /\ req[r].st \in {"found", "wait"} => req[r].on.stack \in Stack /\ req[r].on.conn \in Conns
          /\ req[r].st # "done" => req[r].list = NoData
    /\ flight \in [Stack -> Flight]
    /\ \A s \in Stack : /\ flight[s].at # "none" => flight[s].conn \in Conns
                        /\ flight[s].at \in {"rows", "save"} => flight[s].data \in Data
    /\ cache \in [Ids -> Lists]
    /\ disturbed \subseteq Requests /\ listed \subseteq Requests

\* A list that was cut short, because its stack's pool was closed meanwhile.
Cut(l) == l # NoData /\ l.rows = "cut"

\* The stack x was built for the same OLT before the stack s.
Before(x, s) == x[1] = s[1] /\ x[2] < s[2]

\* A request whose OLT stays in the list with the same connection settings, from the
\* lookup to the answer, never meets a closed pool, and the list it is answered with,
\* fetched now or found in Redis, is never one its own stack cut short.  It may be
\* one that a stack of the same OLT cut short and saved (onu.go:257) when an earlier
\* rebuild closed that stack's pool: nothing clears Redis after a rebuild, see
\* StaleExpires.  An owner change, another OLT's rebuild or a failed connect never
\* reaches it.
OnlyRebuildsDisturb ==
    \A r \in Requests \ disturbed :
        /\ req[r].res # "closed"
        /\ Cut(req[r].list) => Before(req[r].list.stack, req[r].on.stack)

\* A rebuild or a change of owner is invisible from outside: a request for an OLT
\* that every list since its arrival contains, for this caller, and that could be
\* connected, is never answered 404.
RebuildIsInvisible == \A r \in listed : req[r].res # "notfound"

\* HealthCheck reports healthy only when every OLT that is registered at that
\* moment has answered during this very check.
HealthySawAll == probe.on /\ probe.left = {} => probe.saw = Mapped

\* The inductive strengthening: no request and no check before Boot; a check covers
\* what is registered; a request that nothing disturbs holds a stack that is still
\* served; a list, in a flight or in Redis, comes from a stack of its OLT and is cut
\* short only by a pool that stays closed; and a request that is in listed and has
\* not looked up yet will find its OLT.
BootQuiet  == phase = "boot" => ~probe.on /\ \A r \in Requests : req[r].st = "idle"
ProbeInv   == probe.on => probe.left \cup probe.saw = Mapped
HeldInv    == \A r \in Requests \ disturbed :
                 req[r].st \in {"found", "wait"} => req[r].on.stack \in Mapped
FlightInv  == \A s \in Stack :
                 /\ flight[s].at \in {"rows", "save"} => flight[s].data.stack = s
                 /\ flight[s].at = "save" /\ Cut(flight[s].data) => pool[s] = "closed"
CacheInv   == \A id \in Ids : cache[id] # NoData =>
                 /\ cache[id].stack[1] = id
                 /\ Cut(cache[id]) => pool[cache[id].stack] = "closed"
ListedInv  == \A r \in listed : req[r].st = "sent" => Servable(req[r])

RequestInv == /\ RTypeOK /\ BootQuiet /\ ProbeInv /\ HeldInv /\ FlightInv /\ CacheInv /\ ListedInv
              /\ OnlyRebuildsDisturb /\ RebuildIsInvisible

\* Every request is answered, although HealthCheck holds the lock while devices
\* time out and a Reconcile that waits for it holds up every other lookup.
RequestsReturn == \A r \in Requests : req[r].st = "sent" ~> req[r].st = "done"

\* What a rebuild leaves behind in Redis is served only for a while.  Once the
\* settings stay, what is cached under the OLT's key comes from its device and is
\* complete: lists of the device it had before, and lists that a rebuild cut short,
\* go away with their TTL, although an old flight may still save one after the
\* rebuild.
StaleExpires ==
    \A id \in Ids, c \in Conns :
        <>[](id \in DOMAIN entries /\ entries[id].cfg.conn = c)
            => <>[](cache[id] # NoData => cache[id].conn = c /\ cache[id].rows = "full")

=============================================================================
