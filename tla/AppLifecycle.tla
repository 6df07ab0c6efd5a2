----------------------------- MODULE AppLifecycle -----------------------------
(***************************************************************************)
(* The process from main to exit: App.Start of app/app.go with its         *)
(* deferred calls, and graceful.Shutdown of pkg/graceful/graceful.go.      *)
(*                                                                         *)
(* `pc' is where Start is.  What it starts is pushed on `stack', whose     *)
(* entries are closed last first when Start returns, on every path.  The   *)
(* HTTP server answers requests from the moment it listens.  SIGTERM ends  *)
(* the process at once until Start has asked to be notified of it.         *)
(*                                                                         *)
(* Time is counted in units of ten seconds, and only while requests are    *)
(* under way; the startup of RegistryStartup has its own clock.            *)
(***************************************************************************)
EXTENDS RegistryStartup, Sequences, FiniteSets

CONSTANTS Requests,
          DrainLimit,   \* the timeout of server.Shutdown
          WriteTimeout, \* of http.Server
          MaxAge        \* bound: a request is no older than this

ASSUME LifecycleAssumption ==
    /\ DrainLimit \in Nat /\ WriteTimeout \in Nat /\ MaxAge \in Nat
    /\ DrainLimit <= MaxAge

Parts == {"redis", "registry", "poller", "batcher", "listener", "monitor"}

VARIABLES cfg,       \* what the environment variables ask for
          pc,
          stack,     \* deferred calls, the last one first
          closed,    \* parts whose deferred call has returned
          server,    \* "none", "starting", "up", "failed" or "closed"
          signalled, \* SIGTERM has been sent
          killed,    \* ... before the process asked for it
          req,       \* request -> "idle", "active", "answered", "unsent", "failed" or "cut"
          age,       \* request -> time since it began
          drain      \* time since server.Shutdown was called

lifeVars == <<cfg, pc, stack, closed, server, signalled, killed, req, age, drain>>
vars == <<lifeVars, startupVars>>

\* registry: REGISTRY_URL; static: OLTS or OLTS_FILE, which take precedence;
\* trap: TRAP_ENABLED; webhook: TRAP_WEBHOOK_URL; intervals: some flush interval
\* is positive; monitor: TRAP_POWER_MONITOR; trapPort, httpPort: they are free.
Configs == [registry: BOOLEAN, static: BOOLEAN, trap: BOOLEAN, webhook: BOOLEAN,
            intervals: BOOLEAN, monitor: BOOLEAN, trapPort: BOOLEAN, httpPort: BOOLEAN]

Init ==
    /\ StartupInit
    /\ cfg \in Configs
    /\ pc = "config"
    /\ stack = <<>>
    /\ closed = {}
    /\ server = "none"
    /\ signalled = FALSE /\ killed = FALSE
    /\ req = [r \in Requests |-> "idle"]
    /\ age = [r \in Requests |-> 0]
    /\ drain = 0

webhookPossible == cfg.webhook \/ cfg.registry

fetchesList == cfg.registry /\ ~cfg.static

Start(part, to) ==
    /\ stack' = <<part>> \o stack
    /\ pc' = to

\* The environment of a running process does not change, and the locals of the
\* startup are gone when LoadConfig has returned.
KeepRest == UNCHANGED <<cfg, closed, server, signalled, killed, req, age, drain>>

FetchList ==
    /\ pc = "config" /\ fetchesList
    /\ StartupNext
    /\ UNCHANGED lifeVars

\* LoadConfig, and the tests of Start behind it.  A setting that is not valid ends in
\* the same return, with nothing on the stack, as a list that was never fetched.
LoadConfig ==
    /\ pc = "config"
    /\ IF fetchesList THEN phase \in {"ready", "gaveUp"} ELSE TRUE
    /\ pc' = IF fetchesList /\ phase = "gaveUp" THEN "return" ELSE "redis"
    /\ phase' = "fetching" /\ now' = 0 /\ backoff' = InitialBackoff
    /\ up' = CHOOSE u \in Ups : TRUE
    /\ UNCHANGED stack /\ KeepRest

OpenRedis ==
    /\ pc = "redis"
    /\ Start("redis", "registry")
    /\ KeepRest /\ UNCHANGED startupVars

\* Reconcile may initialise none of the OLTs.
BuildRegistry ==
    /\ pc = "registry"
    /\ \E to \in {"poller", "return"} : Start("registry", to)
    /\ KeepRest /\ UNCHANGED startupVars

StartIf(wanted, part, to) ==
    IF wanted THEN Start(part, to) ELSE pc' = to /\ UNCHANGED stack

StartPoller ==
    /\ pc = "poller"
    /\ StartIf(cfg.registry, "poller", IF cfg.trap THEN "batcher" ELSE "serve")
    /\ KeepRest /\ UNCHANGED startupVars

\* Mutant: the batcher is closed after everything it uses.
MutStartBatcher ==
    /\ pc = "batcher"
    /\ pc' = "listener"
    /\ stack' = IF webhookPossible /\ cfg.intervals THEN Append(stack, "batcher") ELSE stack
    /\ KeepRest /\ UNCHANGED startupVars

StartBatcher ==
    /\ pc = "batcher"
    /\ StartIf(webhookPossible /\ cfg.intervals, "batcher", "listener")
    /\ KeepRest /\ UNCHANGED startupVars

\* Start waits for the listener; one that cannot bind its port never reports.
StartListener ==
    /\ pc = "listener" /\ cfg.trapPort
    /\ Start("listener", "monitor")
    /\ KeepRest /\ UNCHANGED startupVars

StartMonitor ==
    /\ pc = "monitor"
    /\ StartIf(cfg.monitor /\ webhookPossible, "monitor", "serve")
    /\ KeepRest /\ UNCHANGED startupVars

--------------------------------------------------------------------------------
(* graceful.Shutdown.                                                      *)

\* The server is started before the signals are asked for.
Serve ==
    /\ pc = "serve"
    /\ pc' = "notify"
    /\ server' = "starting"
    /\ UNCHANGED <<cfg, stack, closed, signalled, killed, req, age, drain, startupVars>>

Listen ==
    /\ server = "starting"
    /\ server' = IF cfg.httpPort THEN "up" ELSE "failed"
    /\ UNCHANGED <<cfg, pc, stack, closed, signalled, killed, req, age, drain, startupVars>>

Notify ==
    /\ pc = "notify"
    /\ pc' = "select"
    /\ UNCHANGED stack /\ KeepRest /\ UNCHANGED startupVars

ServerError ==
    /\ pc = "select" /\ server = "failed"
    /\ pc' = "return"
    /\ UNCHANGED stack /\ KeepRest /\ UNCHANGED startupVars

\* server.Shutdown closes the listening socket first.
BeginShutdown ==
    /\ pc = "select" /\ signalled
    /\ pc' = "drain"
    /\ server' = "closed"
    /\ UNCHANGED <<cfg, stack, closed, signalled, killed, req, age, drain, startupVars>>

Active == {r \in Requests : req[r] = "active"}

\* Mutant: Shutdown runs in a goroutine that nobody waits for.
MutDrained == TRUE

\* Mutant: Shutdown is given a context without a deadline.
MutDrainedOnly == Active = {}

Drained == Active = {} \/ drain = DrainLimit

EndShutdown ==
    /\ pc = "drain" /\ Drained
    /\ pc' = "return"
    /\ UNCHANGED stack /\ KeepRest /\ UNCHANGED startupVars

--------------------------------------------------------------------------------
(* The deferred calls, and the end of main.                                *)

CloseNext ==
    /\ pc = "return" /\ stack # <<>>
    /\ closed' = closed \union {Head(stack)}
    /\ stack' = Tail(stack)
    /\ UNCHANGED <<cfg, pc, server, signalled, killed, req, age, drain, startupVars>>

CutActive == [r \in Requests |-> IF req[r] = "active" THEN "cut" ELSE req[r]]

Exit ==
    /\ pc = "return" /\ stack = <<>>
    /\ pc' = "exited"
    /\ req' = CutActive
    /\ server' = "closed"
    /\ UNCHANGED <<cfg, stack, closed, signalled, killed, age, drain, startupVars>>

Unnotified == pc \notin {"select", "drain", "return", "exited"}

\* SIGTERM.  A second one is swallowed by the channel.
Sigterm ==
    /\ ~signalled /\ pc # "exited"
    /\ signalled' = TRUE
    /\ killed' = Unnotified
    /\ IF Unnotified
       THEN pc' = "exited" /\ req' = CutActive /\ server' = "closed"
       ELSE UNCHANGED <<pc, req, server>>
    /\ UNCHANGED <<cfg, stack, closed, age, drain, startupVars>>

--------------------------------------------------------------------------------
(* Requests.                                                               *)

Arrive(r) ==
    /\ server = "up" /\ req[r] = "idle"
    /\ req' = [req EXCEPT ![r] = "active"]
    /\ UNCHANGED <<cfg, pc, stack, closed, server, signalled, killed, age, drain, startupVars>>

\* A handler that returns: it may have failed if what it reads from is closed, and
\* its answer is not sent when the connection's write deadline has passed.
Outcomes(r) ==
    {IF age[r] > WriteTimeout THEN "unsent" ELSE "answered"}
        \union {o \in {"failed"} : "registry" \in closed}

HandlerReturns(r) ==
    /\ req[r] = "active"
    /\ \E outcome \in Outcomes(r) : req' = [req EXCEPT ![r] = outcome]
    /\ UNCHANGED <<cfg, pc, stack, closed, server, signalled, killed, age, drain, startupVars>>

\* A unit of time passes for the handlers, and for server.Shutdown, which
\* returns when there are none or its time is over.
Tick ==
    /\ Active # {} /\ pc # "exited"
    /\ pc = "drain" => drain < DrainLimit
    /\ \/ \E r \in Active : age[r] < MaxAge
       \/ pc = "drain"
    /\ age' = [r \in Requests |-> IF r \in Active /\ age[r] < MaxAge THEN age[r] + 1 ELSE age[r]]
    /\ drain' = IF pc = "drain" THEN drain + 1 ELSE drain
    /\ UNCHANGED <<cfg, pc, stack, closed, server, signalled, killed, req, startupVars>>

Wiring == \/ FetchList \/ LoadConfig \/ OpenRedis \/ BuildRegistry \/ StartPoller
          \/ StartBatcher \/ StartListener \/ StartMonitor
Ending == BeginShutdown \/ EndShutdown \/ ServerError \/ CloseNext \/ Exit
Next ==
    \/ Wiring
    \/ Serve \/ Listen \/ Notify \/ Sigterm
    \/ Ending
    \/ Tick
    \/ \E r \in Requests : Arrive(r) \/ HandlerReturns(r)

Spec == Init /\ [][Next]_vars

\* The process runs, and time passes.  Nothing is assumed of handlers, of SIGTERM
\* or of the device-registry.
FairSpec == Spec /\ WF_vars(Wiring) /\ WF_vars(Serve \/ Notify) /\ WF_vars(Listen)
                 /\ WF_vars(Ending) /\ WF_vars(Tick)

--------------------------------------------------------------------------------
LifecycleTypeOK ==
    /\ StartupTypeOK
    /\ cfg \in Configs
    /\ stack \in Seq(Parts)
    /\ closed \subseteq Parts
    /\ req \in [Requests -> {"idle", "active", "answered", "unsent", "failed", "cut"}]
    /\ age \in [Requests -> 0 .. MaxAge]
    /\ drain \in 0 .. DrainLimit

Opened == closed \union {stack[i] : i \in 1 .. Len(stack)}

\* What a part calls while it runs.
Uses(part) ==
    CASE part = "monitor"  -> {"batcher", "registry"}
      [] part = "listener" -> {"batcher", "registry"}
      [] part = "batcher"  -> {"registry"}
      [] part = "poller"   -> {"registry"}
      [] part = "registry" -> {"redis"}
      [] OTHER             -> {}

\* Whatever the configuration and the way Start ends, nothing is closed before
\* the parts that use it: the deferred calls of Start.
UsersCloseFirst ==
    \A part \in closed : \A user \in Opened \ closed : part \notin Uses(user)

\* A request fails or is cut off only if the shutdown has given the handlers all
\* their time, or SIGTERM came before Start had asked for it.
GraceServes ==
    \A r \in Requests : req[r] \in {"failed", "cut"} => killed \/ drain = DrainLimit

\* SIGTERM ends the process, wherever it is in its startup, and although a
\* handler, a device-registry or a trap port may keep it waiting for good.
SigtermEnds == signalled ~> pc = "exited"

\* A process that is not stopped serves in the end (not so: a trap listener that
\* cannot bind its port keeps Start waiting).
ServesInTheEnd == <>(server = "up" \/ pc = "exited")

\* A handler that keeps within the request timeout of app/routes.go:71 is
\* answered (not so beyond the server's write timeout).
SlowIsAnswered == \A r \in Requests : req[r] # "unsent"
================================================================================
