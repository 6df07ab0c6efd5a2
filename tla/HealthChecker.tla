--------------------------- MODULE HealthChecker ---------------------------
(***************************************************************************)
(* internal/health/health.go: the readiness probe.  Each call of Check     *)
(* goes through the dependencies in order; a result is cached, for less    *)
(* long when it is a failure, and the dependency's mutex is held during a  *)
(* probe, so that other calls wait for it.  The time that a call compares  *)
(* with is taken once, before it waits for anything, and a probe runs with *)
(* the context of the request that happens to start it.                    *)
(***************************************************************************)
EXTENDS Integers, FiniteSetsExt

CONSTANTS
    Callers,     \* requests of /readyz
    NumDeps,     \* registered dependencies; app.go registers two
    Critical,    \* those whose failure makes the instance not ready
    ttl,         \* the time for which a success is cached
    failureTTL,  \* the most for a failure
    timeout,     \* of a probe
    MaxTime,     \* bound: the clock
    MaxFlips     \* bound: dependencies going down and coming back

Deps == 1..NumDeps
None == "none"

ASSUME HealthAssumption ==
    /\ NumDeps \in Nat \ {0} /\ Critical \subseteq Deps /\ None \notin Callers
    /\ ttl \in [Deps -> Nat \ {0}] /\ failureTTL \in Nat \ {0}
    /\ timeout \in Nat /\ MaxTime \in Nat \ {0} /\ MaxFlips \in Nat

VARIABLES
    now,         \* the clock
    up,          \* the dependency answers
    downAt,      \* when it was last down
    upAt,        \* when it last answered
    cancelAt,    \* when a probe for a cancelled request last ended
    mu,          \* who holds the mutex of a dependency
    lastAt, lastErr,
    pc, start, dep, began, cancelled, answers, healthy, \* the calls of Check
    flips

truth  == <<up, downAt, upAt>>
deps   == <<mu, lastAt, lastErr>>
calls  == <<pc, start, dep, began, cancelled, answers, healthy>>
vars   == <<now, truth, cancelAt, deps, calls, flips>>

Init ==
    /\ now = 1
    /\ up \in [Deps -> BOOLEAN]
    /\ upAt = [d \in Deps |-> IF up[d] THEN 1 ELSE -MaxTime]
    /\ downAt = [d \in Deps |-> IF up[d] THEN -MaxTime ELSE 1]
    /\ cancelAt = [d \in Deps |-> -MaxTime]
    /\ mu = [d \in Deps |-> None]
    /\ lastAt = [d \in Deps |-> 0]   \* the zero time
    /\ lastErr = [d \in Deps |-> FALSE]
    /\ pc = [c \in Callers |-> "idle"]
    /\ start = [c \in Callers |-> 0]
    /\ dep = [c \in Callers |-> 1]
    /\ began = [c \in Callers |-> 0]
    /\ cancelled = [c \in Callers |-> FALSE]
    /\ answers = [c \in Callers |-> [d \in Deps |-> "none"]]
    /\ healthy = [c \in Callers |-> TRUE]
    /\ flips = 0

\* A second passes; a probe does not outlive its timeout.
Tick ==
    /\ now < MaxTime
    /\ \A c \in Callers : pc[c] = "probe" => now - began[c] < timeout
    /\ now' = now + 1
    /\ upAt' = [d \in Deps |-> IF up[d] THEN now + 1 ELSE upAt[d]]
    /\ downAt' = [d \in Deps |-> IF up[d] THEN downAt[d] ELSE now + 1]
    /\ UNCHANGED <<up, cancelAt, deps, calls, flips>>

\* A dependency goes down or comes back.
Flip(d) ==
    /\ flips < MaxFlips
    /\ flips' = flips + 1
    /\ up' = [up EXCEPT ![d] = ~@]
    /\ upAt' = IF up[d] THEN upAt ELSE [upAt EXCEPT ![d] = now]
    /\ downAt' = IF up[d] THEN [downAt EXCEPT ![d] = now] ELSE downAt
    /\ UNCHANGED <<now, cancelAt, deps, calls>>

\* A request arrives: Check takes the time and begins with the first dependency.
Check(c) ==
    /\ pc[c] = "idle"
    /\ pc' = [pc EXCEPT ![c] = "lock"]
    /\ start' = [start EXCEPT ![c] = now]
    /\ UNCHANGED <<now, truth, cancelAt, deps, dep, began, cancelled, answers, healthy, flips>>

\* Mutant: a failure is kept as long as a success.
MutTtl(d) == ttl[d]

\* How long the present result of a dependency is used.
Ttl(d) == IF lastErr[d] THEN Min({ttl[d], failureTTL}) ELSE ttl[d]

\* Mutant: only successes are cached.
MutCached(c, d) == lastAt[d] # 0 /\ ~lastErr[d] /\ start[c] - lastAt[d] < Ttl(d)

\* Mutant: a result is used for one more second.
MutCachedLonger(c, d) == lastAt[d] # 0 /\ start[c] - lastAt[d] <= Ttl(d)

Cached(c, d) == lastAt[d] # 0 /\ start[c] - lastAt[d] < Ttl(d)

\* The status of dependency d, and the next one or the end.
Answer(c, d, err) ==
    /\ answers' = [answers EXCEPT ![c][d] = IF err THEN "down" ELSE "up"]
    /\ healthy' = [healthy EXCEPT ![c] = @ /\ ~(err /\ d \in Critical)]
    /\ dep' = [dep EXCEPT ![c] = d + 1]
    /\ pc' = [pc EXCEPT ![c] = IF d = NumDeps THEN "done" ELSE "lock"]

\* Check has the mutex: a cached result is used, or a probe is started.
Lock(c) ==
    /\ pc[c] = "lock"
    /\ mu[dep[c]] = None
    /\ IF Cached(c, dep[c])
       THEN Answer(c, dep[c], lastErr[dep[c]]) /\ UNCHANGED <<mu, began>>
       ELSE /\ mu' = [mu EXCEPT ![dep[c]] = c]
            /\ pc' = [pc EXCEPT ![c] = "probe"]
            /\ began' = [began EXCEPT ![c] = now]
            /\ UNCHANGED <<dep, answers, healthy>>
    /\ UNCHANGED <<now, truth, cancelAt, lastAt, lastErr, start, cancelled, flips>>

\* The probe returns: an error if the dependency does not answer, or if the context
\* of the request that started the probe is cancelled.
ProbeEnd(c) ==
    /\ pc[c] = "probe"
    /\ LET d == dep[c]
           err == ~up[d] \/ cancelled[c]
       IN  /\ lastErr' = [lastErr EXCEPT ![d] = err]
           /\ lastAt' = [lastAt EXCEPT ![d] = now]
           /\ cancelAt' = IF cancelled[c] THEN [cancelAt EXCEPT ![d] = now] ELSE cancelAt
           /\ mu' = [mu EXCEPT ![d] = None]
           /\ began' = [began EXCEPT ![c] = 0]
           /\ Answer(c, d, err)
    /\ UNCHANGED <<now, truth, start, cancelled, flips>>

\* The client of a request goes away; Check carries on.
Cancel(c) ==
    /\ pc[c] \in {"lock", "probe"} /\ ~cancelled[c]
    /\ cancelled' = [cancelled EXCEPT ![c] = TRUE]
    /\ UNCHANGED <<now, truth, cancelAt, deps, pc, start, dep, began, answers, healthy, flips>>

\* The response is written; what is local to the call is gone.
Respond(c) ==
    /\ pc[c] = "done"
    /\ pc' = [pc EXCEPT ![c] = "idle"]
    /\ start' = [start EXCEPT ![c] = 0]
    /\ dep' = [dep EXCEPT ![c] = 1]
    /\ cancelled' = [cancelled EXCEPT ![c] = FALSE]
    /\ answers' = [answers EXCEPT ![c] = [d \in Deps |-> "none"]]
    /\ healthy' = [healthy EXCEPT ![c] = TRUE]
    /\ UNCHANGED <<now, truth, cancelAt, deps, began, flips>>

Next ==
    \/ Tick
    \/ \E d \in Deps : Flip(d)
    \/ \E c \in Callers : Check(c) \/ Lock(c) \/ ProbeEnd(c) \/ Cancel(c) \/ Respond(c)

Spec == Init /\ [][Next]_vars

\* A probe returns, having a timeout, and sync.Mutex hands itself over to a waiter
\* that has waited long: strong fairness of Lock.
FairSpec == Spec /\ \A c \in Callers : SF_vars(Lock(c)) /\ WF_vars(ProbeEnd(c))

-----------------------------------------------------------------------------
Times == (-MaxTime)..MaxTime

\* The types of the state; a call in the loop is at one of the dependencies.
TypeOK ==
    /\ now \in 1..MaxTime
    /\ up \in [Deps -> BOOLEAN] /\ lastErr \in [Deps -> BOOLEAN]
    /\ upAt \in [Deps -> Times] /\ downAt \in [Deps -> Times] /\ cancelAt \in [Deps -> Times]
    /\ lastAt \in [Deps -> 0..MaxTime]
    /\ mu \in [Deps -> Callers \cup {None}]
    /\ pc \in [Callers -> {"idle", "lock", "probe", "done"}]
    /\ start \in [Callers -> 0..MaxTime] /\ began \in [Callers -> 0..MaxTime]
    /\ dep \in [Callers -> 1..(NumDeps + 1)]
    /\ \A c \in Callers : pc[c] # "done" => dep[c] \in Deps
    /\ cancelled \in [Callers -> BOOLEAN] /\ healthy \in [Callers -> BOOLEAN]
    /\ answers \in [Callers -> [Deps -> {"none", "up", "down"}]]
    /\ flips \in 0..MaxFlips

\* A dependency is probed by the one call that holds its mutex.
OneProbe ==
    /\ \A c \in Callers : pc[c] = "probe" => mu[dep[c]] = c
    /\ \A d \in Deps : mu[d] # None => pc[mu[d]] = "probe" /\ dep[mu[d]] = d

\* "up" is the truth of no more than the ttl before the request, through any wait
\* for the probes of others.
UpWasUp ==
    \A c \in Callers, d \in Deps :
        answers[c][d] = "up" => upAt[d] > start[c] - ttl[d]

\* "down" has a cause in the last failureTTL before the request: the dependency was
\* down, or the request that probed it was cancelled.
DownHasCause ==
    \A c \in Callers, d \in Deps :
        answers[c][d] = "down" =>
            \/ downAt[d] > start[c] - failureTTL
            \/ cancelAt[d] > start[c] - failureTTL

\* The inductive strengthening: what the cached results and the calls under way say
\* about the past.
PastInv ==
    /\ \A d \in Deps : /\ upAt[d] <= now /\ downAt[d] <= now /\ cancelAt[d] <= now
                       /\ lastAt[d] <= now
                       /\ IF up[d] THEN upAt[d] = now ELSE downAt[d] = now
    /\ \A d \in Deps : lastAt[d] # 0 =>
          IF lastErr[d] THEN downAt[d] >= lastAt[d] \/ cancelAt[d] >= lastAt[d]
          ELSE upAt[d] >= lastAt[d]
    /\ \A c \in Callers : start[c] <= now
    /\ \A c \in Callers, d \in Deps : pc[c] = "idle" => answers[c][d] = "none"

HealthInv == TypeOK /\ OneProbe /\ PastInv /\ UpWasUp /\ DownHasCause

\* A dependency that is down is not probed by every request: between the end of a
\* failed probe and the next one the failure's time has passed, however long the
\* requests have waited for each other.
NoProbeStorm ==
    [][\A c \in Callers : (pc[c] = "lock" /\ pc'[c] = "probe") =>
          (lastAt[dep[c]] # 0 /\ lastErr[dep[c]] =>
              now - lastAt[dep[c]] >= Min({ttl[dep[c]], failureTTL}))]_vars

\* Every request gets its answer.
CheckReturns == \A c \in Callers : pc[c] = "lock" ~> pc[c] = "done"

\* app/routes.go: /readyz answers 503 if a dependency is down.  Here: only then, at
\* the time or as lately as a failure is cached.
OnlyDownIsNotReady ==
    \A c \in Callers : ~healthy[c] => \E d \in Critical : downAt[d] > start[c] - failureTTL
=============================================================================
