-------------------------- MODULE AppLifecycleProofs --------------------------
(***************************************************************************)
(* The beginning and the end of the process.  What the startup promises,   *)
(* for every window, timeout and pause.  The deferred calls of Start close *)
(* what is used after what uses it, and no request is disturbed before     *)
(* server.Shutdown has given it its time, for any number of requests and   *)
(* any limits.                                                             *)
(***************************************************************************)
EXTENDS AppLifecycle, TLAPS

\* A fetch or a pause begins inside the window, the first fetch excepted; the
\* last fetch of a startup that gave up began before the registry was up.
StartupInv ==
    /\ StartupTypeOK
    /\ phase = "fetching" => now = 0 \/ now < Window
    /\ phase = "sleeping" => now + backoff < Window
    /\ ReadyBoots
    /\ DecidedInTime

\* The pause grows, and never beyond MaxBackoff.
LEMMA DoubledInRange ==
    ASSUME NEW b \in InitialBackoff .. MaxBackoff
    PROVE  Doubled(b) \in InitialBackoff .. MaxBackoff
  BY StartupAssumption DEF Doubled

\* initRegistryAndOLTs begins inside its window, with the first backoff.
LEMMA StartupInvInit == StartupInit => StartupInv
  BY StartupAssumption
     DEF StartupInit, StartupInv, StartupTypeOK, ReadyBoots, DecidedInTime

\* Every fetch and every pause of the startup keeps StartupInv.
LEMMA StartupInvStep == StartupInv /\ [StartupNext]_startupVars => StartupInv'
<1> SUFFICES ASSUME StartupInv, [StartupNext]_startupVars
             PROVE  StartupInv'
    OBVIOUS
<1> USE StartupAssumption DEF StartupInv, StartupTypeOK, ReadyBoots, DecidedInTime
<1>1. CASE FetchReturns
  <2>1. PICK t \in now .. now + FetchTimeout : now' = t
        BY <1>1 DEF FetchReturns
  <2>2. now' \in Nat /\ now' <= now + FetchTimeout
        BY <2>1
  <2>3. QED  BY <1>1, <2>2 DEF FetchReturns
<1>2. CASE FetchFails
  <2>1. PICK t \in now .. now + FetchTimeout : now' = t /\ phase' = AfterFetch(t)
        BY <1>2 DEF FetchFails
  <2>2. now' \in Nat /\ now' <= now + FetchTimeout /\ now < up
        BY <1>2, <2>1 DEF FetchFails
  <2>3. CASE t + backoff < Window
        BY <1>2, <2>1, <2>2, <2>3 DEF FetchFails, AfterFetch
  <2>4. CASE ~(t + backoff < Window)
    <3>1. phase' = "gaveUp"  BY <2>1, <2>4 DEF AfterFetch
    <3>2. up > Window - MaxBackoff - FetchTimeout
          BY <2>1, <2>2, <2>4
    <3>3. QED  BY <1>2, <2>2, <3>1, <3>2 DEF FetchFails
  <2>5. QED  BY <2>3, <2>4
<1>3. CASE Sleep
  <2>1. backoff' \in InitialBackoff .. MaxBackoff
        BY <1>3, DoubledInRange DEF Sleep
  <2>2. now' \in Nat /\ now' < Window
        BY <1>3 DEF Sleep
  <2>3. QED  BY <1>3, <2>1, <2>2 DEF Sleep
<1>4. CASE UNCHANGED startupVars
      BY <1>4 DEF startupVars
<1>5. QED  BY <1>1, <1>2, <1>3, <1>4 DEF StartupNext

\* The inductive invariant of the startup.
THEOREM StartupInvariant == StartupSpec => []StartupInv
<1>1. StartupInit => StartupInv  BY StartupInvInit
<1>2. StartupInv /\ [StartupNext]_startupVars => StartupInv'  BY StartupInvStep
<1>3. QED  BY <1>1, <1>2, PTL DEF StartupSpec

\* A device-registry that is up in time is never given up on
\* (fetchRegistryOLTSWithRetry), for every window and every pause.
THEOREM StartupReadyBoots == StartupSpec => []ReadyBoots
<1>1. StartupInv => ReadyBoots  BY DEF StartupInv
<1>2. QED  BY <1>1, StartupInvariant, PTL

\* The startup is decided within one timeout of the window.
THEOREM StartupDecidedInTime == StartupSpec => []DecidedInTime
<1>1. StartupInv => DecidedInTime  BY DEF StartupInv
<1>2. QED  BY <1>1, StartupInvariant, PTL

-----------------------------------------------------------------------------
USE DEF vars, lifeVars

InRange(s) == {s[i] : i \in 1 .. Len(s)}

\* What has been deferred by the time Start is at pc.
Deferred ==
    CASE pc \in {"config", "redis"} -> {}
      [] pc = "registry" -> {"redis"}
      [] pc = "poller" -> {"redis", "registry"}
      [] pc = "batcher" -> {"redis", "registry", "poller"}
      [] OTHER -> Parts

\* A part is deferred after the parts that it uses, and closed before them.
OrderInv ==
    /\ stack \in Seq(Parts)
    /\ InRange(stack) \subseteq Deferred
    /\ \A i, j \in 1 .. Len(stack) : i < j => stack[i] \notin Uses(stack[j])
    /\ closed # {} => pc \in {"return", "exited"}
    /\ \A part \in closed, i \in 1 .. Len(stack) : part \notin Uses(stack[i])

\* What stands where after a defer: the new part first, the others one further.
LEMMA PushFacts ==
    ASSUME NEW p \in Parts, NEW s \in Seq(Parts)
    PROVE  LET t == <<p>> \o s
           IN  /\ t \in Seq(Parts)
               /\ Len(t) = Len(s) + 1
               /\ t[1] = p
               /\ \A i \in 2 .. Len(t) : i - 1 \in 1 .. Len(s) /\ t[i] = s[i - 1]
  OBVIOUS

\* What stands where after a deferred call has returned: all one nearer.
LEMMA TailFacts ==
    ASSUME NEW s \in Seq(Parts), s # <<>>
    PROVE  /\ Tail(s) \in Seq(Parts)
           /\ Len(s) >= 1 /\ Head(s) = s[1]
           /\ \A i \in 1 .. Len(Tail(s)) : i + 1 \in 1 .. Len(s) /\ Tail(s)[i] = s[i + 1]
  OBVIOUS

\* A part may be deferred on top of others that do not use it.
LEMMA PushKeepsOrder ==
    ASSUME OrderInv, NEW p \in Parts, NEW to,
           Start(p, to), closed = {}, closed' = {},
           \A x \in InRange(stack) : p \notin Uses(x),
           InRange(stack) \union {p} \subseteq Deferred'
    PROVE  OrderInv'
<1>1. stack' = <<p>> \o stack  BY DEF Start
<1>2. /\ stack' \in Seq(Parts)
      /\ Len(stack') = Len(stack) + 1
      /\ stack'[1] = p
      /\ \A i \in 2 .. Len(stack') : i - 1 \in 1 .. Len(stack) /\ stack'[i] = stack[i - 1]
      BY <1>1, PushFacts DEF OrderInv
<1>3. Len(stack) \in Nat /\ Len(stack') \in Nat  BY <1>2 DEF OrderInv
<1>4. InRange(stack') \subseteq Deferred'
  <2>1. ASSUME NEW i \in 1 .. Len(stack') PROVE stack'[i] \in InRange(stack) \union {p}
    <3>1. CASE i = 1  BY <3>1, <1>2
    <3>2. CASE i # 1
      <4>1. i \in 2 .. Len(stack')  BY <3>2, <1>3
      <4>2. QED  BY <4>1, <1>2 DEF InRange
    <3>3. QED  BY <3>1, <3>2
  <2>2. QED  BY <2>1 DEF InRange
<1>5. ASSUME NEW i \in 1 .. Len(stack'), NEW j \in 1 .. Len(stack'), i < j
      PROVE  stack'[i] \notin Uses(stack'[j])
  <2>1. j \in 2 .. Len(stack')  BY <1>3, <1>5
  <2>2. j - 1 \in 1 .. Len(stack) /\ stack'[j] = stack[j - 1]  BY <2>1, <1>2
  <2>3. CASE i = 1
        BY <2>2, <2>3, <1>2 DEF InRange
  <2>4. CASE i # 1
    <3>1. i \in 2 .. Len(stack')  BY <2>4, <1>3
    <3>2. i - 1 \in 1 .. Len(stack) /\ stack'[i] = stack[i - 1]  BY <3>1, <1>2
    <3>3. i - 1 < j - 1  BY <1>5, <1>3
    <3>4. QED  BY <2>2, <3>2, <3>3 DEF OrderInv
  <2>5. QED  BY <2>3, <2>4
<1>6. QED  BY <1>2, <1>4, <1>5 DEF OrderInv

\* Nothing is deferred when main begins.
LEMMA OrderInit == Init => OrderInv
  BY DEF Init, OrderInv, InRange, Deferred, Parts

\* A step that leaves the stack and the closed parts alone.
LEMMA SameStack ==
    ASSUME OrderInv, UNCHANGED <<stack, closed>>,
           Deferred \subseteq Deferred',
           closed # {} => pc' \in {"return", "exited"}
    PROVE  OrderInv'
  BY DEF OrderInv, InRange

\* Every step of Start, of its deferred calls and of the process keeps OrderInv.
LEMMA OrderStep == OrderInv /\ [Next]_vars => OrderInv'
<1> SUFFICES ASSUME OrderInv, [Next]_vars PROVE OrderInv'
    OBVIOUS
<1> USE DEF KeepRest
<1>0. ASSUME NEW p \in Parts, NEW wanted, NEW to, StartIf(wanted, p, to),
             closed = {}, closed' = {},
             \A x \in InRange(stack) : p \notin Uses(x),
             InRange(stack) \union {p} \subseteq Deferred',
             Deferred \subseteq Deferred'
      PROVE  OrderInv'
  <2>1. CASE wanted
        BY <1>0, <2>1, PushKeepsOrder DEF StartIf
  <2>2. CASE ~wanted
        BY <1>0, <2>2, SameStack DEF StartIf
  <2>3. QED  BY <2>1, <2>2
<1>1. CASE FetchList
      BY <1>1, SameStack DEF FetchList, Deferred, OrderInv
<1>2. CASE LoadConfig
      BY <1>2, SameStack DEF LoadConfig, Deferred, OrderInv
<1>3. CASE OpenRedis
  <2>1. InRange(stack) = {} /\ closed = {} /\ closed' = {}
        BY <1>3 DEF OpenRedis, OrderInv, Deferred
  <2>2. {"redis"} \subseteq Deferred'
        BY <1>3 DEF OpenRedis, Start, Deferred
  <2>3. "redis" \in Parts  BY DEF Parts
  <2>4. QED  BY <1>3, <2>1, <2>2, <2>3, PushKeepsOrder DEF OpenRedis
<1>4. CASE BuildRegistry
  <2>1. PICK to \in {"poller", "return"} : Start("registry", to)
        BY <1>4 DEF BuildRegistry
  <2>2. InRange(stack) \subseteq {"redis"} /\ closed = {} /\ closed' = {}
        BY <1>4 DEF BuildRegistry, OrderInv, Deferred
  <2>3. \A x \in InRange(stack) : "registry" \notin Uses(x)
        BY <2>2 DEF Uses
  <2>4. InRange(stack) \union {"registry"} \subseteq Deferred'
        BY <2>1, <2>2 DEF Start, Deferred, Parts
  <2>5. "registry" \in Parts  BY DEF Parts
  <2>6. QED  BY <2>1, <2>2, <2>3, <2>4, <2>5, PushKeepsOrder
<1>5. CASE StartPoller
  <2>1. InRange(stack) \subseteq {"redis", "registry"} /\ closed = {} /\ closed' = {}
        BY <1>5 DEF StartPoller, OrderInv, Deferred
  <2>2. \A x \in InRange(stack) : "poller" \notin Uses(x)
        BY <2>1 DEF Uses
  <2>3. pc' = IF cfg.trap THEN "batcher" ELSE "serve"
        BY <1>5 DEF StartPoller, StartIf, Start
  <2>4. {"redis", "registry", "poller"} \subseteq Deferred'
        BY <2>3 DEF Deferred, Parts
  <2>5. Deferred = {"redis", "registry"}  BY <1>5 DEF StartPoller, Deferred
  <2>6. "poller" \in Parts  BY DEF Parts
  <2>7. StartIf(cfg.registry, "poller", IF cfg.trap THEN "batcher" ELSE "serve")
        BY <1>5 DEF StartPoller
  <2>8. QED  BY <2>1, <2>2, <2>4, <2>5, <2>6, <2>7, <1>0
<1>6. CASE StartBatcher
  <2>1. /\ InRange(stack) \subseteq {"redis", "registry", "poller"}
        /\ closed = {} /\ closed' = {}
        BY <1>6 DEF StartBatcher, OrderInv, Deferred
  <2>2. \A x \in InRange(stack) : "batcher" \notin Uses(x)
        BY <2>1 DEF Uses
  <2>3. pc' = "listener"
        BY <1>6 DEF StartBatcher, StartIf, Start
  <2>4. Deferred' = Parts /\ Deferred \subseteq Parts
        BY <2>3 DEF Deferred, Parts
  <2>5. "batcher" \in Parts /\ InRange(stack) \subseteq Parts  BY <2>1 DEF Parts
  <2>6. StartIf(webhookPossible /\ cfg.intervals, "batcher", "listener")
        BY <1>6 DEF StartBatcher
  <2>7. QED  BY <2>1, <2>2, <2>4, <2>5, <2>6, <1>0
<1>7. \A x \in Parts : "listener" \notin Uses(x) /\ "monitor" \notin Uses(x)
      BY DEF Uses
<1>8. InRange(stack) \subseteq Parts /\ {"listener", "monitor"} \subseteq Parts
      BY DEF OrderInv, InRange, Parts
<1>9. CASE StartListener
  <2>1. closed = {} /\ closed' = {} /\ pc' = "monitor"
        BY <1>9 DEF StartListener, Start, OrderInv
  <2>2. Deferred' = Parts  BY <2>1 DEF Deferred
  <2>3. QED  BY <1>7, <1>8, <1>9, <2>1, <2>2, PushKeepsOrder DEF StartListener
<1>10. CASE StartMonitor
  <2>1. closed = {} /\ closed' = {} /\ pc' = "serve"
        BY <1>10 DEF StartMonitor, StartIf, Start, OrderInv
  <2>2. Deferred' = Parts /\ Deferred = Parts
        BY <1>10, <2>1 DEF Deferred, StartMonitor
  <2>3. StartIf(cfg.monitor /\ webhookPossible, "monitor", "serve")
        BY <1>10 DEF StartMonitor
  <2>4. QED  BY <1>7, <1>8, <2>1, <2>2, <2>3, <1>0
<1>11. CASE CloseNext
  <2>1. /\ stack \in Seq(Parts) /\ stack # <<>>
        /\ closed' = closed \union {Head(stack)} /\ stack' = Tail(stack)
        /\ pc = "return" /\ pc' = pc
        BY <1>11 DEF CloseNext, OrderInv
  <2>2. /\ stack' \in Seq(Parts)
        /\ Len(stack) >= 1 /\ Head(stack) = stack[1]
        /\ \A i \in 1 .. Len(stack') : i + 1 \in 1 .. Len(stack) /\ stack'[i] = stack[i + 1]
        BY <2>1, TailFacts
  <2>3. Len(stack) \in Nat /\ Len(stack') \in Nat  BY <2>1, <2>2
  <2>4. InRange(stack') \subseteq InRange(stack)  BY <2>2 DEF InRange
  <2>5. ASSUME NEW i \in 1 .. Len(stack'), NEW j \in 1 .. Len(stack'), i < j
        PROVE  stack'[i] \notin Uses(stack'[j])
    <3>1. i + 1 \in 1 .. Len(stack) /\ j + 1 \in 1 .. Len(stack) /\ i + 1 < j + 1
          BY <2>2, <2>3, <2>5
    <3>2. QED  BY <2>2, <3>1 DEF OrderInv
  <2>6. ASSUME NEW part \in closed', NEW i \in 1 .. Len(stack')
        PROVE  part \notin Uses(stack'[i])
    <3>1. i + 1 \in 1 .. Len(stack) /\ 1 \in 1 .. Len(stack) /\ 1 < i + 1
          BY <2>2, <2>3
    <3>2. CASE part \in closed  BY <3>1, <3>2, <2>2 DEF OrderInv
    <3>3. CASE part = stack[1]  BY <3>1, <3>3, <2>2 DEF OrderInv
    <3>4. QED  BY <3>2, <3>3, <2>1, <2>2
  <2>7. Deferred' = Deferred  BY <2>1 DEF Deferred
  <2>8. QED  BY <2>1, <2>2, <2>4, <2>5, <2>6, <2>7 DEF OrderInv
<1>12. CASE Serve \/ Notify \/ Listen \/ ServerError \/ BeginShutdown \/ EndShutdown
      BY <1>12, SameStack
         DEF Serve, Notify, Listen, ServerError, BeginShutdown, EndShutdown, Deferred, OrderInv
<1>13. CASE Exit
      BY <1>13, SameStack DEF Exit, Deferred, OrderInv
<1>14. CASE Sigterm
  <2>1. Deferred \subseteq Deferred' /\ UNCHANGED <<stack, closed>>
        BY <1>14 DEF Sigterm, Deferred, Parts
  <2>2. closed # {} => pc' \in {"return", "exited"}
        BY <1>14 DEF Sigterm, OrderInv
  <2>3. QED  BY <2>1, <2>2, SameStack
<1>15. CASE Tick \/ \E r \in Requests : Arrive(r) \/ HandlerReturns(r)
      BY <1>15, SameStack DEF Tick, Arrive, HandlerReturns, Deferred, OrderInv
<1>16. CASE UNCHANGED vars
      BY <1>16, SameStack DEF Deferred, OrderInv
<1>17. QED
  BY <1>1, <1>2, <1>3, <1>4, <1>5, <1>6, <1>9, <1>10, <1>11, <1>12, <1>13, <1>14, <1>15, <1>16
     DEF Next, Wiring, Ending

\* The deferred calls of Start close nothing before the parts that use it, in every
\* configuration and on every way out.
THEOREM LifecycleUsersCloseFirst == Spec => []UsersCloseFirst
<1>1. OrderInv => UsersCloseFirst
      BY DEF OrderInv, UsersCloseFirst, Opened
<1>2. QED  BY <1>1, OrderInit, OrderStep, PTL DEF Spec

--------------------------------------------------------------------------------
(* What becomes of requests.                                               *)

Starting == pc \notin {"notify", "select", "drain", "return", "exited"}

\* Once Start returns, a request is still under way only if server.Shutdown has
\* given it all its time; nothing of what it reads from is closed before.
GraceInv ==
    /\ GraceServes
    /\ killed => signalled
    /\ Starting => server = "none"
    /\ pc = "drain" => server = "closed"
    /\ pc \in {"return", "exited"} => server \in {"none", "failed", "closed"}
    /\ server \in {"none", "starting", "failed"} => Active = {}
    /\ pc \in {"return", "exited"} /\ Active # {} => drain = DrainLimit

\* There is neither a server nor a request when main begins.
LEMMA GraceInit == Init => GraceInv
  BY DEF Init, GraceInv, GraceServes, Starting, Active

\* A step that leaves the requests, the signal and the drain alone.
LEMMA SameRequests ==
    ASSUME GraceInv, UNCHANGED <<req, killed, signalled, drain>>,
           Starting' => server' = "none",
           pc' = "drain" => server' = "closed",
           pc' \in {"return", "exited"} => server' \in {"none", "failed", "closed"},
           server' \in {"none", "starting", "failed"} =>
               server \in {"none", "starting", "failed"},
           pc' \in {"return", "exited"} =>
               \/ pc \in {"return", "exited"}
               \/ Active = {} \/ drain = DrainLimit
    PROVE  GraceInv'
  BY DEF GraceInv, GraceServes, Active

\* A step that cuts off what is under way, and ends the process.
LEMMA CutRequests ==
    ASSUME GraceInv, req' = CutActive, server' = "closed", pc' = "exited", drain' = drain,
           killed' => signalled',
           killed => killed',
           Active # {} => killed' \/ drain = DrainLimit
    PROVE  GraceInv'
<1>1. \A r \in Requests : req'[r] = IF req[r] = "active" THEN "cut" ELSE req[r]
      BY DEF CutActive
<1>2. Active' = {}
      BY <1>1 DEF Active
<1>3. GraceServes'
      BY <1>1 DEF GraceInv, GraceServes, Active
<1>4. ~Starting'
      BY DEF Starting
<1>5. QED  BY <1>2, <1>3, <1>4 DEF GraceInv

\* Every step of the server, its requests and the drain keeps GraceInv.
LEMMA GraceStep == OrderInv /\ GraceInv /\ [Next]_vars => GraceInv'
<1> SUFFICES ASSUME OrderInv, GraceInv, [Next]_vars PROVE GraceInv'
    OBVIOUS
<1> USE DEF KeepRest
<1>1. CASE FetchList \/ UNCHANGED vars
  <2>1. UNCHANGED lifeVars  BY <1>1 DEF FetchList
  <2>2. QED  BY <2>1, SameRequests DEF GraceInv, Starting
<1>2. CASE Wiring /\ ~FetchList
  <2>1. /\ Starting /\ UNCHANGED <<req, killed, signalled, drain, server>>
        /\ pc' \notin {"notify", "select", "drain", "exited"}
        BY <1>2 DEF Wiring, LoadConfig, OpenRedis, BuildRegistry, StartPoller, StartBatcher,
                    StartListener, StartMonitor, StartIf, Start, Starting
  <2>2. server = "none" /\ Active = {}  BY <2>1 DEF GraceInv
  <2>3. QED  BY <2>1, <2>2, SameRequests
<1>3. CASE Serve
      BY <1>3, SameRequests DEF Serve, GraceInv, Starting
<1>4. CASE Listen
      BY <1>4, SameRequests DEF Listen, GraceInv, Starting
<1>5. CASE Notify
      BY <1>5, SameRequests DEF Notify, GraceInv, Starting
<1>6. CASE ServerError
      BY <1>6, SameRequests DEF ServerError, GraceInv, Starting
<1>7. CASE BeginShutdown
      BY <1>7, SameRequests DEF BeginShutdown, GraceInv, Starting
<1>8. CASE EndShutdown
      BY <1>8, SameRequests DEF EndShutdown, Drained, GraceInv, Starting
<1>9. CASE CloseNext
      BY <1>9, SameRequests DEF CloseNext, GraceInv, Starting
<1>10. CASE Exit
      BY <1>10, CutRequests DEF Exit, GraceInv
<1>11. CASE Sigterm
  <2>1. ~killed  BY <1>11 DEF Sigterm, GraceInv
  <2>2. CASE Unnotified
        BY <1>11, <2>1, <2>2, CutRequests DEF Sigterm
  <2>3. CASE ~Unnotified
    <3>1. /\ UNCHANGED <<pc, req, server, drain>>
          /\ killed' = FALSE
          BY <1>11, <2>3 DEF Sigterm
    <3>2. QED  BY <2>1, <3>1 DEF GraceInv, GraceServes, Active, Starting
  <2>4. QED  BY <2>2, <2>3
<1>12. CASE Tick
  <2>1. /\ UNCHANGED <<pc, req, server, killed, signalled>>
        /\ drain' = drain \/ (pc = "drain" /\ drain < DrainLimit)
        BY <1>12 DEF Tick
  <2>2. drain = DrainLimit => drain' = drain
        BY <2>1, LifecycleAssumption
  <2>3. QED  BY <2>1, <2>2 DEF GraceInv, GraceServes, Active, Starting
<1>13. ASSUME NEW r \in Requests, Arrive(r) PROVE GraceInv'
  <2>1. /\ UNCHANGED <<pc, server, killed, signalled, drain>>
        /\ server = "up"
        /\ req' = [req EXCEPT ![r] = "active"]
        BY <1>13 DEF Arrive
  <2>2. GraceServes'  BY <2>1 DEF GraceInv, GraceServes
  <2>3. QED  BY <2>1, <2>2 DEF GraceInv, Starting
<1>14. ASSUME NEW r \in Requests, HandlerReturns(r) PROVE GraceInv'
  <2>1. PICK outcome \in Outcomes(r) : req' = [req EXCEPT ![r] = outcome]
        BY <1>14 DEF HandlerReturns
  <2>2. /\ UNCHANGED <<pc, server, killed, signalled, drain>>
        /\ r \in Active
        BY <1>14 DEF HandlerReturns, Active
  <2>3. outcome # "active" /\ outcome # "cut"  BY DEF Outcomes
  <2>4. outcome = "failed" => pc \in {"return", "exited"}
        BY DEF Outcomes, OrderInv
  <2>5. outcome = "failed" => drain = DrainLimit
        BY <2>2, <2>4 DEF GraceInv
  <2>6. Active' \subseteq Active  BY <2>1, <2>3 DEF Active
  <2>7. GraceServes'  BY <2>1, <2>2, <2>3, <2>5 DEF GraceInv, GraceServes
  <2>8. QED  BY <2>2, <2>6, <2>7 DEF GraceInv, Starting
<1>15. QED
  BY <1>1, <1>2, <1>3, <1>4, <1>5, <1>6, <1>7, <1>8, <1>9, <1>10, <1>11, <1>12, <1>13, <1>14
     DEF Next, Ending

\* A request fails or is cut off only when the handlers have had all the time of
\* server.Shutdown, or SIGTERM came before Start had asked for it.
THEOREM LifecycleGraceServes == Spec => []GraceServes
<1>1. GraceInv => GraceServes
      BY DEF GraceInv
<1>2. QED  BY <1>1, OrderInit, OrderStep, GraceInit, GraceStep, PTL DEF Spec

\* The startup is a part of the process: nothing but FetchList moves it, and
\* LoadConfig puts it back to its beginning.
LEMMA StartupInProcess == StartupInv /\ [Next]_vars => StartupInv'
<1> SUFFICES ASSUME StartupInv, [Next]_vars PROVE StartupInv'
  OBVIOUS
<1>1. CASE FetchList
  BY <1>1, StartupInvStep DEF FetchList
<1>2. CASE LoadConfig
  <2>1. phase' = "fetching" /\ now' = 0 /\ backoff' = InitialBackoff /\ up' = CHOOSE u \in Ups : TRUE
    BY <1>2 DEF LoadConfig
  <2>2. up' \in Ups
    <3>1. up \in Ups
      BY DEF StartupInv, StartupTypeOK
    <3> QED
      BY <2>1, <3>1
  <2>3. StartupInit'
    BY <2>1, <2>2 DEF StartupInit
  <2> QED
    BY <2>1, <2>2, StartupAssumption DEF StartupInv, StartupTypeOK, ReadyBoots, DecidedInTime
<1>3. CASE UNCHANGED startupVars
  BY <1>3 DEF startupVars, StartupInv, StartupTypeOK, ReadyBoots, DecidedInTime
<1>4. FetchList \/ LoadConfig \/ UNCHANGED startupVars
  BY DEF Next, Wiring, Ending, OpenRedis, BuildRegistry, StartPoller, StartBatcher, StartListener,
         StartMonitor, Serve, Listen, Notify, Sigterm, BeginShutdown, EndShutdown, ServerError,
         CloseNext, Exit, Tick, Arrive, HandlerReturns
<1> QED
  BY <1>1, <1>2, <1>3, <1>4

\* A process whose device-registry is up in time does not give up on it
\* (LoadConfig, fetchRegistryOLTSWithRetry), whatever else it is configured to do and
\* whenever SIGTERM comes.
THEOREM LifecycleReadyBoots == Spec => []ReadyBoots
<1>1. Init => StartupInv
  BY StartupInvInit DEF Init
<1>2. StartupInv => ReadyBoots
  BY DEF StartupInv
<1> QED
  BY <1>1, <1>2, StartupInProcess, PTL DEF Spec

\* What a step does to the requests and the clocks.
LEMMA ClockStep ==
    ASSUME LifecycleTypeOK, [Next]_vars
    PROVE  /\ req' \in [Requests -> {"idle", "active", "answered", "unsent", "failed", "cut"}]
           /\ age' \in [Requests -> 0 .. MaxAge]
           /\ drain' \in 0 .. DrainLimit
<1>1. /\ req \in [Requests -> {"idle", "active", "answered", "unsent", "failed", "cut"}]
      /\ age \in [Requests -> 0 .. MaxAge] /\ drain \in 0 .. DrainLimit
  BY DEF LifecycleTypeOK
<1>2. CASE Tick
  <2>1. req' = req
    BY <1>2 DEF Tick
  <2>2. age' \in [Requests -> 0 .. MaxAge]
    BY <1>1, <1>2, LifecycleAssumption DEF Tick
  <2>3. drain' \in 0 .. DrainLimit
    BY <1>1, <1>2, LifecycleAssumption DEF Tick
  <2> QED
    BY <1>1, <2>1, <2>2, <2>3
<1>3. CASE \E r \in Requests : Arrive(r) \/ HandlerReturns(r)
  <2>1. PICK r \in Requests : Arrive(r) \/ HandlerReturns(r)
    BY <1>3
  <2>2. CASE Arrive(r)
    BY <1>1, <2>2 DEF Arrive
  <2>3. CASE HandlerReturns(r)
    <3>1. PICK outcome \in Outcomes(r) : req' = [req EXCEPT ![r] = outcome]
      BY <2>3 DEF HandlerReturns
    <3>2. outcome \in {"answered", "unsent", "failed"}
      BY DEF Outcomes
    <3> QED
      BY <1>1, <2>3, <3>1, <3>2 DEF HandlerReturns
  <2> QED
    BY <2>1, <2>2, <2>3
<1>4. CASE req' \in {req, CutActive} /\ UNCHANGED <<age, drain>>
  BY <1>1, <1>4 DEF CutActive
<1>5. \/ Tick
      \/ \E r \in Requests : Arrive(r) \/ HandlerReturns(r)
      \/ req' \in {req, CutActive} /\ UNCHANGED <<age, drain>>
  <2>1. CASE Sigterm
    BY <2>1 DEF Sigterm
  <2>2. CASE Exit
    BY <2>2 DEF Exit
  <2>3. CASE UNCHANGED vars
    BY <2>3 DEF vars, lifeVars
  <2>4. CASE Wiring \/ Serve \/ Listen \/ Notify
    BY <2>4 DEF Wiring, FetchList, LoadConfig, OpenRedis, BuildRegistry, StartPoller, StartBatcher,
                StartListener, StartMonitor, Serve, Listen, Notify, KeepRest, lifeVars
  <2>5. CASE BeginShutdown \/ EndShutdown \/ ServerError \/ CloseNext
    BY <2>5 DEF BeginShutdown, EndShutdown, ServerError, CloseNext, KeepRest
  <2> QED
    BY <2>1, <2>2, <2>3, <2>4, <2>5 DEF Next, Ending
<1> QED
  BY <1>2, <1>3, <1>4, <1>5

\* Type correctness of the process, for any number of requests and any limits; the
\* drain of server.Shutdown never outlasts its limit.
THEOREM LifecycleTypeCorrect == Spec => []LifecycleTypeOK
<1> DEFINE TypeInv == LifecycleTypeOK /\ StartupInv /\ OrderInv
<1>1. Init => TypeInv
  <2> SUFFICES ASSUME Init PROVE TypeInv
    OBVIOUS
  <2>1. StartupInv /\ OrderInv
    BY StartupInvInit, OrderInit DEF Init
  <2>2. /\ req \in [Requests -> {"idle", "active", "answered", "unsent", "failed", "cut"}]
        /\ age \in [Requests -> 0 .. MaxAge] /\ drain \in 0 .. DrainLimit
    BY LifecycleAssumption DEF Init
  <2>3. cfg \in Configs /\ closed \subseteq Parts
    BY DEF Init
  <2> QED
    BY <2>1, <2>2, <2>3 DEF LifecycleTypeOK, StartupInv, OrderInv
<1>2. TypeInv /\ [Next]_vars => TypeInv'
  <2> SUFFICES ASSUME TypeInv, [Next]_vars PROVE TypeInv'
    OBVIOUS
  <2>1. StartupInv' /\ OrderInv'
    BY StartupInProcess, OrderStep
  <2>2. cfg' = cfg
    BY DEF Next, Wiring, Ending, FetchList, LoadConfig, OpenRedis, BuildRegistry, StartPoller, StartBatcher,
           StartListener, StartMonitor, Serve, Listen, Notify, Sigterm, BeginShutdown, EndShutdown,
           ServerError, CloseNext, Exit, Tick, Arrive, HandlerReturns, KeepRest, vars, lifeVars
  <2>3. closed' \subseteq Parts
    <3>1. CASE CloseNext
      <4>1. stack \in Seq(Parts) /\ stack # <<>>
        BY <3>1 DEF CloseNext, OrderInv
      <4>2. Head(stack) \in Parts
        BY <4>1
      <4> QED
        BY <3>1, <4>2 DEF CloseNext, LifecycleTypeOK
    <3>2. CASE closed' = closed
      BY <3>2 DEF LifecycleTypeOK
    <3>3. CloseNext \/ closed' = closed
      BY DEF Next, Wiring, Ending, FetchList, LoadConfig, OpenRedis, BuildRegistry, StartPoller, StartBatcher,
             StartListener, StartMonitor, Serve, Listen, Notify, Sigterm, BeginShutdown, EndShutdown,
             ServerError, Exit, Tick, Arrive, HandlerReturns, KeepRest, vars, lifeVars
    <3> QED
      BY <3>1, <3>2, <3>3
  <2>4. LifecycleTypeOK'
    BY <2>1, <2>2, <2>3, ClockStep DEF LifecycleTypeOK, StartupInv, OrderInv
  <2> QED
    BY <2>1, <2>4
<1>3. TypeInv => LifecycleTypeOK
  OBVIOUS
<1> QED
  BY <1>1, <1>2, <1>3, PTL DEF Spec
================================================================================
