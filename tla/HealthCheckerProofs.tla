------------------------ MODULE HealthCheckerProofs ------------------------
(***************************************************************************)
(* The guarantees of the readiness probe, for any number of requests and   *)
(* dependencies, every ttl and every pattern of outages.                   *)
(***************************************************************************)
EXTENDS HealthChecker, TLAPS

\* The minimum of two numbers.
LEMMA MinOfTwo ==
    ASSUME NEW a \in Nat, NEW b \in Nat
    PROVE  Min({a, b}) \in {a, b} /\ Min({a, b}) <= a /\ Min({a, b}) <= b
<1>1. \E x \in {a, b} : \A y \in {a, b} : x <= y
  <2>1. CASE a <= b
    BY <2>1
  <2>2. CASE b <= a
    BY <2>2
  <2> QED
    BY <2>1, <2>2
<1>2. Min({a, b}) \in {a, b} /\ \A y \in {a, b} : Min({a, b}) <= y
  BY <1>1 DEF Min
<1> QED
  BY <1>2

\* The bounds and times are numbers.
LEMMA Constants ==
    /\ NumDeps \in Nat /\ NumDeps >= 1 /\ 1 \in Deps
    /\ MaxTime \in Nat /\ MaxTime >= 1 /\ MaxFlips \in Nat /\ timeout \in Nat
    /\ failureTTL \in Nat /\ failureTTL >= 1
    /\ \A d \in Deps : ttl[d] \in Nat /\ ttl[d] >= 1
    /\ Times \subseteq Int /\ (1..MaxTime) \subseteq Times /\ -MaxTime \in Times
    /\ None \notin Callers
BY HealthAssumption DEF Deps, Times

\* How long a result is used: a success for the ttl, a failure for no longer than
\* either limit.
LEMMA TtlFacts ==
    ASSUME NEW d \in Deps
    PROVE  /\ Ttl(d) \in Nat /\ Ttl(d) <= ttl[d]
           /\ lastErr[d] => Ttl(d) <= failureTTL
           /\ lastErr[d] => Ttl(d) = Min({ttl[d], failureTTL})
<1>1. ttl[d] \in Nat /\ failureTTL \in Nat
  BY Constants
<1>2. /\ Min({ttl[d], failureTTL}) \in Nat /\ Min({ttl[d], failureTTL}) <= ttl[d]
      /\ Min({ttl[d], failureTTL}) <= failureTTL
  BY <1>1, MinOfTwo
<1> QED
  BY <1>1, <1>2 DEF Ttl

\* The numbers of a state.
LEMMA Numbers ==
    ASSUME TypeOK
    PROVE  /\ now \in Nat /\ now \in Int /\ now >= 1 /\ now <= MaxTime
           /\ \A d \in Deps : upAt[d] \in Int /\ downAt[d] \in Int /\ cancelAt[d] \in Int
                              /\ lastAt[d] \in Nat
           /\ \A c \in Callers : start[c] \in Nat /\ began[c] \in Nat
BY Constants DEF TypeOK, Times

\* No dependency has a result yet and no call has begun.
LEMMA HealthInit == Init => HealthInv
<1> SUFFICES ASSUME Init PROVE HealthInv
  OBVIOUS
<1>1. TypeOK
  BY Constants DEF Init, TypeOK
<1>2. OneProbe
  BY DEF Init, OneProbe
<1>3. PastInv
  BY Constants DEF Init, PastInv
<1>4. UpWasUp /\ DownHasCause
  BY DEF Init, UpWasUp, DownHasCause
<1> QED
  BY <1>1, <1>2, <1>3, <1>4 DEF HealthInv

\* Time passes and dependencies go down and come back: the moments at which one was
\* last up, and last down, only move forward.
LEMMA WorldKeeps ==
    ASSUME HealthInv,
           Tick \/ \E d \in Deps : Flip(d)
    PROVE  HealthInv'
<1>1. /\ TypeOK /\ PastInv /\ now \in Int /\ MaxTime \in Nat
      /\ \A d \in Deps : /\ upAt[d] \in Int /\ downAt[d] \in Int /\ cancelAt[d] \in Int
                         /\ lastAt[d] \in Nat /\ ttl[d] \in Nat
      /\ \A c \in Callers : start[c] \in Nat
      /\ failureTTL \in Nat
  BY Numbers, Constants DEF HealthInv
<1>2. UNCHANGED <<cancelAt, mu, lastAt, lastErr, pc, start, dep, began, cancelled, answers, healthy>>
  BY DEF Tick, Flip, deps, calls
<1>3. /\ now' \in 1..MaxTime /\ now' >= now /\ flips' \in 0..MaxFlips
      /\ up' \in [Deps -> BOOLEAN] /\ upAt' \in [Deps -> Times] /\ downAt' \in [Deps -> Times]
      /\ \A d \in Deps : /\ upAt'[d] >= upAt[d] /\ downAt'[d] >= downAt[d]
                         /\ upAt'[d] <= now' /\ downAt'[d] <= now'
                         /\ IF up'[d] THEN upAt'[d] = now' ELSE downAt'[d] = now'
  <2>1. CASE Tick
    <3>1. /\ now' = now + 1 /\ now' \in 1..MaxTime /\ now' \in Times
          /\ up' = up /\ flips' = flips
          /\ upAt' = [d \in Deps |-> IF up[d] THEN now + 1 ELSE upAt[d]]
          /\ downAt' = [d \in Deps |-> IF up[d] THEN downAt[d] ELSE now + 1]
      BY <1>1, <2>1, Constants DEF Tick, TypeOK
    <3>2. upAt' \in [Deps -> Times] /\ downAt' \in [Deps -> Times]
      BY <1>1, <3>1 DEF TypeOK
    <3> QED
      BY <1>1, <3>1, <3>2 DEF TypeOK, PastInv
  <2>2. ASSUME NEW d \in Deps, Flip(d)
        PROVE  /\ now' \in 1..MaxTime /\ now' >= now /\ flips' \in 0..MaxFlips
               /\ up' \in [Deps -> BOOLEAN] /\ upAt' \in [Deps -> Times]
               /\ downAt' \in [Deps -> Times]
               /\ \A e \in Deps : /\ upAt'[e] >= upAt[e] /\ downAt'[e] >= downAt[e]
                                  /\ upAt'[e] <= now' /\ downAt'[e] <= now'
                                  /\ IF up'[e] THEN upAt'[e] = now' ELSE downAt'[e] = now'
    <3>1. /\ now' = now /\ flips' \in 0..MaxFlips /\ now \in Times
          /\ up' = [up EXCEPT ![d] = ~@]
          /\ upAt' = IF up[d] THEN upAt ELSE [upAt EXCEPT ![d] = now]
          /\ downAt' = IF up[d] THEN [downAt EXCEPT ![d] = now] ELSE downAt
      BY <1>1, <2>2, Constants DEF Flip, TypeOK
    <3>2. up' \in [Deps -> BOOLEAN] /\ up'[d] = ~up[d]
          /\ \A e \in Deps \ {d} : up'[e] = up[e]
      BY <1>1, <3>1 DEF TypeOK
    <3>3. upAt' \in [Deps -> Times] /\ downAt' \in [Deps -> Times]
      BY <1>1, <3>1 DEF TypeOK
    <3>4. \A e \in Deps : /\ upAt'[e] = IF e = d /\ ~up[d] THEN now ELSE upAt[e]
                          /\ downAt'[e] = IF e = d /\ up[d] THEN now ELSE downAt[e]
      BY <1>1, <3>1 DEF TypeOK
    <3> QED
      BY <1>1, <3>1, <3>2, <3>3, <3>4 DEF TypeOK, PastInv
  <2> QED
    BY <2>1, <2>2
<1>4. \A d \in Deps : upAt'[d] \in Int /\ downAt'[d] \in Int
  BY <1>3, Constants
<1>5. TypeOK'
  BY <1>1, <1>2, <1>3 DEF TypeOK
<1>6. OneProbe'
  BY <1>2 DEF HealthInv, OneProbe
<1>7. PastInv'
  <2>1. now' \in Int
    BY <1>3, <1>1
  <2> QED
    BY <1>1, <1>2, <1>3, <1>4, <2>1 DEF PastInv
<1>8. UpWasUp' /\ DownHasCause'
  BY <1>1, <1>2, <1>3, <1>4 DEF HealthInv, UpWasUp, DownHasCause
<1> QED
  BY <1>5, <1>6, <1>7, <1>8 DEF HealthInv

\* One dependency's answer: only the call's own row changes, and it goes on to the
\* next dependency or is done.
LEMMA AnswerEffect ==
    ASSUME TypeOK, NEW c \in Callers, NEW d \in Deps, NEW err \in BOOLEAN,
           Answer(c, d, err)
    PROVE  /\ answers' \in [Callers -> [Deps -> {"none", "up", "down"}]]
           /\ \A a \in Callers, e \in Deps :
                 answers'[a][e] = IF a = c /\ e = d THEN (IF err THEN "down" ELSE "up")
                                  ELSE answers[a][e]
           /\ healthy' \in [Callers -> BOOLEAN]
           /\ dep' \in [Callers -> 1..(NumDeps + 1)]
           /\ pc' \in [Callers -> {"idle", "lock", "probe", "done"}]
           /\ \A a \in Callers \ {c} : pc'[a] = pc[a] /\ dep'[a] = dep[a]
           /\ pc'[c] \in {"lock", "done"}
           /\ pc'[c] # "done" => dep'[c] \in Deps
<1>1. /\ answers' = [answers EXCEPT ![c][d] = IF err THEN "down" ELSE "up"]
      /\ healthy' = [healthy EXCEPT ![c] = @ /\ ~(err /\ d \in Critical)]
      /\ dep' = [dep EXCEPT ![c] = d + 1]
      /\ pc' = [pc EXCEPT ![c] = IF d = NumDeps THEN "done" ELSE "lock"]
  BY DEF Answer
<1>2. /\ answers' \in [Callers -> [Deps -> {"none", "up", "down"}]]
      /\ \A a \in Callers, e \in Deps :
            answers'[a][e] = IF a = c /\ e = d THEN (IF err THEN "down" ELSE "up")
                             ELSE answers[a][e]
  BY <1>1 DEF TypeOK
<1>3. healthy' \in [Callers -> BOOLEAN]
  <2>1. healthy \in [Callers -> BOOLEAN]
    BY DEF TypeOK
  <2>2. PICK b \in BOOLEAN : b = (healthy[c] /\ ~(err /\ d \in Critical))
    BY <2>1
  <2>3. healthy' = [healthy EXCEPT ![c] = b]
    BY <1>1, <2>1, <2>2
  <2> QED
    BY <2>1, <2>3
<1>4. /\ d \in Nat /\ d >= 1 /\ d <= NumDeps /\ NumDeps \in Nat
      /\ dep \in [Callers -> 1..(NumDeps + 1)]
      /\ pc \in [Callers -> {"idle", "lock", "probe", "done"}]
  BY Constants DEF TypeOK, Deps
<1>5. d + 1 \in 1..(NumDeps + 1) /\ (d # NumDeps => d + 1 \in Deps)
  BY <1>4 DEF Deps
<1> QED
  BY <1>1, <1>2, <1>3, <1>4, <1>5

\* A request begins, is cancelled, or is answered.
LEMMA RequestKeeps ==
    ASSUME HealthInv, NEW c \in Callers, Check(c) \/ Cancel(c) \/ Respond(c)
    PROVE  HealthInv'
<1>1. /\ TypeOK /\ PastInv /\ OneProbe /\ now \in Int /\ now \in 0..MaxTime
      /\ \A d \in Deps : /\ upAt[d] \in Int /\ downAt[d] \in Int /\ cancelAt[d] \in Int
                         /\ ttl[d] \in Nat
      /\ \A a \in Callers : start[a] \in Nat
      /\ failureTTL \in Nat
  BY Numbers, Constants DEF HealthInv
<1>2. /\ UNCHANGED <<now, up, downAt, upAt, cancelAt, mu, lastAt, lastErr, began, flips>>
  BY DEF Check, Cancel, Respond, truth, deps
<1>3. CASE Check(c)
  <2>1. /\ pc[c] = "idle" /\ UNCHANGED <<dep, cancelled, answers, healthy>>
        /\ pc' = [pc EXCEPT ![c] = "lock"] /\ start' = [start EXCEPT ![c] = now]
    BY <1>3 DEF Check
  <2>2. TypeOK'
    BY <1>1, <1>2, <2>1 DEF TypeOK
  <2>3. OneProbe'
    BY <1>1, <1>2, <2>1, Constants DEF OneProbe, TypeOK
  <2>4. /\ \A a \in Callers : start'[a] = IF a = c THEN now ELSE start[a]
        /\ \A a \in Callers : pc'[a] = IF a = c THEN "lock" ELSE pc[a]
    BY <1>1, <2>1 DEF TypeOK
  <2>5. PastInv'
    BY <1>1, <1>2, <2>1, <2>4 DEF PastInv
  <2>6. UpWasUp' /\ DownHasCause'
    <3>1. \A d \in Deps : answers[c][d] = "none"
      BY <1>1, <2>1 DEF PastInv
    <3> QED
      BY <1>2, <2>1, <2>4, <3>1 DEF HealthInv, UpWasUp, DownHasCause
  <2> QED
    BY <2>2, <2>3, <2>5, <2>6 DEF HealthInv
<1>4. CASE Cancel(c)
  <2>1. UNCHANGED <<pc, start, dep, answers, healthy>> /\ cancelled' \in [Callers -> BOOLEAN]
    BY <1>1, <1>4 DEF Cancel, TypeOK
  <2>2. TypeOK'
    BY <1>1, <1>2, <2>1 DEF TypeOK
  <2> QED
    BY <1>2, <2>1, <2>2 DEF HealthInv, OneProbe, PastInv, UpWasUp, DownHasCause
<1>5. CASE Respond(c)
  <2>1. /\ pc[c] = "done"
        /\ pc' = [pc EXCEPT ![c] = "idle"] /\ start' = [start EXCEPT ![c] = 0]
        /\ dep' = [dep EXCEPT ![c] = 1] /\ cancelled' = [cancelled EXCEPT ![c] = FALSE]
        /\ answers' = [answers EXCEPT ![c] = [d \in Deps |-> "none"]]
        /\ healthy' = [healthy EXCEPT ![c] = TRUE]
    BY <1>5 DEF Respond
  <2>2. /\ \A a \in Callers : start'[a] = IF a = c THEN 0 ELSE start[a]
        /\ \A a \in Callers : pc'[a] = IF a = c THEN "idle" ELSE pc[a]
        /\ \A a \in Callers : dep'[a] = IF a = c THEN 1 ELSE dep[a]
        /\ \A a \in Callers, d \in Deps : answers'[a][d] = IF a = c THEN "none" ELSE answers[a][d]
    BY <1>1, <2>1 DEF TypeOK
  <2>3. TypeOK'
    BY <1>1, <1>2, <2>1, <2>2, Constants DEF TypeOK
  <2>4. OneProbe'
    BY <1>1, <1>2, <2>1, <2>2, Constants DEF OneProbe, TypeOK
  <2>5. PastInv'
    BY <1>1, <1>2, <2>2, Numbers DEF PastInv
  <2>6. UpWasUp' /\ DownHasCause'
    BY <1>2, <2>2 DEF HealthInv, UpWasUp, DownHasCause
  <2> QED
    BY <2>3, <2>4, <2>5, <2>6 DEF HealthInv
<1> QED
  BY <1>3, <1>4, <1>5

\* A call gets a mutex: the cached result is as young as its ttl wants, counted from
\* the beginning of the call.
LEMMA LockKeeps ==
    ASSUME HealthInv, NEW c \in Callers, Lock(c)
    PROVE  HealthInv'
<1> DEFINE d == dep[c]
<1>1. /\ TypeOK /\ PastInv /\ OneProbe /\ now \in Int /\ now \in 0..MaxTime
      /\ \A e \in Deps : /\ upAt[e] \in Int /\ downAt[e] \in Int /\ cancelAt[e] \in Int
                         /\ ttl[e] \in Nat /\ lastAt[e] \in Nat
      /\ \A a \in Callers : start[a] \in Nat
      /\ failureTTL \in Nat
  BY Numbers, Constants DEF HealthInv
<1>2. /\ UNCHANGED <<now, up, downAt, upAt, cancelAt, lastAt, lastErr, start, cancelled, flips>>
      /\ pc[c] = "lock" /\ mu[d] = None
  BY DEF Lock, truth
<1>3. d \in Deps /\ lastErr[d] \in BOOLEAN
  BY <1>1, <1>2 DEF TypeOK
<1>4. CASE Cached(c, d) /\ Answer(c, d, lastErr[d]) /\ UNCHANGED <<mu, began>>
  <2>1. /\ answers' \in [Callers -> [Deps -> {"none", "up", "down"}]]
        /\ \A a \in Callers, e \in Deps :
              answers'[a][e] = IF a = c /\ e = d THEN (IF lastErr[d] THEN "down" ELSE "up")
                               ELSE answers[a][e]
        /\ healthy' \in [Callers -> BOOLEAN]
        /\ dep' \in [Callers -> 1..(NumDeps + 1)]
        /\ pc' \in [Callers -> {"idle", "lock", "probe", "done"}]
        /\ \A a \in Callers \ {c} : pc'[a] = pc[a] /\ dep'[a] = dep[a]
        /\ pc'[c] \in {"lock", "done"}
        /\ pc'[c] # "done" => dep'[c] \in Deps
    <3> HIDE DEF d
    <3> QED
      BY <1>1, <1>3, <1>4, AnswerEffect
  <2>2. TypeOK'
    BY <1>1, <1>2, <1>4, <2>1 DEF TypeOK
  <2>3. OneProbe'
    <3>1. \A a \in Callers : pc'[a] = "probe" => a # c /\ pc[a] = "probe" /\ dep'[a] = dep[a]
      BY <2>1
    <3>2. \A e \in Deps : mu[e] # None => mu[e] \in Callers /\ mu[e] # c
      BY <1>1, <1>2 DEF OneProbe, TypeOK
    <3>3. \A e \in Deps : mu[e] # None => pc'[mu[e]] = pc[mu[e]] /\ dep'[mu[e]] = dep[mu[e]]
      BY <2>1, <3>2
    <3>4. mu' = mu
      BY <1>4
    <3> QED
      BY <1>1, <3>1, <3>3, <3>4 DEF OneProbe
  <2>4. PastInv'
    BY <1>1, <1>2, <2>1 DEF PastInv
  <2>5. /\ lastAt[d] # 0 /\ start[c] - lastAt[d] < Ttl(d)
        /\ Ttl(d) \in Nat /\ Ttl(d) <= ttl[d] /\ (lastErr[d] => Ttl(d) <= failureTTL)
    BY <1>3, <1>4, TtlFacts DEF Cached
  <2>6. UpWasUp'
    <3>1. ~lastErr[d] => upAt[d] >= lastAt[d]
      BY <1>1, <1>3, <2>5 DEF PastInv
    <3>2. ~lastErr[d] => upAt[d] > start[c] - ttl[d]
      BY <1>1, <1>3, <2>5, <3>1
    <3> QED
      BY <1>2, <2>1, <3>2 DEF HealthInv, UpWasUp
  <2>7. DownHasCause'
    <3>1. lastErr[d] => downAt[d] >= lastAt[d] \/ cancelAt[d] >= lastAt[d]
      BY <1>1, <1>3, <2>5 DEF PastInv
    <3>2. lastErr[d] => \/ downAt[d] > start[c] - failureTTL
                        \/ cancelAt[d] > start[c] - failureTTL
      BY <1>1, <1>3, <2>5, <3>1
    <3> QED
      BY <1>2, <2>1, <3>2 DEF HealthInv, DownHasCause
  <2> QED
    BY <2>2, <2>3, <2>4, <2>6, <2>7 DEF HealthInv
<1>5. CASE /\ mu' = [mu EXCEPT ![d] = c] /\ pc' = [pc EXCEPT ![c] = "probe"]
           /\ began' = [began EXCEPT ![c] = now] /\ UNCHANGED <<dep, answers, healthy>>
  <2>1. /\ \A e \in Deps : mu'[e] = IF e = d THEN c ELSE mu[e]
        /\ \A a \in Callers : pc'[a] = IF a = c THEN "probe" ELSE pc[a]
    BY <1>1, <1>3, <1>5 DEF TypeOK
  <2>2. TypeOK'
    BY <1>1, <1>2, <1>3, <1>5, <2>1 DEF TypeOK
  <2>3. OneProbe'
    <3>1. \A a \in Callers : pc[a] = "probe" => dep[a] # d /\ dep[a] \in Deps
      BY <1>1, <1>2, Constants DEF OneProbe, TypeOK
    <3> QED
      BY <1>1, <1>2, <1>3, <1>5, <2>1, <3>1 DEF OneProbe, TypeOK
  <2>4. PastInv'
    BY <1>1, <1>2, <1>5, <2>1 DEF PastInv
  <2>5. UpWasUp' /\ DownHasCause'
    BY <1>2, <1>5 DEF HealthInv, UpWasUp, DownHasCause
  <2> QED
    BY <2>2, <2>3, <2>4, <2>5 DEF HealthInv
<1> QED
  BY <1>4, <1>5 DEF Lock

\* A probe returns: its result is of this moment.
LEMMA ProbeEndKeeps ==
    ASSUME HealthInv, NEW c \in Callers, ProbeEnd(c)
    PROVE  HealthInv'
<1> DEFINE d   == dep[c]
           err == ~up[d] \/ cancelled[c]
<1>1. /\ TypeOK /\ PastInv /\ OneProbe /\ now \in Int /\ now \in 0..MaxTime /\ now >= 1
      /\ \A e \in Deps : /\ upAt[e] \in Int /\ downAt[e] \in Int /\ cancelAt[e] \in Int
                         /\ ttl[e] \in Nat /\ ttl[e] >= 1 /\ lastAt[e] \in Nat
      /\ \A a \in Callers : start[a] \in Nat
      /\ failureTTL \in Nat /\ failureTTL >= 1
  BY Numbers, Constants DEF HealthInv
<1>2. /\ UNCHANGED <<now, up, downAt, upAt, start, cancelled, flips>>
      /\ pc[c] = "probe" /\ Answer(c, d, err)
      /\ lastErr' = [lastErr EXCEPT ![d] = err] /\ lastAt' = [lastAt EXCEPT ![d] = now]
      /\ cancelAt' = IF cancelled[c] THEN [cancelAt EXCEPT ![d] = now] ELSE cancelAt
      /\ mu' = [mu EXCEPT ![d] = None] /\ began' = [began EXCEPT ![c] = 0]
  BY DEF ProbeEnd, truth
<1>3. d \in Deps /\ err \in BOOLEAN
  BY <1>1, <1>2 DEF TypeOK
<1>4. /\ answers' \in [Callers -> [Deps -> {"none", "up", "down"}]]
      /\ \A a \in Callers, e \in Deps :
            answers'[a][e] = IF a = c /\ e = d THEN (IF err THEN "down" ELSE "up")
                             ELSE answers[a][e]
      /\ healthy' \in [Callers -> BOOLEAN]
      /\ dep' \in [Callers -> 1..(NumDeps + 1)]
      /\ pc' \in [Callers -> {"idle", "lock", "probe", "done"}]
      /\ \A a \in Callers \ {c} : pc'[a] = pc[a] /\ dep'[a] = dep[a]
      /\ pc'[c] \in {"lock", "done"}
      /\ pc'[c] # "done" => dep'[c] \in Deps
  <2> HIDE DEF d, err
  <2> QED
    BY <1>1, <1>2, <1>3, AnswerEffect
<1>5. /\ \A e \in Deps : /\ lastErr'[e] = IF e = d THEN err ELSE lastErr[e]
                         /\ lastAt'[e] = IF e = d THEN now ELSE lastAt[e]
                         /\ mu'[e] = IF e = d THEN None ELSE mu[e]
                         /\ cancelAt'[e] = IF e = d /\ cancelled[c] THEN now ELSE cancelAt[e]
      /\ lastErr' \in [Deps -> BOOLEAN] /\ lastAt' \in [Deps -> 0..MaxTime]
      /\ cancelAt' \in [Deps -> Times] /\ mu' \in [Deps -> Callers \cup {None}]
      /\ began' \in [Callers -> 0..MaxTime]
  <2> HIDE DEF err
  <2>1. now \in Times
    BY <1>1, Constants DEF TypeOK
  <2>2. /\ lastErr \in [Deps -> BOOLEAN] /\ lastAt \in [Deps -> 0..MaxTime]
        /\ cancelAt \in [Deps -> Times] /\ mu \in [Deps -> Callers \cup {None}]
        /\ began \in [Callers -> 0..MaxTime] /\ 0 \in 0..MaxTime
    BY <1>1, Constants DEF TypeOK
  <2> HIDE DEF d
  <2>3. /\ lastErr' \in [Deps -> BOOLEAN]
        /\ \A e \in Deps : lastErr'[e] = IF e = d THEN err ELSE lastErr[e]
    BY <1>2, <1>3, <2>2
  <2>4. /\ lastAt' \in [Deps -> 0..MaxTime]
        /\ \A e \in Deps : lastAt'[e] = IF e = d THEN now ELSE lastAt[e]
    BY <1>1, <1>2, <1>3, <2>2
  <2>5. /\ cancelAt' \in [Deps -> Times]
        /\ \A e \in Deps : cancelAt'[e] = IF e = d /\ cancelled[c] THEN now ELSE cancelAt[e]
    BY <1>2, <1>3, <2>1, <2>2
  <2>6. /\ mu' \in [Deps -> Callers \cup {None}]
        /\ \A e \in Deps : mu'[e] = IF e = d THEN None ELSE mu[e]
    BY <1>2, <1>3, <2>2
  <2>7. began' \in [Callers -> 0..MaxTime]
    BY <1>2, <2>2
  <2> QED
    BY <2>3, <2>4, <2>5, <2>6, <2>7
<1>6. IF up[d] THEN upAt[d] = now ELSE downAt[d] = now
  BY <1>1, <1>3 DEF PastInv
<1>7. /\ ~err => up[d]
      /\ err => ~up[d] \/ cancelled[c]
      /\ start[c] <= now
  BY <1>1 DEF PastInv
<1> HIDE DEF d, err
<1>8. TypeOK'
  BY <1>1, <1>2, <1>4, <1>5 DEF TypeOK
<1>9. OneProbe'
  <2>1. dep[c] = d
    BY DEF d
  <2>2. \A a \in Callers \ {c} : pc[a] = "probe" => dep[a] # d /\ dep[a] \in Deps
    BY <1>1, <1>2, <2>1 DEF OneProbe, TypeOK
  <2>3. \A e \in Deps \ {d} : mu[e] # c
    BY <1>1, <2>1, Constants DEF OneProbe
  <2> QED
    BY <1>1, <1>3, <1>4, <1>5, <2>2, <2>3 DEF OneProbe, TypeOK
<1>10. PastInv'
  <2>1. \A e \in Deps : /\ upAt[e] <= now /\ downAt[e] <= now /\ cancelAt'[e] <= now
                        /\ lastAt'[e] <= now /\ cancelAt'[e] >= cancelAt[e]
                        /\ cancelAt'[e] \in Int
    BY <1>1, <1>5 DEF PastInv
  <2>2. \A e \in Deps : lastAt'[e] # 0 =>
           IF lastErr'[e] THEN downAt[e] >= lastAt'[e] \/ cancelAt'[e] >= lastAt'[e]
           ELSE upAt[e] >= lastAt'[e]
    <3> SUFFICES ASSUME NEW e \in Deps, lastAt'[e] # 0
                 PROVE  IF lastErr'[e] THEN downAt[e] >= lastAt'[e] \/ cancelAt'[e] >= lastAt'[e]
                        ELSE upAt[e] >= lastAt'[e]
      OBVIOUS
    <3>1. CASE e = d
      BY <1>1, <1>3, <1>5, <1>6, <1>7, <3>1
    <3>2. CASE e # d
      BY <1>1, <1>5, <2>1, <3>2 DEF PastInv
    <3> QED
      BY <3>1, <3>2
  <2>3. \A a \in Callers, e \in Deps : pc'[a] = "idle" => answers'[a][e] = "none"
    BY <1>1, <1>4 DEF PastInv
  <2>4. \A a \in Callers : start'[a] <= now'
    BY <1>1, <1>2 DEF PastInv
  <2>5. \A e \in Deps : /\ upAt'[e] <= now' /\ downAt'[e] <= now' /\ cancelAt'[e] <= now'
                        /\ lastAt'[e] <= now'
                        /\ IF up'[e] THEN upAt'[e] = now' ELSE downAt'[e] = now'
    BY <1>1, <1>2, <2>1 DEF PastInv
  <2>6. \A e \in Deps : lastAt'[e] # 0 =>
           IF lastErr'[e] THEN downAt'[e] >= lastAt'[e] \/ cancelAt'[e] >= lastAt'[e]
           ELSE upAt'[e] >= lastAt'[e]
    BY <1>2, <2>2
  <2> QED
    BY <2>3, <2>4, <2>5, <2>6 DEF PastInv
<1>11. UpWasUp'
  <2>1. ~err => upAt[d] > start[c] - ttl[d]
    BY <1>1, <1>3, <1>6, <1>7
  <2> QED
    BY <1>2, <1>4, <2>1 DEF HealthInv, UpWasUp
<1>12. DownHasCause'
  <2>1. err => \/ downAt[d] > start[c] - failureTTL
               \/ cancelAt'[d] > start[c] - failureTTL
    <3> SUFFICES ASSUME err PROVE \/ downAt[d] > start[c] - failureTTL
                                 \/ cancelAt'[d] > start[c] - failureTTL
      OBVIOUS
    <3>1. now > start[c] - failureTTL
      BY <1>1, <1>7
    <3>2. CASE ~up[d]
      BY <3>1, <3>2, <1>1, <1>6
    <3>3. CASE cancelled[c]
      BY <3>1, <3>3, <1>3, <1>5
    <3> QED
      BY <3>2, <3>3, <1>7
  <2>2. \A e \in Deps : cancelAt'[e] >= cancelAt[e] /\ cancelAt'[e] \in Int
    BY <1>1, <1>5 DEF PastInv
  <2> SUFFICES ASSUME NEW a \in Callers, NEW e \in Deps, answers'[a][e] = "down"
               PROVE  \/ downAt[e] > start[a] - failureTTL
                      \/ cancelAt'[e] > start[a] - failureTTL
    BY <1>2 DEF DownHasCause
  <2>3. CASE a = c /\ e = d
    BY <1>4, <2>1, <2>3
  <2>4. CASE ~(a = c /\ e = d)
    <3>1. answers[a][e] = "down"
      BY <1>4, <2>4
    <3>2. \/ downAt[e] > start[a] - failureTTL
          \/ cancelAt[e] > start[a] - failureTTL
      BY <3>1 DEF HealthInv, DownHasCause
    <3> QED
      BY <1>1, <2>2, <3>2
  <2> QED
    BY <2>3, <2>4
<1> QED
  BY <1>8, <1>9, <1>10, <1>11, <1>12 DEF HealthInv

\* The invariant of the readiness probe, for any number of requests that wait for
\* each other, any outages and any cancelled requests.
THEOREM HealthInvariant == Spec => []HealthInv
<1>1. HealthInv /\ [Next]_vars => HealthInv'
  <2> SUFFICES ASSUME HealthInv, [Next]_vars PROVE HealthInv'
    OBVIOUS
  <2>1. CASE UNCHANGED vars
    BY <2>1 DEF vars, truth, deps, calls, HealthInv, TypeOK, OneProbe, PastInv, UpWasUp, DownHasCause
  <2> QED
    BY <2>1, WorldKeeps, RequestKeeps, LockKeeps, ProbeEndKeeps DEF Next
<1> QED
  BY <1>1, HealthInit, PTL DEF Spec

\* Type correctness of the probe.
THEOREM HealthTypeCorrect == Spec => []TypeOK
<1>1. HealthInv => TypeOK
  BY DEF HealthInv
<1> QED
  BY <1>1, HealthInvariant, PTL

\* A dependency is probed by one call at a time, the one that holds its mutex.
THEOREM HealthOneProbe == Spec => []OneProbe
<1>1. HealthInv => OneProbe
  BY DEF HealthInv
<1> QED
  BY <1>1, HealthInvariant, PTL

\* "up" is the truth of no more than the ttl before the request.
THEOREM HealthUpWasUp == Spec => []UpWasUp
<1>1. HealthInv => UpWasUp
  BY DEF HealthInv
<1> QED
  BY <1>1, HealthInvariant, PTL

\* "down" has a cause in the last failureTTL before the request.
THEOREM HealthDownHasCause == Spec => []DownHasCause
<1>1. HealthInv => DownHasCause
  BY DEF HealthInv
<1> QED
  BY <1>1, HealthInvariant, PTL

\* After a failed probe no other is started before the failure's time has passed,
\* although the calls that waited for it took their time long before.
THEOREM HealthNoProbeStorm == Spec => NoProbeStorm
<1>1. ASSUME HealthInv, [Next]_vars, NEW c \in Callers, pc[c] = "lock", pc'[c] = "probe",
             lastAt[dep[c]] # 0, lastErr[dep[c]]
      PROVE  now - lastAt[dep[c]] >= Min({ttl[dep[c]], failureTTL})
  <2>1. Lock(c)
    <3> pc \in [Callers -> {"idle", "lock", "probe", "done"}]
      BY <1>1 DEF HealthInv, TypeOK
    <3>1. ASSUME NEW a \in Callers, a # c,
                 Check(a) \/ Lock(a) \/ ProbeEnd(a) \/ Cancel(a) \/ Respond(a)
          PROVE  pc'[c] = pc[c]
      <4>1. \E x : pc' = [pc EXCEPT ![a] = x] \/ pc' = pc
        BY <3>1 DEF Check, Lock, ProbeEnd, Cancel, Respond, Answer
      <4> QED
        BY <3>1, <4>1
    <3>2. ~(Check(c) \/ ProbeEnd(c) \/ Cancel(c) \/ Respond(c))
      BY <1>1 DEF Check, ProbeEnd, Cancel, Respond
    <3>3. Tick \/ (\E d \in Deps : Flip(d)) \/ UNCHANGED vars => pc' = pc
      BY DEF Tick, Flip, vars, calls
    <3> QED
      BY <1>1, <3>1, <3>2, <3>3 DEF Next
  <2>2. dep[c] \in Deps
    BY <1>1 DEF HealthInv, TypeOK
  <2>3. ~Cached(c, dep[c])
    <3>1. ASSUME Cached(c, dep[c]) PROVE FALSE
      <4>1. Answer(c, dep[c], lastErr[dep[c]])
        BY <2>1, <3>1 DEF Lock
      <4>2. pc'[c] \in {"lock", "done"}
        BY <4>1, <1>1 DEF Answer, HealthInv, TypeOK
      <4> QED
        BY <1>1, <4>2
    <3> QED
      BY <3>1
  <2>4. start[c] - lastAt[dep[c]] >= Ttl(dep[c])
    <3>1. start[c] \in Nat /\ lastAt[dep[c]] \in Nat /\ Ttl(dep[c]) \in Nat
      BY <1>1, <2>2, TtlFacts, Numbers DEF HealthInv
    <3>2. ~(start[c] - lastAt[dep[c]] < Ttl(dep[c]))
      BY <1>1, <2>3 DEF Cached
    <3> QED
      BY <3>1, <3>2
  <2>5. start[c] <= now
    BY <1>1 DEF HealthInv, PastInv
  <2>6. now \in Int /\ start[c] \in Nat /\ lastAt[dep[c]] \in Nat
    BY <1>1, <2>2, Numbers DEF HealthInv
  <2>7. Ttl(dep[c]) \in Nat /\ Ttl(dep[c]) = Min({ttl[dep[c]], failureTTL})
    BY <1>1, <2>2, TtlFacts
  <2> QED
    BY <2>4, <2>5, <2>6, <2>7
<1>2. HealthInv /\ [Next]_vars =>
        [\A c \in Callers : (pc[c] = "lock" /\ pc'[c] = "probe") =>
            (lastAt[dep[c]] # 0 /\ lastErr[dep[c]] =>
                now - lastAt[dep[c]] >= Min({ttl[dep[c]], failureTTL}))]_vars
  BY <1>1
<1> QED
  BY <1>2, HealthInvariant, PTL DEF Spec, NoProbeStorm
================================================================================
