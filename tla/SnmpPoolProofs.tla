--------------------------- MODULE SnmpPoolProofs ---------------------------
(***************************************************************************)
(* The safety of the SNMP connection pool, for every number of goroutines, *)
(* of connections and of semaphore tokens.                                 *)
(***************************************************************************)
EXTENDS SnmpPool, FiniteSetTheorems, TLAPS

\* What a receive does to the buffered connections: it takes out the first one.
LEMMA RecvElems ==
    ASSUME NEW S, NEW s \in Seq(S), s # <<>>, IsInjective(s)
    PROVE  /\ Head(s) \in ToSet(s)
           /\ Tail(s) \in Seq(S)
           /\ IsInjective(Tail(s))
           /\ ToSet(Tail(s)) = ToSet(s) \ {Head(s)}
<1> DEFINE t == Tail(s)
<1>1. /\ t \in Seq(S)
      /\ Len(t) = Len(s) - 1
      /\ Len(s) \in Nat \ {0}
      /\ \A i \in 1..Len(t) : t[i] = s[i + 1]
      /\ Head(s) = s[1]
  OBVIOUS
<1>2. DOMAIN s = 1..Len(s) /\ DOMAIN t = 1..Len(t)
  BY <1>1
<1>3. IsInjective(t)
  BY <1>1, <1>2 DEF IsInjective
<1>4. Head(s) \in ToSet(s)
  BY <1>1, <1>2 DEF ToSet
<1>5. \A x : x \in ToSet(t) => x \in ToSet(s) /\ x # Head(s)
  <2> SUFFICES ASSUME NEW i \in 1..Len(t)
               PROVE  t[i] \in ToSet(s) /\ t[i] # s[1]
    BY <1>1, <1>2 DEF ToSet
  <2>1. i + 1 \in 1..Len(s) /\ i + 1 # 1
    BY <1>1
  <2> QED
    BY <1>1, <1>2, <2>1 DEF ToSet, IsInjective
<1>6. \A x : x \in ToSet(s) /\ x # Head(s) => x \in ToSet(t)
  <2> SUFFICES ASSUME NEW i \in 1..Len(s), s[i] # s[1]
               PROVE  s[i] \in ToSet(t)
    BY <1>1, <1>2 DEF ToSet
  <2>1. i - 1 \in 1..Len(t) /\ t[i - 1] = s[i]
    BY <1>1
  <2> QED
    BY <1>2, <2>1 DEF ToSet
<1> QED
  BY <1>1, <1>3, <1>4, <1>5, <1>6

\* What a send does to them: it adds one, at the end.
LEMMA SendElems ==
    ASSUME NEW S, NEW s \in Seq(S), NEW c \in S, c \notin ToSet(s), IsInjective(s)
    PROVE  /\ Append(s, c) \in Seq(S)
           /\ IsInjective(Append(s, c))
           /\ ToSet(Append(s, c)) = ToSet(s) \cup {c}
<1> DEFINE t == Append(s, c)
<1>1. /\ t \in Seq(S)
      /\ Len(t) = Len(s) + 1
      /\ Len(s) \in Nat
      /\ \A i \in 1..Len(s) : t[i] = s[i]
      /\ t[Len(s) + 1] = c
  OBVIOUS
<1>2. DOMAIN s = 1..Len(s) /\ DOMAIN t = 1..Len(t)
  BY <1>1
<1>3. \A i \in 1..Len(t) : i \in 1..Len(s) \/ i = Len(s) + 1
  BY <1>1
<1>4. \A i \in 1..Len(s) : s[i] # c
  BY <1>2 DEF ToSet
<1>5. IsInjective(t)
  BY <1>1, <1>2, <1>3, <1>4 DEF IsInjective
<1>6. ToSet(t) = ToSet(s) \cup {c}
  <2>1. \A x : x \in ToSet(t) => x \in ToSet(s) \cup {c}
    BY <1>1, <1>2, <1>3 DEF ToSet
  <2>2. \A x : x \in ToSet(s) \cup {c} => x \in ToSet(t)
    BY <1>1, <1>2 DEF ToSet
  <2> QED
    BY <2>1, <2>2
<1> QED
  BY <1>1, <1>5, <1>6

\* A finite function on an initial segment of the naturals is a sequence.
LEMMA FunIsSeq ==
    ASSUME NEW S, NEW n \in Nat, NEW s \in [1..n -> S]
    PROVE  s \in Seq(S) /\ Len(s) = n
OBVIOUS

-----------------------------------------------------------------------------
\* The invariant holds when the constructor returns: the channel buffers exactly
\* the connections it opened.
LEMMA PoolInvInit == Init => PoolInv
<1> SUFFICES ASSUME Init PROVE PoolInv
  OBVIOUS
<1> USE PoolAssumption
<1>1. PICK extra \in SUBSET (Conns \ {Seed}) :
          /\ made = {Seed} \cup extra
          /\ pool \in {q \in [1..Cardinality(made) -> made] : IsInjective(q)}
  BY DEF Init
<1>2. made \in SUBSET Conns /\ IsFiniteSet(made)
  BY <1>1, FS_Subset
<1>3. Cardinality(made) \in Nat
  BY <1>2, FS_CardinalityType
<1>4. pool \in Seq(Conns)
  <2>1. pool \in [1..Cardinality(made) -> Conns]
    BY <1>1, <1>2
  <2> QED
    BY <1>3, <2>1, FunIsSeq
<1>5. DOMAIN pool = 1..Cardinality(made)
  BY <1>1
<1>6. InPool \subseteq made
  BY <1>1, <1>5 DEF InPool, ToSet
<1>7. made \subseteq InPool
  <2>1. pool \in Injection(1..Cardinality(made), made)
    BY <1>1 DEF Injection
  <2>2. /\ IsFiniteSet(1..Cardinality(made))
        /\ Cardinality(1..Cardinality(made)) = Cardinality(made)
    BY <1>3, FS_Interval
  <2>3. pool \in Surjection(1..Cardinality(made), made)
    BY <1>2, <2>1, <2>2, FS_Injection
  <2> QED
    BY <1>5, <2>3 DEF Surjection, InPool, ToSet
<1>8. TypeOK
  BY <1>2, <1>4 DEF Init, TypeOK, PCs, CloserPCs
<1>9. ExclusiveConn
  BY <1>1 DEF Init, ExclusiveConn, Holding
<1>10. ConnAccounting
  BY <1>2, <1>6, <1>7 DEF Init, ConnAccounting, Holding
<1>11. ClosedAtMostOnce
  BY DEF Init, ClosedAtMostOnce
<1>12. SemCount
  <2>1. SemHolders = {}
    BY DEF Init, SemHolders, InSem
  <2> QED
    BY <2>1, FS_EmptySet DEF Init, SemCount
<1> QED
  BY <1>8, <1>9, <1>10, <1>11, <1>12 DEF PoolInv

\* The semaphore: only entering and leaving it changes the number of tokens or
\* the set of operations inside.
LEMMA SemStep ==
    ASSUME PoolInv, [Next]_vars
    PROVE  SemCount' /\ sem' \in Nat
<1> USE PoolAssumption DEF PoolInv, TypeOK, PCs, Goto
<1>0. IsFiniteSet(SemHolders) /\ Cardinality(SemHolders) \in Nat
  <2>1. SemHolders \in SUBSET Ops
    BY DEF SemHolders
  <2> QED
    BY <2>1, FS_Subset, FS_CardinalityType
<1>1. ASSUME NEW p \in Ops, EnterSem(p) PROVE SemCount' /\ sem' \in Nat
  <2>1. SemHolders' = SemHolders \cup {p} /\ p \notin SemHolders
    BY <1>1 DEF EnterSem, SemHolders, InSem
  <2>2. Cardinality(SemHolders') = Cardinality(SemHolders) + 1
    BY <1>0, <2>1, FS_AddElement
  <2> QED
    BY <1>0, <1>1, <2>2 DEF EnterSem, SemCount
<1>2. ASSUME NEW p \in Ops, LeaveSem(p) PROVE SemCount' /\ sem' \in Nat
  <2>1. SemHolders' = SemHolders \ {p} /\ p \in SemHolders
    BY <1>2 DEF LeaveSem, SemHolders, InSem
  <2>2. Cardinality(SemHolders') = Cardinality(SemHolders) - 1
    BY <1>0, <2>1, FS_RemoveElement
  <2>3. Cardinality(SemHolders') \in Nat
    BY <1>0, <2>1, FS_RemoveElement, FS_CardinalityType
  <2> QED
    BY <1>0, <1>2, <2>2, <2>3 DEF LeaveSem, SemCount
<1>3. ASSUME sem' = sem, SemHolders' = SemHolders PROVE SemCount' /\ sem' \in Nat
  BY <1>3 DEF SemCount
<1>4. ASSUME NEW p \in Ops, \/ Call(p) \/ AcquireCheck(p) \/ AcquireRecv(p)
                           \/ Exchange(p) \/ ReleaseCheck(p) \/ ReleaseSend(p)
      PROVE  sem' = sem /\ SemHolders' = SemHolders
  BY <1>4 DEF Call, AcquireCheck, AcquireRecv, Exchange, ReleaseCheck, ReleaseSend,
              SemHolders, InSem
<1>5. ASSUME CloseFlag \/ CloseChan \/ CloseDrain \/ UNCHANGED vars
      PROVE  sem' = sem /\ SemHolders' = SemHolders
  BY <1>5 DEF CloseFlag, CloseChan, CloseDrain, vars, SemHolders, InSem
<1> QED
  BY <1>1, <1>2, <1>3, <1>4, <1>5 DEF Next, OpStep, CloseStep

\* Every step of an operation and of Close keeps the rest of the invariant.
LEMMA ConnStep ==
    ASSUME PoolInv, [Next]_vars
    PROVE  TypeOK' /\ ExclusiveConn' /\ ConnAccounting' /\ ClosedAtMostOnce'
<1> DEFINE Goal == TypeOK' /\ ExclusiveConn' /\ ConnAccounting' /\ ClosedAtMostOnce'
<1> USE PoolAssumption DEF PoolInv, TypeOK, ExclusiveConn, ConnAccounting,
        ClosedAtMostOnce, PCs, CloserPCs, Holding, InPool, Goto, CloseSocket
<1>0. sem' \in Nat
  BY SemStep
\* A step that neither takes a connection nor gives one back.
<1>m. ASSUME NEW p \in Ops, NEW to \in PCs, pc' = [pc EXCEPT ![p] = to],
             Holding(p) <=> to \in {"use", "release", "send"},
             UNCHANGED <<made, pool, chanClosed, closed, conn, closer, closes>>
      PROVE  Goal
  <2>1. \A q \in Ops : Holding(q)' <=> Holding(q)
    BY <1>m
  <2>2. TypeOK'
    BY <1>0, <1>m
  <2>3. ExclusiveConn'
    BY <1>m, <2>1
  <2>4. ConnAccounting'
    BY <1>m, <2>1
  <2> QED
    BY <1>m, <2>2, <2>3, <2>4
<1>1. ASSUME NEW p \in Ops, Call(p) PROVE Goal
  BY <1>1, <1>m DEF Call
<1>2. ASSUME NEW p \in Ops, EnterSem(p) PROVE Goal
  BY <1>2, <1>m DEF EnterSem
<1>3. ASSUME NEW p \in Ops, AcquireCheck(p) PROVE Goal
  BY <1>3, <1>m DEF AcquireCheck
<1>4. ASSUME NEW p \in Ops, AcquireRecv(p) PROVE Goal
  <2>1. CASE pool # <<>>
    <3>1. /\ Head(pool) \in ToSet(pool)
          /\ Tail(pool) \in Seq(Conns)
          /\ IsInjective(Tail(pool))
          /\ ToSet(Tail(pool)) = ToSet(pool) \ {Head(pool)}
      BY <2>1, RecvElems
    <3>2. pool' = Tail(pool) /\ conn' = [conn EXCEPT ![p] = Head(pool)]
      BY <1>4, <2>1 DEF AcquireRecv
    <3>3. UNCHANGED <<made, chanClosed, closed, closer, closes>>
      BY <1>4 DEF AcquireRecv
    <3>4. pc[p] = "recv" /\ pc' = [pc EXCEPT ![p] = "use"]
      BY <1>4, <2>1 DEF AcquireRecv
    <3> QED
      BY <1>0, <3>1, <3>2, <3>3, <3>4
  <2>2. CASE pool = <<>>
    BY <1>0, <1>4, <2>2 DEF AcquireRecv
  <2> QED
    BY <2>1, <2>2
<1>5. ASSUME NEW p \in Ops, Exchange(p) PROVE Goal
  BY <1>5, <1>m DEF Exchange
\* Both halves of release may close the connection in hand.
<1>c. ASSUME NEW p \in Ops, Holding(p),
             closes' = [closes EXCEPT ![conn[p]] = @ + 1],
             conn' = [conn EXCEPT ![p] = NoConn],
             pc' = [pc EXCEPT ![p] = "unsem"],
             UNCHANGED <<made, pool, chanClosed, closed, closer>>
      PROVE  Goal
  <2>1. /\ conn[p] \in Conns /\ conn[p] \in made /\ conn[p] \notin ToSet(pool)
        /\ closes[conn[p]] = 0
    BY <1>c
  <2>2. /\ closes' \in [Conns -> Nat]
        /\ closes'[conn[p]] = 1
        /\ \A c \in Conns : c # conn[p] => closes'[c] = closes[c]
    BY <1>c, <2>1
  <2>3. /\ ~Holding(p)'
        /\ \A q \in Ops : q # p => Holding(q)' = Holding(q) /\ conn'[q] = conn[q]
    BY <1>c
  <2>4. TypeOK'
    BY <1>0, <1>c, <2>2
  <2>5. ExclusiveConn'
    BY <1>c, <2>3
  <2>6. \A q \in Ops : Holding(q)' => conn'[q] # conn[p]
    BY <1>c, <2>3
  <2>7. \A q \in Ops : Holding(q)' => closes'[conn'[q]] = 0
    BY <2>2, <2>3, <2>6
  <2>8. \A c \in made : c \in ToSet(pool) \/ (\E q \in Ops : Holding(q)' /\ conn'[q] = c)
                         \/ closes'[c] = 1
    BY <1>c, <2>2, <2>3
  <2>9. ConnAccounting'
    BY <1>c, <2>1, <2>2, <2>7, <2>8
  <2> QED
    BY <1>c, <2>2, <2>4, <2>5, <2>9
<1>6. ASSUME NEW p \in Ops, ReleaseCheck(p) PROVE Goal
  <2>1. CASE closed
    BY <1>6, <1>c, <2>1 DEF ReleaseCheck
  <2>2. CASE ~closed
    BY <1>6, <1>m, <2>2 DEF ReleaseCheck
  <2> QED
    BY <2>1, <2>2
<1>7. ASSUME NEW p \in Ops, ReleaseSend(p) PROVE Goal
  <2>1. CASE chanClosed
    BY <1>7, <1>c, <2>1 DEF ReleaseSend
  <2>2. CASE ~chanClosed
    <3>1. conn[p] \in Conns /\ conn[p] \notin ToSet(pool)
      BY <1>7 DEF ReleaseSend
    <3>2. /\ Append(pool, conn[p]) \in Seq(Conns)
          /\ IsInjective(Append(pool, conn[p]))
          /\ ToSet(Append(pool, conn[p])) = ToSet(pool) \cup {conn[p]}
      BY <3>1, SendElems
    <3>3. pool' = Append(pool, conn[p]) /\ conn' = [conn EXCEPT ![p] = NoConn]
      BY <1>7, <2>2 DEF ReleaseSend
    <3>4. UNCHANGED <<made, chanClosed, closed, closer, closes>>
      BY <1>7, <2>2 DEF ReleaseSend
    <3>5. pc[p] = "send" /\ pc' = [pc EXCEPT ![p] = "unsem"]
      BY <1>7 DEF ReleaseSend
    <3> QED
      BY <1>0, <2>2, <3>1, <3>2, <3>3, <3>4, <3>5
  <2> QED
    BY <2>1, <2>2
<1>8. ASSUME NEW p \in Ops, LeaveSem(p) PROVE Goal
  BY <1>8, <1>m DEF LeaveSem
<1>9. CASE CloseFlag
  BY <1>0, <1>9 DEF CloseFlag
<1>10. CASE CloseChan
  BY <1>0, <1>10 DEF CloseChan
<1>11. CASE CloseDrain
  <2>1. CASE pool # <<>>
    <3>1. /\ Head(pool) \in ToSet(pool)
          /\ Tail(pool) \in Seq(Conns)
          /\ IsInjective(Tail(pool))
          /\ ToSet(Tail(pool)) = ToSet(pool) \ {Head(pool)}
      BY <2>1, RecvElems
    <3>2. /\ pool' = Tail(pool)
          /\ closes' = [closes EXCEPT ![Head(pool)] = @ + 1]
          /\ UNCHANGED <<made, chanClosed, closed, pc, conn, closer>>
      BY <1>11, <2>1 DEF CloseDrain
    <3>3. closer # "done"
      BY <1>11 DEF CloseDrain
    <3> QED
      BY <1>0, <3>1, <3>2, <3>3
  <2>2. CASE pool = <<>>
    BY <1>0, <1>11, <2>2 DEF CloseDrain
  <2> QED
    BY <2>1, <2>2
<1>12. CASE UNCHANGED vars
  BY <1>0, <1>12 DEF vars
<1> QED
  BY <1>1, <1>2, <1>3, <1>4, <1>5, <1>6, <1>7, <1>8, <1>9, <1>10, <1>11, <1>12
     DEF Next, OpStep, CloseStep

\* The strengthened invariant is inductive.
THEOREM PoolInvariant == Spec => []PoolInv
<1>1. PoolInv /\ [Next]_vars => PoolInv'
  BY SemStep, ConnStep DEF PoolInv
<1> QED
  BY <1>1, PoolInvInit, PTL DEF Spec

-----------------------------------------------------------------------------
\* Every variable of the pool keeps its type; in particular the semaphore never
\* gives back a token that was not taken.
THEOREM PoolTypeCorrect == Spec => []TypeOK
BY PoolInvariant, PTL DEF PoolInv

\* acquire and release never let two goroutines use one connection.
THEOREM PoolExclusive == Spec => []ExclusiveConn
BY PoolInvariant, PTL DEF PoolInv

\* A Close that races with operations in flight closes no socket under them.
THEOREM PoolNoUseAfterClose == Spec => []NoUseAfterClose
<1>1. PoolInv => NoUseAfterClose
  BY DEF PoolInv, ConnAccounting, NoUseAfterClose, Holding
<1> QED
  BY <1>1, PoolInvariant, PTL

\* Close, release and the recovered panic close no socket twice.
THEOREM PoolClosedOnce == Spec => []ClosedAtMostOnce
BY PoolInvariant, PTL DEF PoolInv

\* After Close and the operations in flight, no socket is left open.
THEOREM PoolNoLeak == Spec => []NoLeak
<1>1. PoolInv => NoLeak
  <2> SUFFICES ASSUME PoolInv, closer = "done", \A p \in Ops : ~Holding(p),
                      NEW c \in made
               PROVE  closes[c] = 1
    BY DEF NoLeak
  <2>1. c \notin InPool
    BY DEF PoolInv, ConnAccounting, InPool, ToSet
  <2> QED
    BY <2>1 DEF PoolInv, ConnAccounting
<1> QED
  BY <1>1, PoolInvariant, PTL

\* At most MaxConcurrent exchanges are under way, and tokens are not lost.
THEOREM PoolConcurrencyLimit == Spec => []ConcurrencyLimit
<1>1. PoolInv => ConcurrencyLimit
  <2> SUFFICES ASSUME PoolInv PROVE ConcurrencyLimit
    OBVIOUS
  <2> DEFINE H == {p \in Ops : Holding(p)}
  <2>1. IsFiniteSet(SemHolders) /\ Cardinality(SemHolders) \in Nat
    <3>1. SemHolders \in SUBSET Ops
      BY DEF SemHolders
    <3> QED
      BY <3>1, PoolAssumption, FS_Subset, FS_CardinalityType
  <2>2. H \in SUBSET SemHolders
    BY DEF SemHolders, InSem, Holding
  <2>3. Cardinality(H) <= Cardinality(SemHolders) /\ Cardinality(H) \in Nat
    BY <2>1, <2>2, FS_Subset, FS_CardinalityType
  <2> QED
    BY <2>1, <2>3, PoolAssumption DEF PoolInv, SemCount, ConcurrencyLimit
<1> QED
  BY <1>1, PoolInvariant, PTL

\* The channel has room for every connection in hand: the deferred send of
\* release never blocks.
THEOREM PoolReleaseNeverBlocks == Spec => []ReleaseNeverBlocks
<1>1. PoolInv => ReleaseNeverBlocks
  <2> SUFFICES ASSUME PoolInv, NEW p \in Ops, pc[p] = "send"
               PROVE  Len(pool) < PoolSize
    BY DEF ReleaseNeverBlocks
  <2> DEFINE Others == Conns \ {conn[p]}
  <2>1. conn[p] \in Conns /\ conn[p] \notin ToSet(pool)
    BY DEF PoolInv, TypeOK, ExclusiveConn, Holding, InPool
  <2>2. pool \in Seq(Conns) /\ Len(pool) \in Nat /\ DOMAIN pool = 1..Len(pool)
    BY DEF PoolInv, TypeOK
  <2>3. pool \in [1..Len(pool) -> Others]
    BY <2>1, <2>2 DEF ToSet
  <2>4. pool \in Injection(1..Len(pool), Others)
    BY <2>2, <2>3 DEF PoolInv, ExclusiveConn, IsInjective, Injection
  <2>5. IsFiniteSet(Others) /\ Cardinality(Others) = Cardinality(Conns) - 1
    BY <2>1, PoolAssumption, FS_RemoveElement
  <2>6. Cardinality(1..Len(pool)) <= Cardinality(Others)
    BY <2>4, <2>5, FS_Injection
  <2>7. Cardinality(1..Len(pool)) = Len(pool)
    BY <2>2, FS_Interval
  <2>8. Cardinality(Conns) \in Nat
    BY PoolAssumption, FS_CardinalityType
  <2> QED
    BY <2>2, <2>5, <2>6, <2>7, <2>8, PoolAssumption
<1> QED
  BY <1>1, PoolInvariant, PTL
-----------------------------------------------------------------------------
\* An operation that has no connection in hand keeps none in its local variable.
NoStaleConn == \A p \in Ops : ~Holding(p) => conn[p] = NoConn

\* Whoever has released its connection, or never got one, has none in its variable.
LEMMA NoStaleConnInvariant == Spec => []NoStaleConn
<1>1. Init => NoStaleConn
  BY DEF Init, NoStaleConn
<1>2. PoolInv /\ NoStaleConn /\ [Next]_vars => NoStaleConn'
  <2> SUFFICES ASSUME PoolInv, NoStaleConn, [Next]_vars
               PROVE  NoStaleConn'
    OBVIOUS
  <2> USE DEF PoolInv, TypeOK, PCs, NoStaleConn, Holding, Goto
  <2>1. ASSUME NEW p \in Ops, Call(p) \/ OpStep(p) PROVE NoStaleConn'
    BY <2>1 DEF Call, OpStep, EnterSem, AcquireCheck, AcquireRecv, Exchange,
                ReleaseCheck, ReleaseSend, LeaveSem
  <2>2. CASE CloseFlag \/ CloseStep \/ UNCHANGED vars
    BY <2>2 DEF CloseFlag, CloseStep, CloseChan, CloseDrain, vars
  <2> QED
    BY <2>1, <2>2 DEF Next
<1> QED
  BY <1>1, <1>2, PoolInvariant, PTL DEF Spec

\* The initial states of the pool are initial states of the lease.
LEMMA LeaseInit == Init => Lease!Init
<1> SUFFICES ASSUME Init PROVE Lease!Init
  OBVIOUS
<1>1. Seed \in made /\ closer = "open" /\ conn = [p \in Ops |-> NoConn]
      /\ closes = [c \in Conns |-> 0]
  BY DEF Init
<1> QED
  BY <1>1, PoolAssumption DEF Lease!Init

\* Every step of the pool is a step of the lease or changes nothing it shows.
LEMMA LeaseStep ==
    ASSUME PoolInv, PoolInv', NoStaleConn, [Next]_vars
    PROVE  [Lease!Next]_(Lease!lvars)
<1> DEFINE Life == [c \in Conns |-> IF c \notin made THEN "absent"
                                    ELSE IF closes[c] = 0 THEN "open" ELSE "closed"]
           Same == conn' = conn /\ Life' = Life /\ (closer = "done")' = (closer = "done")
<1> USE PoolAssumption DEF PoolInv, TypeOK, PCs, CloserPCs, Goto
<1>s. Same => [Lease!Next]_(Lease!lvars)
  BY DEF Lease!lvars
<1>1. ASSUME NEW p \in Ops, \/ Call(p) \/ EnterSem(p) \/ AcquireCheck(p) \/ Exchange(p)
                           \/ LeaveSem(p)
      PROVE  Same
  BY <1>1 DEF Call, EnterSem, AcquireCheck, Exchange, LeaveSem
<1>2. CASE CloseFlag \/ CloseChan \/ UNCHANGED vars
  <2>1. Same
    BY <1>2 DEF CloseFlag, CloseChan, vars
  <2> QED
    BY <2>1, <1>s
\* Closing one socket changes the life of that connection only.
<1>l. ASSUME NEW c \in made, closes[c] = 0, CloseSocket(c), made' = made
      PROVE  Life' = [Life EXCEPT ![c] = "closed"]
  <2>1. c \in Conns /\ closes'[c] = 1 /\ \A d \in Conns : d # c => closes'[d] = closes[d]
    BY <1>l DEF CloseSocket
  <2>2. \A d \in Conns : Life'[d] = [Life EXCEPT ![c] = "closed"][d]
    BY <1>l, <2>1
  <2>3. /\ Life' = [d \in Conns |-> Life'[d]]
        /\ [Life EXCEPT ![c] = "closed"] = [d \in Conns |-> [Life EXCEPT ![c] = "closed"][d]]
    OBVIOUS
  <2> HIDE DEF Life
  <2> QED
    BY <2>2, <2>3
<1>3. ASSUME NEW p \in Ops, AcquireRecv(p) PROVE [Lease!Next]_(Lease!lvars)
  <2>1. CASE pool = <<>>
    <3>1. Same
      BY <1>3, <2>1 DEF AcquireRecv
    <3> QED
      BY <3>1, <1>s
  <2>2. CASE pool # <<>>
    <3> DEFINE c == Head(pool)
    <3>1. c \in InPool
      BY <2>2, RecvElems DEF InPool, ExclusiveConn
    <3>2. c \in made /\ c \in Conns /\ closes[c] = 0
      BY <3>1 DEF ConnAccounting
    <3>3. closer # "done"
      BY <2>2 DEF ConnAccounting
    <3>4. conn[p] = NoConn
      BY <1>3 DEF AcquireRecv, NoStaleConn, Holding
    <3>5. \A q \in Ops : conn[q] # c
      BY <3>1, <3>2 DEF ExclusiveConn, NoStaleConn
    <3>6. /\ conn' = [conn EXCEPT ![p] = c]
          /\ UNCHANGED <<made, closes, closer>>
      BY <1>3, <2>2 DEF AcquireRecv
    <3>7. Lease!Take(p, c)
      BY <3>2, <3>3, <3>4, <3>5, <3>6 DEF Lease!Take, Lease!Leased
    <3> QED
      BY <3>2, <3>7 DEF Lease!Next
  <2> QED
    BY <2>1, <2>2
\* Both halves of release may close the connection in hand.
<1>c. ASSUME NEW p \in Ops, Holding(p), CloseSocket(conn[p]),
             conn' = [conn EXCEPT ![p] = NoConn], UNCHANGED <<made, closer>>
      PROVE  [Lease!Next]_(Lease!lvars)
  <2>1. conn[p] \in made /\ conn[p] \in Conns /\ conn[p] # NoConn /\ closes[conn[p]] = 0
    BY <1>c DEF ExclusiveConn, ConnAccounting
  <2>2. Life' = [Life EXCEPT ![conn[p]] = "closed"]
    BY <1>c, <1>l, <2>1
  <2>3. Lease!CloseOwn(p)
    BY <1>c, <2>1, <2>2 DEF Lease!CloseOwn
  <2> QED
    BY <2>3 DEF Lease!Next
<1>4. ASSUME NEW p \in Ops, ReleaseCheck(p) PROVE [Lease!Next]_(Lease!lvars)
  <2>1. CASE closed
    BY <1>4, <1>c, <2>1 DEF ReleaseCheck, Holding
  <2>2. CASE ~closed
    <3>1. Same
      BY <1>4, <2>2 DEF ReleaseCheck
    <3> QED
      BY <3>1, <1>s
  <2> QED
    BY <2>1, <2>2
<1>5. ASSUME NEW p \in Ops, ReleaseSend(p) PROVE [Lease!Next]_(Lease!lvars)
  <2>1. CASE chanClosed
    BY <1>5, <1>c, <2>1 DEF ReleaseSend, Holding
  <2>2. CASE ~chanClosed
    <3>1. closer # "done"
      BY <2>2 DEF ConnAccounting
    <3>2. conn[p] # NoConn
      BY <1>5 DEF ReleaseSend, ExclusiveConn, Holding
    <3>3. /\ conn' = [conn EXCEPT ![p] = NoConn]
          /\ UNCHANGED <<made, closes, closer>>
      BY <1>5, <2>2 DEF ReleaseSend
    <3>4. Lease!GiveBack(p)
      BY <3>1, <3>2, <3>3 DEF Lease!GiveBack
    <3> QED
      BY <3>4 DEF Lease!Next
  <2> QED
    BY <2>1, <2>2
<1>6. CASE CloseDrain
  <2>1. CASE pool # <<>>
    <3>0. PICK c \in Conns : c = Head(pool)
      BY <2>1
    <3>1. c \in InPool
      BY <2>1, <3>0, RecvElems DEF InPool, ExclusiveConn
    <3>2. c \in made /\ c \in Conns /\ closes[c] = 0
      BY <3>1 DEF ConnAccounting
    <3>3. \A q \in Ops : conn[q] # c
      BY <3>1, <3>2 DEF ExclusiveConn, NoStaleConn
    <3>4. closer # "done" /\ CloseSocket(c) /\ UNCHANGED <<made, conn, closer>>
      BY <1>6, <2>1, <3>0 DEF CloseDrain
    <3>5. Life' = [Life EXCEPT ![c] = "closed"]
      BY <3>2, <3>4, <1>l
    <3>6. Lease!CloseIdle(c)
      BY <3>2, <3>3, <3>4, <3>5 DEF Lease!CloseIdle, Lease!Leased
    <3> QED
      BY <3>6 DEF Lease!Next
  <2>2. CASE pool = <<>>
    <3>1. closer = "draining" /\ closer' = "done" /\ UNCHANGED <<made, conn, closes>>
      BY <1>6, <2>2 DEF CloseDrain
    <3>2. \A c \in made : closes[c] = 0 => \E q \in Ops : conn[q] = c
      BY <2>2 DEF ConnAccounting, InPool, ToSet
    <3>3. Lease!Shut
      BY <3>1, <3>2 DEF Lease!Shut, Lease!Leased
    <3> QED
      BY <3>3 DEF Lease!Next
  <2> QED
    BY <2>1, <2>2
<1> QED
  BY <1>1, <1>2, <1>3, <1>4, <1>5, <1>6, <1>s DEF Next, OpStep, CloseStep

\* Channel, semaphore, flag and once together implement the lease: what the
\* callers of Get, Walk and Close rely on follows from ConnLease alone.
THEOREM PoolImplementsLease == Spec => ImplementsLease
<1>1. PoolInv /\ PoolInv' /\ NoStaleConn /\ [Next]_vars => [Lease!Next]_(Lease!lvars)
  BY LeaseStep
<1> QED
  BY <1>1, LeaseInit, PoolInvariant, NoStaleConnInvariant, PTL
     DEF Spec, ImplementsLease, Lease!Spec
=============================================================================
