------------------------------ MODULE SnmpPool ------------------------------
(***************************************************************************)
(* The SNMP connection pool of one OLT (internal/repository/snmp.go).      *)
(*                                                                         *)
(* The pool is a buffered Go channel of connections, guarded by a counting *)
(* semaphore (another buffered channel), an atomic flag `closed' and a     *)
(* sync.Once around Close.  No mutex protects the three: every channel or  *)
(* flag operation below is one atomic step, and the steps of concurrent    *)
(* operations and of Close interleave freely.                              *)
(*                                                                         *)
(* Get, Walk, BulkWalk and Ping have the same control (semaphore, acquire, *)
(* SNMP exchange, deferred release, deferred semaphore release) and are    *)
(* one kind of operation here; what the exchange returns, or that it       *)
(* fails, changes no state of the pool.                                    *)
(***************************************************************************)
EXTENDS Naturals, SequencesExt

CONSTANTS
    Ops,            \* goroutines that call Get, Walk, BulkWalk or Ping
    Conns,          \* the connections the constructor tries to open
    Seed,           \* the connection the caller passes to the constructor
    PoolSize,       \* DefaultPoolSize: capacity of the channel `pool'
    MaxConcurrent,  \* capacity of the channel `sem'
    NoConn          \* nil

ASSUME PoolAssumption ==
    /\ Seed \in Conns
    /\ NoConn \notin Conns
    /\ IsFiniteSet(Conns)
    /\ IsFiniteSet(Ops)
    /\ PoolSize \in Nat \ {0}
    /\ Cardinality(Conns) <= PoolSize
    /\ MaxConcurrent \in Nat \ {0}

VARIABLES
    made,       \* connections that Connect() opened
    pool,       \* the buffered channel of idle connections
    chanClosed, \* close(pool) has been executed
    closed,     \* the atomic flag
    sem,        \* tokens in the semaphore channel
    pc,         \* where each operation stands
    conn,       \* the local variable conn of each operation
    closer,     \* progress of the one Close that sync.Once admits
    closes      \* how many times the socket of each connection was closed

vars == <<made, pool, chanClosed, closed, sem, pc, conn, closer, closes>>

PCs == {"idle", "sem", "check", "recv", "use", "release", "send", "unsem"}

CloserPCs == {"open", "flagged", "draining", "done"}

\* Local variables of an operation that has a connection in hand.
Holding(p) == pc[p] \in {"use", "release", "send"}

\* Operations between `r.sem <- struct{}{}' and the deferred `<-r.sem'.
InSem(p) == pc[p] \notin {"idle", "sem"}

SemHolders == {p \in Ops : InSem(p)}

InPool == ToSet(pool)

-----------------------------------------------------------------------------
\* The constructor puts the seed in the channel, then opens connections until
\* one fails: any number of the others may be missing.
Init ==
    /\ \E extra \in SUBSET (Conns \ {Seed}) :
          /\ made = {Seed} \cup extra
          /\ pool \in {q \in [1..Cardinality(made) -> made] : IsInjective(q)}
          /\ pool[1] = Seed
    /\ chanClosed = FALSE
    /\ closed = FALSE
    /\ sem = 0
    /\ pc = [p \in Ops |-> "idle"]
    /\ conn = [p \in Ops |-> NoConn]
    /\ closer = "open"
    /\ closes = [c \in Conns |-> 0]

Goto(p, from, to) ==
    /\ pc[p] = from
    /\ pc' = [pc EXCEPT ![p] = to]

\* conn.Conn.Close()
CloseSocket(c) == closes' = [closes EXCEPT ![c] = @ + 1]

\* A goroutine calls Get, Walk, BulkWalk or Ping.
Call(p) ==
    /\ Goto(p, "idle", "sem")
    /\ UNCHANGED <<made, pool, chanClosed, closed, sem, conn, closer, closes>>

\* r.sem <- struct{}{}: blocks while the channel is full.
EnterSem(p) ==
    /\ sem < MaxConcurrent
    /\ Goto(p, "sem", "check")
    /\ sem' = sem + 1
    /\ UNCHANGED <<made, pool, chanClosed, closed, conn, closer, closes>>

\* acquire, first half: give up when the flag is set.
AcquireCheck(p) ==
    /\ Goto(p, "check", IF closed THEN "unsem" ELSE "recv")
    /\ UNCHANGED <<made, pool, chanClosed, closed, sem, conn, closer, closes>>

\* acquire, second half: a receive returns a buffered connection even after
\* close(pool), blocks on an empty open channel, and fails on an empty closed one.
AcquireRecv(p) ==
    /\ \/ /\ pool # <<>>
          /\ Goto(p, "recv", "use")
          /\ conn' = [conn EXCEPT ![p] = Head(pool)]
          /\ pool' = Tail(pool)
       \/ /\ pool = <<>>
          /\ chanClosed
          /\ Goto(p, "recv", "unsem")
          /\ UNCHANGED <<pool, conn>>
    /\ UNCHANGED <<made, chanClosed, closed, sem, closer, closes>>

\* The SNMP exchange returns, with a result or with an error.
Exchange(p) ==
    /\ Goto(p, "use", "release")
    /\ UNCHANGED <<made, pool, chanClosed, closed, sem, conn, closer, closes>>

\* release, first half: after Close the connection is closed, not returned.
ReleaseCheck(p) ==
    /\ IF closed
       THEN /\ Goto(p, "release", "unsem")
            /\ CloseSocket(conn[p])
            /\ conn' = [conn EXCEPT ![p] = NoConn]
       ELSE /\ Goto(p, "release", "send")
            /\ UNCHANGED <<closes, conn>>
    /\ UNCHANGED <<made, pool, chanClosed, closed, sem, closer>>

\* Mutant: the recovered panic does not close the connection.
MutReleaseSend(p) ==
    /\ Goto(p, "send", "unsem")
    /\ IF chanClosed THEN UNCHANGED pool ELSE pool' = Append(pool, conn[p])
    /\ conn' = [conn EXCEPT ![p] = NoConn]
    /\ UNCHANGED <<made, chanClosed, closed, sem, closer, closes>>

\* release, second half: the send blocks on a full channel and panics on a
\* closed one; the recovered panic closes the connection.
ReleaseSend(p) ==
    /\ Goto(p, "send", "unsem")
    /\ IF chanClosed
       THEN /\ CloseSocket(conn[p])
            /\ UNCHANGED pool
       ELSE /\ Len(pool) < PoolSize
            /\ pool' = Append(pool, conn[p])
            /\ UNCHANGED closes
    /\ conn' = [conn EXCEPT ![p] = NoConn]
    /\ UNCHANGED <<made, chanClosed, closed, sem, closer>>

\* defer func() { <-r.sem }()
LeaveSem(p) ==
    /\ Goto(p, "unsem", "idle")
    /\ sem' = sem - 1
    /\ UNCHANGED <<made, pool, chanClosed, closed, conn, closer, closes>>

\* Close, three steps inside once.Do: raise the flag, ...
CloseFlag ==
    /\ closer = "open"
    /\ closer' = "flagged"
    /\ closed' = TRUE
    /\ UNCHANGED <<made, pool, chanClosed, sem, pc, conn, closes>>

\* Mutant: the channel is drained but never closed.
MutCloseChan ==
    /\ closer = "flagged"
    /\ closer' = "draining"
    /\ UNCHANGED <<made, pool, chanClosed, closed, sem, pc, conn, closes>>

\* ... close the channel, ...
CloseChan ==
    /\ closer = "flagged"
    /\ closer' = "draining"
    /\ chanClosed' = TRUE
    /\ UNCHANGED <<made, pool, closed, sem, pc, conn, closes>>

\* Mutant: Close closes every connection it ever opened, not the buffered ones.
MutCloseAll ==
    /\ closer = "draining"
    /\ closer' = "done"
    /\ pool' = <<>>
    /\ closes' = [c \in Conns |-> IF c \in made THEN closes[c] + 1 ELSE closes[c]]
    /\ UNCHANGED <<made, chanClosed, closed, sem, pc, conn>>

\* ... and close what is still buffered, one connection at a time.
CloseDrain ==
    /\ closer = "draining"
    /\ \/ /\ pool # <<>>
          /\ CloseSocket(Head(pool))
          /\ pool' = Tail(pool)
          /\ UNCHANGED closer
       \/ /\ pool = <<>>
          /\ closer' = "done"
          /\ UNCHANGED <<pool, closes>>
    /\ UNCHANGED <<made, chanClosed, closed, sem, pc, conn>>

OpStep(p) ==
    \/ EnterSem(p) \/ AcquireCheck(p) \/ AcquireRecv(p) \/ Exchange(p)
    \/ ReleaseCheck(p) \/ ReleaseSend(p) \/ LeaveSem(p)

CloseStep == CloseChan \/ CloseDrain

Next ==
    \/ \E p \in Ops : Call(p) \/ OpStep(p)
    \/ CloseFlag
    \/ CloseStep

Spec == Init /\ [][Next]_vars

\* A goroutine that can run does run.  Goroutines blocked on a channel are
\* woken in FIFO order, so one that waits for the semaphore or for a connection
\* is not overtaken forever: strong fairness of the two blocking receives.
\* Whether Close is ever called is left open.
Fairness ==
    /\ \A p \in Ops : /\ WF_vars(AcquireCheck(p) \/ Exchange(p) \/ ReleaseCheck(p)
                                  \/ ReleaseSend(p) \/ LeaveSem(p))
                      /\ SF_vars(EnterSem(p))
                      /\ SF_vars(AcquireRecv(p))
    /\ WF_vars(CloseStep)

FairSpec == Spec /\ Fairness

-----------------------------------------------------------------------------
\* The types of the state, with the capacities of the two channels.
TypeOK ==
    /\ made \in SUBSET Conns
    /\ pool \in Seq(Conns)
    /\ chanClosed \in BOOLEAN
    /\ closed \in BOOLEAN
    /\ sem \in Nat
    /\ pc \in [Ops -> PCs]
    /\ conn \in [Ops -> Conns \cup {NoConn}]
    /\ closer \in CloserPCs
    /\ closes \in [Conns -> Nat]

\* A connection is never shared: no two operations exchange packets on the same
\* socket, and no connection is buffered twice or buffered while in use (acquire
\* and release hand over ownership through the channel only).
ExclusiveConn ==
    /\ \A p, q \in Ops : Holding(p) /\ Holding(q) /\ conn[p] = conn[q] => p = q
    /\ \A p \in Ops : Holding(p) => conn[p] \in made \ InPool
    /\ IsInjective(pool)

\* Close, racing with operations, never closes a socket that an operation is
\* using: an exchange in flight finishes on an open socket.
NoUseAfterClose == \A p \in Ops : pc[p] = "use" => closes[conn[p]] = 0

\* No socket is closed twice, whichever of Close, release and the recovered
\* panic gets to it.
ClosedAtMostOnce == \A c \in Conns : closes[c] <= 1

\* No socket leaks: when Close has returned and the operations have too, every
\* connection the constructor opened is closed, including one that an operation
\* held, or received from the closed channel, while Close was draining it.
NoLeak ==
    closer = "done" /\ (\A p \in Ops : ~Holding(p))
        => \A c \in made : closes[c] = 1

\* The OLT never sees more than MaxConcurrent exchanges at a time, and the
\* semaphore counts exactly the operations inside it.
ConcurrencyLimit ==
    /\ sem = Cardinality(SemHolders)
    /\ Cardinality({p \in Ops : Holding(p)}) <= MaxConcurrent

\* A release never blocks: there is room in the channel for every connection in
\* hand, so the deferred `r.pool <- conn' cannot stall an operation that is done.
ReleaseNeverBlocks ==
    \A p \in Ops : pc[p] = "send" /\ ~chanClosed => Len(pool) < PoolSize

\* The inductive strengthening of the safety invariants: where the connections
\* are, and how far Close has come, in every state.
\*  - the flags agree with the progress of Close;
\*  - what is buffered or in hand was opened and is not closed;
\*  - what was opened is buffered, in hand, or closed: nothing gets lost;
\*  - nothing is buffered once Close has seen the channel empty.
ConnAccounting ==
    /\ closed <=> closer # "open"
    /\ chanClosed <=> closer \in {"draining", "done"}
    /\ InPool \subseteq made
    /\ \A c \in InPool : closes[c] = 0
    /\ \A p \in Ops : Holding(p) => closes[conn[p]] = 0
    /\ \A c \in made : \/ c \in InPool
                       \/ \E p \in Ops : Holding(p) /\ conn[p] = c
                       \/ closes[c] = 1
    /\ closer = "done" => pool = <<>>

\* The semaphore channel holds one token for each operation inside it.
SemCount == sem = Cardinality(SemHolders) /\ sem <= MaxConcurrent

PoolInv ==
    TypeOK /\ SemCount /\ ExclusiveConn /\ ConnAccounting /\ ClosedAtMostOnce

\* What the pool's state says of leases: the local variable conn of an operation
\* is its lease, and a socket is open until somebody closes it.
Lease == INSTANCE ConnLease WITH
    using <- conn,
    life  <- [c \in Conns |-> IF c \notin made THEN "absent"
                              ELSE IF closes[c] = 0 THEN "open" ELSE "closed"],
    shut  <- closer = "done"

\* The three channels and flags together keep the promise of ConnLease: every
\* step of an operation and of Close takes, returns or closes one lease, or is
\* invisible to the users of the pool.
ImplementsLease == Lease!Spec

\* Every operation returns, also one that was waiting for a connection when Close
\* took them all away: close(pool) wakes it.
OpReturns == \A p \in Ops : pc[p] # "idle" ~> pc[p] = "idle"

=============================================================================
