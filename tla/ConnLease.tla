----------------------------- MODULE ConnLease -----------------------------
(***************************************************************************)
(* What the SNMP connection pool promises to the goroutines that use it,   *)
(* without channels, semaphore or flags: a connection is leased to one     *)
(* operation at a time, a lease is taken on an open connection and stays   *)
(* open until the operation itself ends it, and when the pool has shut no  *)
(* connection is left that is open and leased to nobody.                   *)
(***************************************************************************)
CONSTANTS
    Ops,    \* goroutines that use connections
    Conns,  \* the connections the pool may have opened
    Seed,   \* the one it always has
    NoConn  \* the operation has no lease

VARIABLES
    using,  \* the connection leased to each operation
    life,   \* "absent" (never opened), "open" or "closed"
    shut    \* Close has returned

lvars == <<using, life, shut>>

Lives == {"absent", "open", "closed"}

Leased(c) == \E p \in Ops : using[p] = c

Init ==
    /\ using = [p \in Ops |-> NoConn]
    /\ life \in [Conns -> {"absent", "open"}]
    /\ life[Seed] = "open"
    /\ shut = FALSE

\* An operation leases an open connection that nobody else has.
Take(p, c) ==
    /\ ~shut
    /\ using[p] = NoConn
    /\ life[c] = "open"
    /\ ~Leased(c)
    /\ using' = [using EXCEPT ![p] = c]
    /\ UNCHANGED <<life, shut>>

\* It hands the connection back, open, to a pool that has not shut, ...
GiveBack(p) ==
    /\ ~shut
    /\ using[p] # NoConn
    /\ using' = [using EXCEPT ![p] = NoConn]
    /\ UNCHANGED <<life, shut>>

\* ... or closes it: nobody else may close a leased connection.
CloseOwn(p) ==
    /\ using[p] # NoConn
    /\ life' = [life EXCEPT ![using[p]] = "closed"]
    /\ using' = [using EXCEPT ![p] = NoConn]
    /\ UNCHANGED shut

\* Close takes the connections nobody has.
CloseIdle(c) ==
    /\ ~shut
    /\ life[c] = "open"
    /\ ~Leased(c)
    /\ life' = [life EXCEPT ![c] = "closed"]
    /\ UNCHANGED <<using, shut>>

\* Close returns when it has taken them all.
Shut ==
    /\ ~shut
    /\ \A c \in Conns : life[c] = "open" => Leased(c)
    /\ shut' = TRUE
    /\ UNCHANGED <<using, life>>

Next ==
    \/ \E p \in Ops : GiveBack(p) \/ CloseOwn(p) \/ \E c \in Conns : Take(p, c)
    \/ \E c \in Conns : CloseIdle(c)
    \/ Shut

Spec == Init /\ [][Next]_lvars
=============================================================================
