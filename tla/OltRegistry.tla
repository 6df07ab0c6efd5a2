----------------------------- MODULE OltRegistry -----------------------------
(***************************************************************************)
(* The dynamic OLT registry (app/registry.go) with the goroutines that     *)
(* touch it: the boot sequence and the shutdown of app/app.go, the         *)
(* device-registry poller, the background workers GoForEach starts (the    *)
(* cache pre-warm), the goroutines that close a retired pool, and the      *)
(* lookups of the default OLT.                                             *)
(*                                                                         *)
(* reg.mu makes Reconcile, Close, GoForEach and the lookups atomic with    *)
(* respect to each other.  A worker finishes and a retired pool is closed  *)
(* outside the lock, at any moment.  retireEntry reads the worker count    *)
(* once, and that read decides: a worker that returns after the read is    *)
(* waited for, one that returned before it is not.                         *)
(*                                                                         *)
(* A stack (SNMP pool, usecase, handler) is named <<id, n>>: the n-th one  *)
(* built for the OLT id.  An entry points to its stack and to its          *)
(* lifecycle (context and counts of its workers), which is made with the   *)
(* stack and is named like it.  A configuration is what Reconcile tells    *)
(* apart: `conn', the fields oltChangeKey compares, and `meta', the        *)
(* others.                                                                 *)
(***************************************************************************)
EXTENDS Naturals, FiniteSetsExt

CONSTANTS
    Ids,        \* OLT ids, ordered like the strings they stand for
    Default,    \* DEFAULT_OLT
    Conns,      \* host|port|community|walk|boards
    Metas,      \* owner and organisation
    MaxGen,     \* bound: stacks built per OLT
    MaxEdits,   \* bound: changes made in device-registry
    MaxSweeps,  \* bound: calls of GoForEach
    NoOlt       \* result of a lookup in an empty registry

ASSUME RegistryAssumption ==
    /\ Ids \subseteq Nat /\ IsFiniteSet(Ids) /\ Default \in Ids
    /\ NoOlt \notin Ids
    /\ MaxGen \in Nat /\ MaxEdits \in Nat /\ MaxSweeps \in Nat

Config == [conn : Conns, meta : Metas]
Stack  == Ids \X (1..MaxGen)
Entry  == [stack : Stack, lc : Stack, cfg : Config]

\* A list of OLTs as BuildOLTRegistry returns it: ids are unique.
OltLists == UNION {[D -> Config] : D \in SUBSET Ids}
NoOlts   == [i \in {} |-> CHOOSE c \in Config : TRUE]

VARIABLES
    phase,    \* the process: "boot", "up", "stopping", "closed"
    entries,  \* reg.entries
    gen,      \* stacks built so far for each OLT
    pool,     \* "none", "open" or "closed" for each stack
    retired,  \* lifecycles whose context is cancelled
    active,   \* lc.active: workers whose fn has not returned
    exiting,  \* workers past active.Add(-1), before workers.Done()
    reapers,  \* stacks with a goroutine waiting to close their pool
    poller,   \* the poller: "off", "wait", "fetch", "done"
    truth,    \* what device-registry lists
    reply,    \* the response the poller is about to act on
    applied,  \* the list given to the last Reconcile
    failed,   \* the OLTs that the last Reconcile could not connect
    resolved, \* result of the last GetDefault
    edits, sweeps

stackVars == <<pool, retired, active, exiting, reapers>>
vars == <<phase, entries, gen, stackVars, poller, truth, reply, applied, failed,
          resolved, edits, sweeps>>

Mapped == {entries[id].stack : id \in DOMAIN entries}
Lives  == {entries[id].lc : id \in DOMAIN entries}

-----------------------------------------------------------------------------
\* LoadConfig has accepted the list: it contains the default OLT.
Init ==
    /\ phase = "boot"
    /\ entries = NoOlts
    /\ gen = [id \in Ids |-> 0]
    /\ pool = [s \in Stack |-> "none"]
    /\ retired = {}
    /\ active = [s \in Stack |-> 0]
    /\ exiting = [s \in Stack |-> 0]
    /\ reapers = {}
    /\ poller = "off"
    /\ truth \in {l \in OltLists : Default \in DOMAIN l}
    /\ reply = NoOlts
    /\ applied = NoOlts
    /\ failed = {}
    /\ resolved = NoOlt
    /\ edits = 0
    /\ sweeps = 0

\* Mutant: the whole configuration is compared, not its connection fields.
MutChangeKey(c) == c

\* oltChangeKey
oltChangeKey(c) == c.conn

\* retireEntry, the pools of the entries E: closed at once when no worker runs ...
RetirePool(E, p) ==
    [s \in Stack |-> IF \E e \in E : e.stack = s /\ active[e.lc] = 0 THEN "closed" ELSE p[s]]

\* Mutant: no goroutine is left behind to close the pool.
MutRetireReapers(E) == reapers

\* ... and by a goroutine that waits for them otherwise.
RetireReapers(E) == reapers \cup {e.stack : e \in {x \in E : active[x.lc] > 0}}

\* The stack, and the lifecycle, that addOLTLocked makes next.
Fresh(id) == <<id, gen[id] + 1>>

\* Mutant: an entry whose connection fields are unchanged is left as it is.
MutNextEntry(id, o, build) ==
    IF id \in build THEN [stack |-> Fresh(id), lc |-> Fresh(id), cfg |-> o] ELSE entries[id]

\* Mutant: a rebuilt OLT keeps the configuration it had.
MutOldConfig(id, o, build) ==
    [stack |-> IF id \in build THEN Fresh(id) ELSE entries[id].stack,
     lc    |-> IF id \in build THEN Fresh(id) ELSE entries[id].lc,
     cfg   |-> IF id \in DOMAIN entries THEN entries[id].cfg ELSE o]

\* Mutant: the copy of an entry gets a lifecycle of its own.
MutFreshLifecycle(id, o, build) ==
    [stack |-> IF id \in build THEN Fresh(id) ELSE entries[id].stack,
     lc    |-> Fresh(id),
     cfg   |-> o]

\* The entry of an OLT after Reconcile: a new stack, or a copy of the entry with
\* the same stack and lifecycle and the new configuration.
NextEntry(id, o, build) ==
    [stack |-> IF id \in build THEN Fresh(id) ELSE entries[id].stack,
     lc    |-> IF id \in build THEN Fresh(id) ELSE entries[id].lc,
     cfg   |-> o]

\* Reconcile(newOLTs).  F is the set of OLTs whose SNMP connection cannot be set
\* up: addOLTLocked fails and they stay out of the map until a later Reconcile.
Reconcile(list, F) ==
    LET gone    == DOMAIN entries \ DOMAIN list
        changed == {id \in DOMAIN entries \cap DOMAIN list :
                       oltChangeKey(entries[id].cfg) # oltChangeKey(list[id])}
        added   == DOMAIN list \ DOMAIN entries
        build   == (changed \cup added) \ F
        fresh   == {Fresh(id) : id \in build}
        E       == {entries[id] : id \in gone \cup changed}
    IN  /\ F \subseteq changed \cup added
        /\ \A id \in build : gen[id] < MaxGen
        /\ entries' = [id \in DOMAIN list \ F |-> NextEntry(id, list[id], build)]
        /\ gen' = [id \in Ids |-> IF id \in build THEN gen[id] + 1 ELSE gen[id]]
        /\ pool' = [s \in Stack |-> IF s \in fresh THEN "open"
                                                   ELSE RetirePool(E, pool)[s]]
        /\ retired' = retired \cup {e.lc : e \in E}
        /\ reapers' = RetireReapers(E)
        /\ applied' = list
        /\ failed' = F
        /\ UNCHANGED <<active, exiting>>

\* Start: the first Reconcile, with the list fetched at startup.  When no OLT
\* could be initialised Start returns an error and the process ends.
Boot ==
    /\ phase = "boot"
    /\ \E F \in SUBSET DOMAIN truth :
          /\ Reconcile(truth, F)
          /\ phase' = IF DOMAIN entries' = {} THEN "closed" ELSE "up"
          /\ poller' = IF DOMAIN entries' = {} THEN "off" ELSE "wait"
    /\ UNCHANGED <<truth, reply, resolved, edits, sweeps>>

\* An operator adds, changes or removes one OLT in device-registry.
Edit ==
    /\ edits < MaxEdits
    /\ \E id \in Ids :
          \/ \E c \in Config :
                /\ id \in DOMAIN truth => truth[id] # c
                /\ truth' = [i \in DOMAIN truth \cup {id} |-> IF i = id THEN c ELSE truth[i]]
          \/ /\ id \in DOMAIN truth
             /\ truth' = [i \in DOMAIN truth \ {id} |-> truth[i]]
    /\ edits' = edits + 1
    /\ UNCHANGED <<phase, entries, gen, stackVars, poller, reply, applied, failed,
                   resolved, sweeps>>

\* StartPoller: the ticker fires and the list is requested.  select picks either
\* case when the context is done as well.
PollTick ==
    /\ poller = "wait"
    /\ poller' = "fetch"
    /\ reply' = truth
    /\ UNCHANGED <<phase, entries, gen, stackVars, truth, applied, failed, resolved,
                   edits, sweeps>>

\* The request fails, the list does not parse, or it is empty: keep the OLTs.
PollKeep ==
    /\ poller = "fetch"
    /\ poller' = "wait"
    /\ UNCHANGED <<phase, entries, gen, stackVars, truth, reply, applied, failed,
                   resolved, edits, sweeps>>

\* The response lists at least one OLT: reconcile, whatever has happened to the
\* registry since the request was sent.
PollApply(F) ==
    /\ poller = "fetch"
    /\ DOMAIN reply # {}
    /\ Reconcile(reply, F)
    /\ poller' = "wait"
    /\ UNCHANGED <<phase, truth, reply, resolved, edits, sweeps>>

PollerExit ==
    /\ poller = "wait"
    /\ phase \in {"stopping", "closed"}
    /\ poller' = "done"
    /\ UNCHANGED <<phase, entries, gen, stackVars, truth, reply, applied, failed,
                   resolved, edits, sweeps>>

\* GoForEach: one worker for every mapped entry, registered with the entry's
\* lifecycle under the read lock.
GoForEach ==
    /\ phase = "up"
    /\ sweeps < MaxSweeps
    /\ sweeps' = sweeps + 1
    /\ active' = [l \in Stack |-> IF l \in Lives THEN active[l] + 1 ELSE active[l]]
    /\ UNCHANGED <<phase, entries, gen, pool, retired, exiting, reapers, poller, truth,
                   reply, applied, failed, resolved, edits>>

\* fn returns, because it is done or because its context was cancelled, and the
\* deferred active.Add(-1) runs ...
WorkerReturn(s) ==
    /\ active[s] > 0
    /\ active' = [active EXCEPT ![s] = @ - 1]
    /\ exiting' = [exiting EXCEPT ![s] = @ + 1]
    /\ UNCHANGED <<phase, entries, gen, pool, retired, reapers, poller, truth, reply,
                   applied, failed, resolved, edits, sweeps>>

\* ... and then the deferred workers.Done().
WorkerDone(s) ==
    /\ exiting[s] > 0
    /\ exiting' = [exiting EXCEPT ![s] = @ - 1]
    /\ UNCHANGED <<phase, entries, gen, pool, retired, active, reapers, poller, truth,
                   reply, applied, failed, resolved, edits, sweeps>>

\* The goroutine of retireEntry: workers.Wait() returns, Repo.Close().
Reap(s) ==
    /\ s \in reapers
    /\ active[s] + exiting[s] = 0
    /\ pool' = [pool EXCEPT ![s] = "closed"]
    /\ reapers' = reapers \ {s}
    /\ UNCHANGED <<phase, entries, gen, retired, active, exiting, poller, truth, reply,
                   applied, failed, resolved, edits, sweeps>>

\* GetDefault: the configured default, or else whatever entry the iteration over
\* the Go map yields first.
GetDefault ==
    /\ phase # "boot"
    /\ \/ /\ Default \in DOMAIN entries
          /\ resolved' = Default
       \/ /\ Default \notin DOMAIN entries
          /\ \E id \in DOMAIN entries : resolved' = id
       \/ /\ DOMAIN entries = {}
          /\ resolved' = NoOlt
    /\ UNCHANGED <<phase, entries, gen, stackVars, poller, truth, reply, applied,
                   failed, edits, sweeps>>

\* Shutdown, in the order of the deferred calls: pollerCancel(), ...
StopPoller ==
    /\ phase = "up"
    /\ phase' = "stopping"
    /\ UNCHANGED <<entries, gen, stackVars, poller, truth, reply, applied, failed,
                   resolved, edits, sweeps>>

\* ... then OLTRegistry.Close: every entry is retired and deleted.
CloseRegistry ==
    /\ phase = "stopping"
    /\ phase' = "closed"
    /\ entries' = NoOlts
    /\ LET E == {entries[id] : id \in DOMAIN entries}
       IN  /\ pool' = RetirePool(E, pool)
           /\ retired' = retired \cup {e.lc : e \in E}
           /\ reapers' = RetireReapers(E)
    /\ applied' = NoOlts
    /\ failed' = {}
    /\ UNCHANGED <<gen, active, exiting, poller, truth, reply, resolved, edits, sweeps>>

WorkerStep(s) == WorkerReturn(s) \/ WorkerDone(s) \/ Reap(s)

Next ==
    \/ Boot \/ Edit \/ PollTick \/ PollKeep \/ PollerExit
    \/ \E F \in SUBSET Ids : PollApply(F)
    \/ GoForEach \/ GetDefault \/ StopPoller \/ CloseRegistry
    \/ \E s \in Stack : WorkerStep(s)

Spec == Init /\ [][Next]_vars

\* Goroutines run: a worker returns (its context is cancelled when the stack is
\* retired, and a pre-warm is finite anyway), the reaper is woken, the ticker
\* fires, and the request, which has a timeout, returns.  A poll succeeds again and
\* again and OLTs that can be connected are: strong fairness, because failures come
\* in between.
Fairness ==
    /\ \A s \in Stack : WF_vars(WorkerReturn(s)) /\ WF_vars(WorkerDone(s)) /\ WF_vars(Reap(s))
    /\ WF_vars(Boot)
    /\ WF_vars(PollTick)
    /\ WF_vars(PollKeep \/ \E F \in SUBSET Ids : PollApply(F))
    /\ SF_vars(PollApply({}))

FairSpec == Spec /\ Fairness

-----------------------------------------------------------------------------
\* The types of the state: counters of workers never go negative, stacks are ones
\* that were built.
TypeOK ==
    /\ phase \in {"boot", "up", "stopping", "closed"}
    /\ DOMAIN entries \subseteq Ids
    /\ \A id \in DOMAIN entries : entries[id] \in Entry
    /\ gen \in [Ids -> 0..MaxGen]
    /\ pool \in [Stack -> {"none", "open", "closed"}]
    /\ retired \subseteq Stack
    /\ active \in [Stack -> Nat]
    /\ exiting \in [Stack -> Nat]
    /\ reapers \subseteq Stack
    /\ poller \in {"off", "wait", "fetch", "done"}
    /\ truth \in OltLists /\ reply \in OltLists /\ applied \in OltLists
    /\ failed \subseteq Ids
    /\ resolved \in Ids \cup {NoOlt}
    /\ edits \in 0..MaxEdits /\ sweeps \in 0..MaxSweeps

\* A worker that GoForEach started never runs against a closed pool, whatever
\* Reconcile or Close does to its OLT meanwhile: the workers are counted in a
\* lifecycle that every copy of the entry keeps.
WorkerPoolOpen == \A s \in Stack : active[s] > 0 => pool[s] = "open"

\* What a request, a probe or the trap pipeline finds in the registry is a stack
\* that works: its pool is open and its lifecycle is not cancelled.
MappedUsable == \A s \in Mapped : pool[s] = "open" /\ s \notin retired

\* No SNMP pool is lost: one that is open is still served, or some goroutine is
\* waiting to close it.
NoPoolLost == \A s \in Stack : pool[s] = "open" => s \in Mapped \cup reapers

\* The registry holds exactly the OLTs of the list that was reconciled last, with
\* that list's configuration, except those that could not be connected.
FollowsList ==
    /\ DOMAIN entries = DOMAIN applied \ failed
    /\ \A id \in DOMAIN entries : entries[id].cfg = applied[id]

\* A Reconcile that changes only an OLT's owner, or another OLT, leaves its SNMP
\* stack (and so the workers and requests on it) alone.
UnchangedKeepsStack ==
    [][\A id \in DOMAIN entries \cap DOMAIN entries' :
          entries'[id].cfg.conn = entries[id].cfg.conn
              => entries'[id].stack = entries[id].stack]_vars

\* The inductive strengthening of the safety invariants.
StackInv ==
    /\ \A id \in DOMAIN entries : entries[id].stack[1] = id
    /\ \A id \in DOMAIN entries : entries[id].lc = entries[id].stack
    /\ \A s \in Stack : s[2] > gen[s[1]] => pool[s] = "none"
    /\ \A s \in Mapped : s[2] = gen[s[1]]
    /\ \A s \in Stack : pool[s] = "none" => active[s] = 0 /\ s \notin retired
    /\ reapers \subseteq retired
    /\ \A s \in reapers : pool[s] = "open"

RegistryInv == TypeOK /\ WorkerPoolOpen /\ MappedUsable /\ NoPoolLost /\ StackInv

\* Every retired pool is closed in the end.
RetiredIsClosed == \A s \in Stack : s \in retired ~> pool[s] = "closed"

\* When the inventory stops changing, is not empty and the process stays up, the
\* registry ends up serving exactly that inventory, also after failed connects.
InSync == DOMAIN entries = DOMAIN truth /\ \A id \in DOMAIN truth : entries[id].cfg = truth[id]
Converges == <>[](phase = "up" /\ DOMAIN truth # {}) => <>[]InSync

\* GetDefault's comment: the fallback is deterministic, the first entry by id.
FallbackIsFirst ==
    [][GetDefault /\ Default \notin DOMAIN entries /\ DOMAIN entries # {}
          => resolved' = Min(DOMAIN entries)]_vars

\* OLTRegistry.Close's comment: Close tears down all OLT stacks.
CloseIsFinal == phase = "closed" => DOMAIN entries = {}

=============================================================================
