------------------------------- MODULE Inventory -------------------------------
(***************************************************************************)
(* From the entries of OLTS or of the device-registry to the configurations*)
(* that Reconcile compares: BuildOLTRegistry and oltFromJSON of            *)
(* config/olts.go, once at startup with the environment and its legacy OLT,*)
(* and again on every poll without either.                                 *)
(*                                                                         *)
(* An entry is a record; a host or a community that is missing is FALSE in *)
(* `usable'.  Boards are left as they are but for the number of PONs of a  *)
(* bare slot.  Connects succeed: their failures are in OltRegistry.        *)
(***************************************************************************)
EXTENDS Integers, Sequences

CONSTANTS Lists,      \* what the device-registry may hold: sequences of entries
          Envs,       \* [default, legacy, max]: DEFAULT_OLT or "", SNMP_HOST, SNMP_MAX_CONCURRENT
          MaxEdits    \* bound: changes of the list

ASSUME InventoryAssumption ==
    /\ \A l \in Lists : \A i \in DOMAIN l :
          /\ l[i].usable \in BOOLEAN
          /\ l[i].port \in Int /\ l[i].max \in Int /\ l[i].pons \in Int
    /\ \A e \in Envs : e.legacy \in BOOLEAN /\ e.max \in Int
    /\ MaxEdits \in Nat

VARIABLES env,
          list,     \* the device-registry
          edits,
          olts,     \* reg.entries: id -> configuration
          pool,     \* id -> concurrency limit of the pool that was built
          rebuilt,  \* OLTs that the last Reconcile stopped or built anew
          source,   \* the list that olts came from (for the property)
          up        \* "no", "yes" or "failed": the process

inventoryVars == <<env, list, edits, olts, pool, rebuilt, source, up>>

NoOlts == [id \in {} |-> 0]

InventoryInit ==
    /\ env \in Envs
    /\ list \in Lists
    /\ edits = 0
    /\ olts = NoOlts /\ pool = NoOlts
    /\ rebuilt = {}
    /\ source = <<>>
    /\ up = "no"

\* oltFromJSON.  The port loses the bits that a uint16 has not.
oltFromJSON(e, defaultMax) ==
    [id     |-> e.id,
     owner  |-> e.owner,
     host   |-> e.host,
     port   |-> IF e.port % 65536 = 0 THEN 161 ELSE e.port % 65536,
     max    |-> IF e.max >= 1 THEN e.max ELSE IF defaultMax >= 1 THEN defaultMax ELSE 5,
     boards |-> IF e.bare THEN (IF e.pons \in 1 .. 16 THEN e.pons ELSE 16) ELSE 0]

Ids(l) == {l[i].id : i \in DOMAIN l}

\* One bad entry makes the whole list an error, as does an id that comes twice or a
\* default that is not listed.
Accepted(l, default) ==
    /\ \A i \in DOMAIN l : l[i].usable /\ l[i].id # ""
    /\ \A i, j \in DOMAIN l : l[i].id = l[j].id => i = j
    /\ default # "" => default \in Ids(l)

Built(l, defaultMax) ==
    [id \in Ids(l) |-> oltFromJSON(l[CHOOSE i \in DOMAIN l : l[i].id = id], defaultMax)]

\* The OLT that is synthesised from SNMP_* and OLT_BOARDS.
Legacy ==
    LET id == IF env.default = "" THEN "default" ELSE env.default
    IN  [i \in {id} |-> [id |-> id, owner |-> 0, host |-> "legacy", port |-> 161,
                         max |-> env.max, boards |-> 0]]

\* Mutant: the limit of concurrent operations is one of the connection fields.
MutConnection(o) == <<o.host, o.port, o.boards, o.max>>

\* The fields of oltChangeKey, but for the community and the kind of walk, which the
\* startup and a poll take from the list as they are.
Connection(o) == <<o.host, o.port, o.boards>>

\* Reconcile, as far as it decides which stacks to keep.
Apply(new) ==
    LET kept == {id \in DOMAIN new \cap DOMAIN olts :
                    Connection(new[id]) = Connection(olts[id])}
    IN  /\ olts' = new
        /\ pool' = [id \in DOMAIN new |-> IF id \in kept THEN pool[id] ELSE new[id].max]
        /\ rebuilt' = (DOMAIN new \union DOMAIN olts) \ kept

Startup ==
    /\ up = "no"
    /\ IF list = <<>>
       THEN IF env.legacy
            THEN Apply(Legacy) /\ up' = "yes"
            ELSE up' = "failed" /\ UNCHANGED <<olts, pool, rebuilt>>
       ELSE IF Accepted(list, env.default)
            THEN Apply(Built(list, env.max)) /\ up' = "yes"
            ELSE up' = "failed" /\ UNCHANGED <<olts, pool, rebuilt>>
    /\ source' = list
    /\ UNCHANGED <<env, list, edits>>

\* A poll: neither an empty list nor one with an error is applied.
Poll ==
    /\ up = "yes"
    /\ IF list # <<>> /\ Accepted(list, "")
       THEN Apply(Built(list, 0)) /\ source' = list
       ELSE rebuilt' = {} /\ UNCHANGED <<olts, pool, source>>
    /\ UNCHANGED <<env, list, edits, up>>

Edit ==
    /\ edits < MaxEdits
    /\ \E l \in Lists \ {list} : list' = l
    /\ edits' = edits + 1
    /\ UNCHANGED <<env, olts, pool, rebuilt, source, up>>

InventoryNext == Startup \/ Poll \/ Edit

InventorySpec == InventoryInit /\ [][InventoryNext]_inventoryVars

--------------------------------------------------------------------------------
\* A poll of the list that was applied last disturbs no OLT, whether it was applied
\* by a poll or by the startup: what BuildOLTRegistry fills in for missing fields with
\* and without the environment differs in fields that oltChangeKey leaves out.
PollKeepsStacks ==
    [][(Poll /\ list = source) => rebuilt' = {}]_inventoryVars

\* .env.example:34: SNMP_MAX_CONCURRENT is the "maximum concurrent SNMP operations"
\* (not so: a poll that rebuilds the OLT takes 5, and one that changes the limit of
\* an OLT keeps its pool).
LimitIsConfigured == \A id \in DOMAIN olts : pool[id] = olts[id].max

\* An error in one entry concerns that entry (not so: no change of the others is
\* applied any more).
OthersFollow ==
    [][Poll => \A i \in DOMAIN list :
          (list[i].usable /\ list[i].id # "") => list[i].id \in DOMAIN olts']_inventoryVars
================================================================================
