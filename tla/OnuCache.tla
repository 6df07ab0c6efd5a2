------------------------------ MODULE OnuCache ------------------------------
(***************************************************************************)
(* The Redis caches of one PON and the readers and writers of them in      *)
(* internal/usecase/onu.go: the ONU list (with its background refresh),    *)
(* the serial-number list (with nocache reads), the list of unused ONU     *)
(* ids (with its forced update), and the two operations that clear caches. *)
(*                                                                         *)
(* Every read runs inside singleflight: callers with the same key share    *)
(* the call of the first one, the leader, whose context decides whether    *)
(* the cache is looked at.  Each Redis command and each SNMP exchange is a *)
(* step.  The PON's population has a number, `ver', that lists carry with  *)
(* them; the program has no such number.                                   *)
(***************************************************************************)
EXTENDS Integers, FiniteSetsExt

CONSTANTS
    Ids,         \* ONU ids of the PON, 1..MaxOnuIDPerPon in the code
    Callers,     \* requests, pre-warm and power-monitor reads; one call each
    Refreshers,  \* goroutines for refreshONUInfoCache; the code has no limit
    Calls,       \* what callers ask for: a subset of Flights
    MaxChanges,  \* bound: changes of the population
    MaxClears,   \* bound: clear requests
    MaxFails     \* bound: SNMP exchanges and Redis commands that fail

Keys == {"info", "serial", "empty"}
Flights == Keys \cup {"update"}
Jobs == Flights \cup Refreshers

ASSUME CacheAssumption ==
    /\ IsFiniteSet(Ids) /\ Calls \subseteq Flights
    /\ Refreshers \cap Flights = {}
    /\ MaxChanges \in Nat /\ MaxClears \in Nat /\ MaxFails \in Nat

VARIABLES
    onus,     \* the ONUs configured on the PON
    ver,      \* number of that population
    cache,    \* the three Redis keys
    job,      \* singleflight calls and background refreshes
    caller,   \* the callers
    clear,    \* DeleteCache or InvalidateONUCache under way
    floor,    \* version a later read has to reach, by clears and updates that returned
    cleared,  \* version at the last delete that no finished walk was waiting to undo
    newest,   \* the newest list ever saved under a key
    clears,   \* clear requests so far
    fails     \* failures so far

vars == <<onus, ver, cache, job, caller, clear, floor, cleared, newest, clears, fails>>

NoEntry  == [in |-> FALSE, ver |-> 0, rows |-> {}, low |-> FALSE]
NoJob    == [st |-> "none", ok |-> FALSE, ver |-> 0, rows |-> {}, live |-> FALSE]
NotYet   == [st |-> "idle", job |-> "info", nocache |-> FALSE, leads |-> FALSE, asked |-> 0,
             floor |-> 0, ok |-> FALSE, ver |-> 0, rows |-> {}, live |-> FALSE]
NoClear  == [st |-> "idle", op |-> "delete", since |-> 0, sure |-> TRUE]

\* Mutant: the ONU list is saved under the key of the serial list.
MutKeyOf(j) == IF j \in Refreshers \cup {"info"} THEN "serial"
               ELSE IF j = "update" THEN "empty" ELSE j

\* The Redis key a job saves its list under.
KeyOf(j) == IF j \in Refreshers THEN "info" ELSE IF j = "update" THEN "empty" ELSE j

Fail == fails < MaxFails /\ fails' = fails + 1

Init ==
    /\ onus \in SUBSET Ids
    /\ ver = 0
    /\ cache = [k \in Keys |-> NoEntry]
    /\ job = [j \in Jobs |-> NoJob]
    /\ caller = [c \in Callers |-> NotYet]
    /\ clear = NoClear
    /\ floor = [k \in Keys |-> 0]
    /\ cleared = [k \in Keys |-> 0]
    /\ newest = [k \in Keys |-> 0]
    /\ clears = 0
    /\ fails = 0

-----------------------------------------------------------------------------
\* An ONU is configured on the PON or removed from it, by whoever manages the OLT.
Provision(i) ==
    /\ ver < MaxChanges
    /\ onus' = IF i \in onus THEN onus \ {i} ELSE onus \cup {i}
    /\ ver' = ver + 1
    /\ UNCHANGED <<cache, job, caller, clear, floor, cleared, newest, clears, fails>>

\* Redis: an entry expires.  The last fifth of its TTL matters for the ONU list only.
Age(k) ==
    /\ cache[k].in
    /\ cache' = [cache EXCEPT ![k] = IF k = "info" /\ ~@.low THEN [@ EXCEPT !.low = TRUE]
                                       ELSE NoEntry]
    /\ UNCHANGED <<onus, ver, job, caller, clear, floor, cleared, newest, clears, fails>>

-----------------------------------------------------------------------------
\* Mutant: the leader looks at the cache although its request says nocache.
MutFirst(j, nocache) == IF j = "update" THEN "walk" ELSE "check"

\* Where a call begins: a forced update never looks at the cache, and a read of
\* the serial list does not when its leader's context says nocache.
First(j, nocache) == IF j = "update" \/ nocache THEN "walk" ELSE "check"

\* sg.Do: lead a new call or wait for the one that is running.  Only the serial
\* list can be asked for with nocache.
Call(c, j, nocache) ==
    /\ caller[c].st = "idle"
    /\ nocache => j = "serial"
    /\ caller' = [caller EXCEPT ![c] = [NotYet EXCEPT !.st = "wait", !.job = j,
                    !.nocache = nocache, !.leads = (job[j].st = "none"), !.asked = ver,
                    !.floor = floor[KeyOf(j)]]]
    /\ job' = IF job[j].st = "none" THEN [job EXCEPT ![j].st = First(j, nocache)] ELSE job
    /\ UNCHANGED <<onus, ver, cache, clear, floor, cleared, newest, clears, fails>>

\* Mutant: the reader takes any entry for a hit.
MutIsHit(k) == cache[k].in

\* The entry decodes to a non-nil list.  An empty ONU or serial list is a nil
\* slice, saved as null, and null decodes to nil; a list of unused ids is never nil.
IsHit(k) == cache[k].in /\ (k = "empty" \/ cache[k].rows # {})

\* The leader looks at the cache; an error of Redis is a miss.
CacheCheck(j) ==
    /\ job[j].st = "check"
    /\ \/ /\ IsHit(j)
          /\ job' = [job EXCEPT ![j] = [st |-> IF j = "info" THEN "ttl" ELSE "done", ok |-> TRUE,
                                        ver |-> cache[j].ver, rows |-> cache[j].rows,
                                        live |-> FALSE]]
          /\ UNCHANGED fails
       \/ /\ ~IsHit(j)
          /\ job' = [job EXCEPT ![j].st = "walk"]
          /\ UNCHANGED fails
       \/ /\ Fail
          /\ job' = [job EXCEPT ![j].st = "walk"]
    /\ UNCHANGED <<onus, ver, cache, caller, clear, floor, cleared, newest, clears>>

\* After a hit, the remaining TTL of the ONU list decides whether a goroutine
\* refreshes it; the caller does not wait for that.
CheckTTL ==
    /\ job["info"].st = "ttl"
    /\ LET done == [job EXCEPT !["info"].st = "done"]
       IN  \/ /\ cache["info"].in /\ cache["info"].low
              /\ \E r \in Refreshers : /\ job[r].st = "none"
                                       /\ job' = [done EXCEPT ![r].st = "walk"]
              /\ UNCHANGED fails
           \/ /\ ~(cache["info"].in /\ cache["info"].low)
              /\ job' = done
              /\ UNCHANGED fails
           \/ Fail /\ job' = done
    /\ UNCHANGED <<onus, ver, cache, caller, clear, floor, cleared, newest, clears>>

\* The list a job makes of the ONU ids it walked and of those whose Gets failed: a
\* failed Get leaves a blank row in the ONU list and no row in the serial list;
\* the unused ids are those that were not walked.
Listing(j, walked, lost) ==
    IF KeyOf(j) = "empty" THEN Ids \ walked
    ELSE IF j = "serial" THEN walked \ lost
    ELSE walked

\* BulkWalk and the Gets for the ONUs it found.  A walk that fails fails the call;
\* a background refresh just ends.
Walk(j) ==
    /\ job[j].st = "walk"
    /\ \/ /\ job' = [job EXCEPT ![j] = [st |-> "save", ok |-> TRUE, ver |-> ver,
                                        rows |-> Listing(j, onus, {}), live |-> TRUE]]
          /\ UNCHANGED fails
       \/ /\ Fail
          /\ \E i \in onus :
                job' = [job EXCEPT ![j] = [st |-> "save", ok |-> TRUE, ver |-> ver,
                                           rows |-> Listing(j, onus, {i}), live |-> TRUE]]
       \/ /\ Fail
          /\ job' = [job EXCEPT ![j] = IF j \in Refreshers THEN NoJob
                                       ELSE [NoJob EXCEPT !.st = "done"]]
    /\ UNCHANGED <<onus, ver, cache, caller, clear, floor, cleared, newest, clears>>

\* The list goes to Redis with a full TTL.  A failure is logged for the ONU and
\* serial lists and is the result of the call for the unused ids, whose save also
\* fails when the leader has gone away (its context is the request's).
Save(j) ==
    /\ job[j].st = "save"
    /\ \E saved \in BOOLEAN :
          /\ IF saved
             THEN /\ cache' = [cache EXCEPT ![KeyOf(j)] = [in |-> TRUE, ver |-> job[j].ver,
                                                           rows |-> job[j].rows, low |-> FALSE]]
                  /\ newest' = [newest EXCEPT ![KeyOf(j)] = Max({@, job[j].ver})]
                  /\ UNCHANGED fails
             ELSE Fail /\ UNCHANGED <<cache, newest>>
          /\ job' = [job EXCEPT ![j] =
                       IF j \in Refreshers THEN NoJob
                       ELSE [@ EXCEPT !.st = "done", !.ok = (saved \/ KeyOf(j) # "empty")]]
    /\ UNCHANGED <<onus, ver, caller, clear, floor, cleared, clears>>

\* Mutant: the result goes to the leader alone.
MutReturned(j) == {c \in Callers : caller[c].st = "wait" /\ caller[c].job = j /\ caller[c].leads}

\* The callers that share the call.
Returned(j) == {c \in Callers : caller[c].st = "wait" /\ caller[c].job = j}

\* The call returns to everyone who shares it, and singleflight forgets it.
Return(j) ==
    /\ job[j].st = "done"
    /\ caller' = [c \in Callers |->
                    IF c \in Returned(j)
                    THEN [caller[c] EXCEPT !.st = "done", !.ok = job[j].ok, !.ver = job[j].ver,
                                           !.rows = job[j].rows, !.live = job[j].live]
                    ELSE caller[c]]
    /\ floor' = IF j = "update" /\ job[j].ok
                THEN [floor EXCEPT !["empty"] = Max({@} \cup {caller[c].asked : c \in Returned(j)})]
                ELSE floor
    /\ job' = [job EXCEPT ![j] = NoJob]
    /\ UNCHANGED <<onus, ver, cache, clear, cleared, newest, clears, fails>>

-----------------------------------------------------------------------------
\* DeleteCache or InvalidateONUCache begins.
ClearBegin(op) ==
    /\ clear.st = "idle"
    /\ clears < MaxClears
    /\ clears' = clears + 1
    /\ clear' = [st |-> "info", op |-> op, since |-> ver, sure |-> TRUE]
    /\ UNCHANGED <<onus, ver, cache, job, caller, floor, cleared, newest, fails>>

\* redisRepository.Delete
Deleted(k) == [cache EXCEPT ![k] = NoEntry]

\* Both operations delete the ONU list and then the serial list, and neither the
\* unused ids.  A failure of the first ends DeleteCache; all others are ignored.
ClearKey ==
    LET k == clear.st
        next(sure) == IF k = "info" THEN [clear EXCEPT !.st = "serial", !.sure = sure]
                      ELSE NoClear
        busy == \E j \in Jobs : job[j].st = "save" /\ KeyOf(j) = k
    IN  /\ k # "idle"
        /\ \/ /\ cache' = Deleted(k)
              /\ clear' = next(clear.sure)
              /\ cleared' = IF busy THEN cleared ELSE [cleared EXCEPT ![k] = ver]
              /\ floor' = IF k = "serial" /\ clear.sure
                          THEN [q \in Keys |-> IF q = "empty" THEN floor[q]
                                               ELSE Max({floor[q], clear.since})]
                          ELSE floor
              /\ UNCHANGED fails
           \/ /\ Fail
              /\ clear' = IF clear.op = "delete" THEN NoClear ELSE next(FALSE)
              /\ UNCHANGED <<cache, cleared, floor>>
        /\ UNCHANGED <<onus, ver, job, caller, newest, clears>>

-----------------------------------------------------------------------------
JobStep(j) ==
    \/ j \in Keys /\ CacheCheck(j)
    \/ j = "info" /\ CheckTTL
    \/ Walk(j) \/ Save(j)
    \/ j \in Flights /\ Return(j)

Next ==
    \/ \E i \in Ids : Provision(i)
    \/ \E k \in Keys : Age(k)
    \/ \E c \in Callers, j \in Calls, nocache \in BOOLEAN : Call(c, j, nocache)
    \/ \E j \in Jobs : JobStep(j)
    \/ \E op \in {"delete", "invalidate"} : ClearBegin(op)
    \/ ClearKey

Spec == Init /\ [][Next]_vars

\* SNMP exchanges and Redis commands end, by an answer or by a timeout, and the
\* goroutine that waited for them goes on.
FairSpec == Spec /\ \A j \in Jobs : WF_vars(JobStep(j))

-----------------------------------------------------------------------------
Versions == 0..MaxChanges

Entry  == [in : BOOLEAN, ver : Versions, rows : SUBSET Ids, low : BOOLEAN]
Work   == [st : {"none", "check", "ttl", "walk", "save", "done"}, ok : BOOLEAN,
           ver : Versions, rows : SUBSET Ids, live : BOOLEAN]
Asking == [st : {"idle", "wait", "done"}, job : Flights, nocache : BOOLEAN, leads : BOOLEAN,
           asked : Versions, floor : Versions,
           ok : BOOLEAN, ver : Versions, rows : SUBSET Ids, live : BOOLEAN]
Clearing == [st : {"idle", "info", "serial"}, op : {"delete", "invalidate"},
             since : Versions, sure : BOOLEAN]

\* The types of the state.
TypeOK ==
    /\ onus \subseteq Ids /\ ver \in Versions
    /\ cache \in [Keys -> Entry]
    /\ job \in [Jobs -> Work]
    /\ caller \in [Callers -> Asking]
    /\ clear \in Clearing
    /\ floor \in [Keys -> Versions] /\ cleared \in [Keys -> Versions]
    /\ newest \in [Keys -> Versions]
    /\ clears \in 0..MaxClears /\ fails \in 0..MaxFails

\* A caller that has its result.
Answered(c) == caller[c].st = "done" /\ caller[c].ok

\* Whoever leads a read of the serial list with nocache sees the OLT as it was after
\* the request, whatever is cached and whoever joins or clears meanwhile.
LedNoCacheIsLive ==
    \A c \in Callers : Answered(c) /\ caller[c].nocache /\ caller[c].leads
                           => caller[c].live /\ caller[c].ver >= caller[c].asked

\* That a PON has no ONUs is never concluded from the cache: the empty ONU list and
\* the empty serial list always come from a walk (a full PON may come from it).
EmptyIsLive ==
    \A c \in Callers : Answered(c) /\ caller[c].rows = {} /\ caller[c].job \in {"info", "serial"}
                           => caller[c].live

\* What is cached after a clear was walked after the clear, unless a finished walk
\* was still to be saved when its key was deleted.
ClearedStaysClear == \A k \in Keys : cache[k].in => cache[k].ver >= cleared[k]

\* Singleflight orders the saves of the serial list: the cached list is always the
\* newest one ever saved, with nocache reads, cached reads and clears interleaved.
SerialInOrder == cache["serial"].in => cache["serial"].ver = newest["serial"]

\* The inductive strengthening.  Nothing is newer than the population; what a walk
\* leaves to be saved is live, not older than the last clear of its key and, for the
\* serial list, than what was saved before it.
VersionsInv ==
    \A k \in Keys : cleared[k] <= ver /\ newest[k] <= ver
SaveInv ==
    \A j \in Jobs : job[j].st = "save" =>
        /\ job[j].live /\ job[j].ver <= ver /\ job[j].ver >= cleared[KeyOf(j)]
        /\ j = "serial" => job[j].ver >= newest["serial"]

\* An empty list that a call is about to return was walked.
EmptyInv ==
    \A j \in {"info", "serial"} :
        job[j].st \in {"ttl", "done"} /\ job[j].ok /\ job[j].rows = {} => job[j].live

\* The call that a nocache request leads walks, and walks after the request.
LeadInv ==
    LET w == job["serial"]
    IN  \A c \in Callers : caller[c].st = "wait" /\ caller[c].nocache /\ caller[c].leads =>
            /\ caller[c].job = "serial" /\ caller[c].asked <= ver
            /\ w.st \in {"walk", "save", "done"}
            /\ w.st = "save" => w.live /\ w.ver >= caller[c].asked
            /\ w.st = "done" /\ w.ok => w.live /\ w.ver >= caller[c].asked

CacheInv ==
    /\ TypeOK /\ VersionsInv /\ SaveInv /\ EmptyInv /\ LeadInv
    /\ LedNoCacheIsLive /\ EmptyIsLive /\ ClearedStaysClear /\ SerialInOrder

\* Every caller gets a result, whether it leads its call or joined it at any moment up
\* to the return, and also when the leader's exchanges fail.
CallReturns == \A c \in Callers : caller[c].st = "wait" ~> caller[c].st = "done"

-----------------------------------------------------------------------------
\* README.md: nocache reads live from SNMP, for checks that must see the real state.
NoCacheIsLive ==
    \A c \in Callers : Answered(c) /\ caller[c].nocache => caller[c].ver >= caller[c].asked

\* onu.go: a nocache read sees the OLT's real state, i.e. every ONU configured.  (For
\* a population that has not changed since.)
NoCacheIsComplete ==
    \A c \in Callers : Answered(c) /\ caller[c].nocache /\ caller[c].ver = ver
                           => caller[c].rows = onus

\* onu.go, handler/onu.go: after an invalidation the next read asks SNMP.
InvalidateIsSeen ==
    \A c \in Callers : Answered(c) /\ KeyOf(caller[c].job) # "empty"
                           => caller[c].ver >= caller[c].floor

\* openapi.yaml: the update forces a refresh of the unused ids, for later reads.
UpdateIsSeen ==
    \A c \in Callers : Answered(c) /\ caller[c].job = "empty" => caller[c].ver >= caller[c].floor

\* onu.go: singleflight prevents duplicate SNMP requests for the ONU list.
OneWalkPerList == Cardinality({j \in Jobs : KeyOf(j) = "info" /\ job[j].st = "walk"}) <= 1
=============================================================================
