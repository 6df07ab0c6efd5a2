--------------------------- MODULE OnuCacheProofs ---------------------------
(***************************************************************************)
(* The guarantees of the ONU caches of a PON, for any number of callers,   *)
(* background refreshes, clears, failures and changes of the population.   *)
(***************************************************************************)
EXTENDS OnuCache, WellFoundedInduction, TLAPS

\* A set of naturals that is not empty has a smallest element.
LEMMA LeastNatural ==
    ASSUME NEW T \in SUBSET Nat, T # {}
    PROVE  \E x \in T : \A y \in T : x <= y
<1>1. IsWellFoundedOn(OpToRel(<, Nat), Nat)
  BY NatLessThanWellFounded
<1>2. \A x, y \in Nat : x < y => <<x, y>> \in OpToRel(<, Nat)
  BY DEF OpToRel
<1>3. \E R : IsWellFoundedOn(R, Nat) /\ \A x, y \in Nat : x < y => <<x, y>> \in R
  BY <1>1, <1>2, Zenon
<1>4. PICK R : IsWellFoundedOn(R, Nat) /\ \A x, y \in Nat : x < y => <<x, y>> \in R
  BY <1>3
<1>5. T \subseteq Nat
  OBVIOUS
<1>6. IsWellFoundedOn(R, Nat)
  BY <1>4
<1>7. \E x \in T : \A y \in T : ~ (<<y, x>> \in R)
  BY <1>5, <1>6, WFMin, Zenon
<1>8. PICK x \in T : \A y \in T : ~ (<<y, x>> \in R)
  BY <1>7
<1>9. ASSUME NEW y \in T PROVE x <= y
  <2>1. ~ (y < x)
    BY <1>4, <1>8
  <2> QED
    BY <2>1
<1> QED
  BY <1>9

\* The maximum of a set of bounded naturals is its greatest element.
LEMMA MaxFacts ==
    ASSUME NEW N \in Nat, NEW T \in SUBSET (0..N), T # {}
    PROVE  Max(T) \in T /\ \A y \in T : Max(T) >= y
<1> DEFINE D == {N - x : x \in T}
<1>1. D \in SUBSET Nat /\ D # {}
  <2>1. \A x \in T : N - x \in Nat
    OBVIOUS
  <2> QED
    BY <2>1
<1> HIDE DEF D
<1>2. PICK d \in D : \A y \in D : d <= y
  BY <1>1, LeastNatural
<1>3. PICK x \in T : d = N - x
  BY <1>2 DEF D
<1>4. ASSUME NEW y \in T PROVE x >= y
  <2>1. N - y \in D
    BY DEF D
  <2>2. N - x <= N - y
    BY <1>2, <1>3, <2>1
  <2> QED
    BY <2>2
<1> QED
  BY <1>4 DEF Max

\* The constants: versions are numbers, and every job has a key, of which only the
\* job of the serial list has "serial".
LEMMA Constants ==
    /\ MaxChanges \in Nat /\ MaxClears \in Nat /\ MaxFails \in Nat
    /\ Versions = 0..MaxChanges /\ 0 \in Versions
    /\ Keys \subseteq Flights /\ Flights \subseteq Jobs /\ Refreshers \subseteq Jobs
    /\ \A j \in Jobs : KeyOf(j) \in Keys
    /\ \A j \in Jobs : KeyOf(j) = "serial" <=> j = "serial"
    /\ \A j \in Refreshers : j \notin Flights
<1>1. Refreshers \cap Flights = {}
  BY CacheAssumption
<1> QED
  BY <1>1, CacheAssumption DEF Versions, Keys, Flights, Jobs, KeyOf

\* The greater of two versions.
LEMMA MaxOfTwo ==
    ASSUME NEW a \in Versions, NEW b \in Versions
    PROVE  /\ Max({a, b}) \in {a, b} /\ Max({a, b}) \in Versions
           /\ Max({a, b}) >= a /\ Max({a, b}) >= b
<1>1. {a, b} \in SUBSET (0..MaxChanges) /\ {a, b} # {} /\ MaxChanges \in Nat
  BY Constants
<1>2. Max({a, b}) \in {a, b} /\ \A y \in {a, b} : Max({a, b}) >= y
  BY <1>1, MaxFacts
<1> QED
  BY <1>2

\* The values entries, jobs, callers and clears start with.
LEMMA StartValues ==
    /\ NoEntry \in Entry /\ NoJob \in Work /\ NotYet \in Asking /\ NoClear \in Clearing
    /\ ~NoEntry.in /\ NoJob.st = "none" /\ NotYet.st = "idle" /\ NoClear.st = "idle"
<1>1. 0 \in Versions
  BY Constants
<1> QED
  BY <1>1 DEF NoEntry, NoJob, NotYet, NoClear, Entry, Work, Asking, Clearing, Flights, Keys

\* Before the first call nothing is cached and nothing runs.
LEMMA CacheInit == Init => CacheInv
<1> SUFFICES ASSUME Init PROVE CacheInv
  OBVIOUS
<1>1. /\ onus \subseteq Ids /\ ver = 0 /\ clear = NoClear /\ clears = 0 /\ fails = 0
      /\ cache = [k \in Keys |-> NoEntry] /\ job = [j \in Jobs |-> NoJob]
      /\ caller = [c \in Callers |-> NotYet] /\ floor = [k \in Keys |-> 0]
      /\ cleared = [k \in Keys |-> 0] /\ newest = [k \in Keys |-> 0]
  BY DEF Init
<1>2. /\ \A k \in Keys : ~cache[k].in
      /\ \A j \in Jobs : job[j].st = "none"
      /\ \A c \in Callers : caller[c].st = "idle"
  BY <1>1, StartValues
<1>3. TypeOK
  BY <1>1, StartValues, Constants DEF TypeOK
<1>4. VersionsInv
  BY <1>1 DEF VersionsInv
<1>5. SaveInv /\ EmptyInv /\ LeadInv
  BY <1>2, Constants DEF SaveInv, EmptyInv, LeadInv, Flights, Keys
<1>6. LedNoCacheIsLive /\ EmptyIsLive
  BY <1>2 DEF LedNoCacheIsLive, EmptyIsLive, Answered
<1>7. ClearedStaysClear /\ SerialInOrder
  BY <1>2 DEF ClearedStaysClear, SerialInOrder, Keys
<1> QED
  BY <1>3, <1>4, <1>5, <1>6, <1>7 DEF CacheInv

\* A failure that is counted.
LEMMA FailCount ==
    ASSUME TypeOK, Fail \/ UNCHANGED fails
    PROVE  fails' \in 0..MaxFails
BY Constants DEF Fail, TypeOK

\* Steps that move jobs only.
LEMMA JobsMove ==
    ASSUME CacheInv, UNCHANGED <<onus, ver, cache, caller, clear, floor, cleared, newest, clears>>,
           Fail \/ UNCHANGED fails, job' \in [Jobs -> Work], SaveInv', EmptyInv', LeadInv'
    PROVE  CacheInv'
<1>1. TypeOK'
  BY FailCount DEF CacheInv, TypeOK
<1>2. VersionsInv' /\ LedNoCacheIsLive' /\ EmptyIsLive' /\ ClearedStaysClear' /\ SerialInOrder'
  BY DEF CacheInv, VersionsInv, LedNoCacheIsLive, EmptyIsLive, Answered, ClearedStaysClear,
         SerialInOrder
<1> QED
  BY <1>1, <1>2 DEF CacheInv

\* The population changes, and entries age.
LEMMA WorldKeeps ==
    ASSUME CacheInv,
           \/ \E i \in Ids : Provision(i)
           \/ \E k \in Keys : Age(k)
    PROVE  CacheInv'
<1>1. TypeOK /\ ver \in Nat
  BY Constants DEF CacheInv, TypeOK
<1>2. ASSUME NEW i \in Ids, Provision(i) PROVE CacheInv'
  <2>1. /\ ver' = ver + 1 /\ ver' \in Versions /\ onus' \subseteq Ids
        /\ UNCHANGED <<cache, job, caller, clear, floor, cleared, newest, clears, fails>>
    BY <1>1, <1>2, Constants DEF Provision, TypeOK
  <2>2. TypeOK'
    BY <1>1, <2>1 DEF TypeOK
  <2>3. /\ \A k \in Keys : cleared[k] \in Nat /\ newest[k] \in Nat
        /\ \A j \in Jobs : job[j].ver \in Nat
        /\ \A c \in Callers : caller[c].asked \in Nat
    BY <1>1, Constants DEF TypeOK, Work, Asking
  <2>4. VersionsInv' /\ SaveInv' /\ LeadInv'
    BY <1>1, <2>1, <2>3 DEF CacheInv, VersionsInv, SaveInv, LeadInv
  <2>5. EmptyInv' /\ LedNoCacheIsLive' /\ EmptyIsLive' /\ ClearedStaysClear' /\ SerialInOrder'
    BY <2>1 DEF CacheInv, EmptyInv, LedNoCacheIsLive, EmptyIsLive, Answered, ClearedStaysClear,
                SerialInOrder
  <2> QED
    BY <2>2, <2>4, <2>5 DEF CacheInv
<1>3. ASSUME NEW k \in Keys, Age(k) PROVE CacheInv'
  <2>1. UNCHANGED <<onus, ver, job, caller, clear, floor, cleared, newest, clears, fails>>
    BY <1>3 DEF Age
  <2>2. cache \in [Keys -> Entry] /\ NoEntry \in Entry /\ ~NoEntry.in
    BY <1>1, StartValues DEF TypeOK
  <2>3. PICK e \in {[cache[k] EXCEPT !.low = TRUE], NoEntry} : cache' = [cache EXCEPT ![k] = e]
    BY <1>3, <2>2 DEF Age
  <2>4. e \in Entry /\ (e.in => cache[k].in /\ e.ver = cache[k].ver)
    BY <1>3, <2>2, <2>3 DEF Entry, Age
  <2>5. /\ cache' \in [Keys -> Entry]
        /\ \A q \in Keys : cache'[q].in => cache[q].in /\ cache'[q].ver = cache[q].ver
    BY <2>2, <2>3, <2>4
  <2>6. TypeOK'
    BY <1>1, <2>1, <2>5 DEF TypeOK
  <2>7. ClearedStaysClear' /\ SerialInOrder'
    BY <2>1, <2>5 DEF CacheInv, ClearedStaysClear, SerialInOrder, Keys
  <2>8. /\ VersionsInv' /\ SaveInv' /\ EmptyInv' /\ LeadInv'
        /\ LedNoCacheIsLive' /\ EmptyIsLive'
    BY <2>1 DEF CacheInv, VersionsInv, SaveInv, EmptyInv, LeadInv, LedNoCacheIsLive,
                EmptyIsLive, Answered
  <2> QED
    BY <2>6, <2>7, <2>8 DEF CacheInv
<1> QED
  BY <1>2, <1>3

\* A request joins a call or starts one; only a leader decides how it begins.
LEMMA CallKeeps ==
    ASSUME CacheInv, NEW c \in Callers, NEW j \in Calls, NEW nocache \in BOOLEAN,
           Call(c, j, nocache)
    PROVE  CacheInv'
<1> DEFINE new == [NotYet EXCEPT !.st = "wait", !.job = j, !.nocache = nocache,
                      !.leads = (job[j].st = "none"), !.asked = ver, !.floor = floor[KeyOf(j)]]
           w   == [job[j] EXCEPT !.st = First(j, nocache)]
<1>1. /\ TypeOK /\ ver \in Nat /\ j \in Flights /\ j \in Jobs
      /\ job \in [Jobs -> Work] /\ caller \in [Callers -> Asking]
  BY CacheAssumption, Constants DEF CacheInv, TypeOK
<1>2. /\ UNCHANGED <<onus, ver, cache, clear, floor, cleared, newest, clears, fails>>
      /\ nocache => j = "serial"
  BY DEF Call
<1>3. new \in Asking /\ new.st = "wait"
  <2>1. floor[KeyOf(j)] \in Versions /\ ver \in Versions
    BY <1>1, Constants DEF TypeOK
  <2> QED
    BY <1>1, <2>1, StartValues DEF Asking
<1>4. /\ new.job = j /\ new.nocache = nocache /\ new.asked = ver
      /\ new.leads => job[j].st = "none"
  BY DEF NotYet
<1>5. w \in Work /\ w.st = First(j, nocache) /\ w.st \in {"check", "walk"}
  BY <1>1 DEF Work, First
<1>6. /\ caller' = [caller EXCEPT ![c] = new]
      /\ job' = IF job[j].st = "none" THEN [job EXCEPT ![j] = w] ELSE job
  BY <1>1 DEF Call
<1> HIDE DEF new, w
<1>7. /\ caller' \in [Callers -> Asking] /\ job' \in [Jobs -> Work]
      /\ \A d \in Callers : caller'[d] = IF d = c THEN new ELSE caller[d]
      /\ \A i \in Jobs : \/ job'[i] = job[i]
                         \/ i = j /\ job[i].st = "none" /\ job'[i] = w
      /\ job[j].st = "none" => job'[j] = w
  BY <1>1, <1>3, <1>5, <1>6
<1>8. TypeOK'
  BY <1>1, <1>2, <1>7 DEF TypeOK
<1>9. VersionsInv' /\ ClearedStaysClear' /\ SerialInOrder'
  BY <1>2 DEF CacheInv, VersionsInv, ClearedStaysClear, SerialInOrder
<1>10. SaveInv' /\ EmptyInv'
  BY <1>2, <1>5, <1>7, Constants DEF CacheInv, SaveInv, EmptyInv, Keys
<1>11. LedNoCacheIsLive' /\ EmptyIsLive'
  BY <1>3, <1>7 DEF CacheInv, LedNoCacheIsLive, EmptyIsLive, Answered
<1>12. LeadInv'
  <2> SUFFICES ASSUME NEW d \in Callers, caller'[d].st = "wait", caller'[d].nocache,
                      caller'[d].leads
               PROVE  LET v == job'["serial"]
                      IN  /\ caller'[d].job = "serial" /\ caller'[d].asked <= ver
                          /\ v.st \in {"walk", "save", "done"}
                          /\ v.st = "save" => v.live /\ v.ver >= caller'[d].asked
                          /\ v.st = "done" /\ v.ok => v.live /\ v.ver >= caller'[d].asked
    BY <1>2 DEF LeadInv
  <2>1. CASE d = c
    <3>1. j = "serial" /\ job'["serial"] = w
      BY <1>2, <1>4, <1>7, <2>1
    <3>2. w.st = "walk"
      BY <1>4, <1>5, <1>7, <2>1 DEF First
    <3> QED
      BY <1>1, <1>4, <1>7, <2>1, <3>1, <3>2
  <2>2. CASE d # c
    <3>1. job["serial"].st \in {"walk", "save", "done"}
      BY <1>7, <2>2 DEF CacheInv, LeadInv
    <3>2. job'["serial"] = job["serial"]
      BY <1>7, <3>1, Constants DEF Keys
    <3> QED
      BY <1>7, <2>2, <3>2 DEF CacheInv, LeadInv
  <2> QED
    BY <2>1, <2>2
<1> QED
  BY <1>8, <1>9, <1>10, <1>11, <1>12 DEF CacheInv

\* The leader looks at the cache: what it finds is not an empty ONU or serial list.
LEMMA CheckKeeps ==
    ASSUME CacheInv, NEW j \in Keys, CacheCheck(j)
    PROVE  CacheInv'
<1>1. /\ TypeOK /\ j \in Jobs /\ job[j].st = "check"
      /\ job \in [Jobs -> Work] /\ cache \in [Keys -> Entry]
      /\ UNCHANGED <<onus, ver, cache, caller, clear, floor, cleared, newest, clears>>
      /\ Fail \/ UNCHANGED fails
  BY Constants DEF CacheInv, TypeOK, CacheCheck
<1>2. PICK w \in Work :
         /\ job' = [job EXCEPT ![j] = w]
         /\ w.st \in {"walk", "ttl", "done"}
         /\ w.st \in {"ttl", "done"} => j = "empty" \/ w.rows # {}
  <2>1. CASE job' = [job EXCEPT ![j].st = "walk"]
    <3> DEFINE w == [job[j] EXCEPT !.st = "walk"]
    <3>1. w \in Work /\ w.st = "walk"
      BY <1>1 DEF Work
    <3>2. job' = [job EXCEPT ![j] = w]
      BY <1>1, <2>1
    <3> HIDE DEF w
    <3> QED
      BY <3>1, <3>2
  <2>2. CASE /\ IsHit(j)
             /\ job' = [job EXCEPT ![j] = [st |-> IF j = "info" THEN "ttl" ELSE "done", ok |-> TRUE,
                                           ver |-> cache[j].ver, rows |-> cache[j].rows,
                                           live |-> FALSE]]
    <3> DEFINE w == [st |-> IF j = "info" THEN "ttl" ELSE "done", ok |-> TRUE,
                     ver |-> cache[j].ver, rows |-> cache[j].rows, live |-> FALSE]
    <3>1. w \in Work
      BY <1>1 DEF Work, Entry
    <3>2. j = "empty" \/ w.rows # {}
      BY <2>2 DEF IsHit
    <3> QED
      BY <2>2, <3>1, <3>2
  <2> QED
    BY <2>1, <2>2 DEF CacheCheck
<1>3. job' \in [Jobs -> Work] /\ \A i \in Jobs : job'[i] = IF i = j THEN w ELSE job[i]
  BY <1>1, <1>2
<1>4. SaveInv'
  BY <1>1, <1>2, <1>3, Constants DEF CacheInv, SaveInv
<1>5. EmptyInv'
  BY <1>2, <1>3, Constants DEF CacheInv, EmptyInv, Keys
<1>6. LeadInv'
  BY <1>1, <1>3, Constants DEF CacheInv, LeadInv, Keys
<1> QED
  BY <1>1, <1>3, <1>4, <1>5, <1>6, JobsMove

\* The TTL decides about a background refresh; the list is returned either way.
LEMMA TTLKeeps ==
    ASSUME CacheInv, CheckTTL
    PROVE  CacheInv'
<1> DEFINE d == [job["info"] EXCEPT !.st = "done"]
<1>1. /\ TypeOK /\ "info" \in Jobs /\ job["info"].st = "ttl"
      /\ job \in [Jobs -> Work]
      /\ UNCHANGED <<onus, ver, cache, caller, clear, floor, cleared, newest, clears>>
      /\ Fail \/ UNCHANGED fails
  BY Constants DEF CacheInv, TypeOK, CheckTTL, Keys
<1>2. /\ d \in Work /\ d.st = "done" /\ d.ok = job["info"].ok /\ d.rows = job["info"].rows
      /\ d.live = job["info"].live
  BY <1>1 DEF Work
<1>3. /\ job' \in [Jobs -> Work] /\ job'["info"] = d
      /\ \A i \in Jobs \ {"info"} :
            \/ job'[i] = job[i]
            \/ i \in Refreshers /\ job'[i].st = "walk"
  <2> DEFINE done == [job EXCEPT !["info"].st = "done"]
  <2>1. done \in [Jobs -> Work] /\ \A i \in Jobs : done[i] = IF i = "info" THEN d ELSE job[i]
    BY <1>1, <1>2
  <2> HIDE DEF d, done
  <2>2. CASE job' = done
    BY <1>1, <2>1, <2>2
  <2>3. ASSUME NEW r \in Refreshers, job' = [done EXCEPT ![r].st = "walk"]
        PROVE  /\ job' \in [Jobs -> Work] /\ job'["info"] = d
               /\ \A i \in Jobs \ {"info"} :
                     \/ job'[i] = job[i]
                     \/ i \in Refreshers /\ job'[i].st = "walk"
    <3>1. r \in Jobs /\ r # "info" /\ done[r] \in Work
      BY <2>1, Constants DEF Keys
    <3>2. [done[r] EXCEPT !.st = "walk"] \in Work /\ [done[r] EXCEPT !.st = "walk"].st = "walk"
      BY <3>1 DEF Work
    <3>3. job' = [done EXCEPT ![r] = [done[r] EXCEPT !.st = "walk"]]
      BY <2>1, <2>3, <3>1
    <3> QED
      BY <1>1, <2>1, <3>1, <3>2, <3>3
  <2> QED
    BY <2>2, <2>3 DEF CheckTTL, done
<1> HIDE DEF d
<1>4. SaveInv'
  BY <1>1, <1>2, <1>3, Constants DEF CacheInv, SaveInv, Keys
<1>5. EmptyInv'
  BY <1>1, <1>2, <1>3, Constants DEF CacheInv, EmptyInv, Keys, Flights
<1>6. job'["serial"] = job["serial"]
  BY <1>3, Constants DEF Keys, Flights
<1>7. LeadInv'
  BY <1>1, <1>6 DEF CacheInv, LeadInv
<1> QED
  BY <1>1, <1>3, <1>4, <1>5, <1>7, JobsMove

\* A walk sees the population of its own moment.
LEMMA WalkKeeps ==
    ASSUME CacheInv, NEW j \in Jobs, Walk(j)
    PROVE  CacheInv'
<1>1. /\ TypeOK /\ job[j].st = "walk" /\ job \in [Jobs -> Work] /\ ver \in Versions /\ ver \in Nat
      /\ UNCHANGED <<onus, ver, cache, caller, clear, floor, cleared, newest, clears>>
      /\ Fail \/ UNCHANGED fails
  BY Constants DEF CacheInv, TypeOK, Walk
<1>2. PICK w \in Work :
         /\ job' = [job EXCEPT ![j] = w]
         /\ \/ w.st = "save" /\ w.live /\ w.ver = ver
            \/ w.st = "none" /\ j \in Refreshers
            \/ w.st = "done" /\ ~w.ok
  <2>1. ASSUME NEW lost \in SUBSET onus,
               job' = [job EXCEPT ![j] = [st |-> "save", ok |-> TRUE, ver |-> ver,
                                          rows |-> Listing(j, onus, lost), live |-> TRUE]]
        PROVE  \E w \in Work : /\ job' = [job EXCEPT ![j] = w]
                               /\ w.st = "save" /\ w.live /\ w.ver = ver
    <3> DEFINE w == [st |-> "save", ok |-> TRUE, ver |-> ver, rows |-> Listing(j, onus, lost),
                     live |-> TRUE]
    <3>1. Listing(j, onus, lost) \in SUBSET Ids
      BY <1>1 DEF TypeOK, Listing
    <3>2. w \in Work /\ w.st = "save" /\ w.live /\ w.ver = ver
      BY <1>1, <3>1 DEF Work
    <3> QED
      BY <2>1, <3>2
  <2>2. CASE job' = [job EXCEPT ![j] = IF j \in Refreshers THEN NoJob
                                       ELSE [NoJob EXCEPT !.st = "done"]]
    <3> DEFINE w == [NoJob EXCEPT !.st = "done"]
    <3>1. w \in Work /\ ~w.ok /\ w.st = "done"
      BY Constants DEF NoJob, Work
    <3> HIDE DEF w
    <3>2. CASE j \in Refreshers
      BY <2>2, <3>2, StartValues
    <3>3. CASE j \notin Refreshers
      BY <2>2, <3>1, <3>3 DEF w
    <3> QED
      BY <3>2, <3>3
  <2>3. \/ \E lost \in SUBSET onus :
              job' = [job EXCEPT ![j] = [st |-> "save", ok |-> TRUE, ver |-> ver,
                                         rows |-> Listing(j, onus, lost), live |-> TRUE]]
        \/ job' = [job EXCEPT ![j] = IF j \in Refreshers THEN NoJob
                                     ELSE [NoJob EXCEPT !.st = "done"]]
    <3>1. {} \in SUBSET onus /\ \A i \in onus : {i} \in SUBSET onus
      OBVIOUS
    <3> QED
      BY <3>1 DEF Walk
  <2> QED
    BY <2>1, <2>2, <2>3
<1>3. job' \in [Jobs -> Work] /\ \A i \in Jobs : job'[i] = IF i = j THEN w ELSE job[i]
  BY <1>1, <1>2
<1>4. SaveInv'
  <2>1. KeyOf(j) \in Keys /\ "serial" \in Keys
    BY Constants DEF Keys
  <2>2. cleared[KeyOf(j)] <= ver /\ newest["serial"] <= ver
    BY <2>1 DEF CacheInv, VersionsInv
  <2> QED
    BY <1>1, <1>2, <1>3, <2>2 DEF CacheInv, SaveInv
<1>5. EmptyInv'
  BY <1>2, <1>3, Constants DEF CacheInv, EmptyInv, Keys, Flights
<1>6. LeadInv'
  <2>1. CASE j = "serial"
    BY <1>1, <1>2, <1>3, <2>1, Constants DEF CacheInv, LeadInv, Keys, Flights
  <2>2. CASE j # "serial"
    BY <1>1, <1>3, <2>2, Constants DEF CacheInv, LeadInv, Keys, Flights
  <2> QED
    BY <2>1, <2>2
<1> QED
  BY <1>1, <1>3, <1>4, <1>5, <1>6, JobsMove

\* A list is saved, or not; a serial list is never older than the one saved before.
LEMMA SaveKeeps ==
    ASSUME CacheInv, NEW j \in Jobs, Save(j)
    PROVE  CacheInv'
<1> DEFINE k == KeyOf(j)
           e == [in |-> TRUE, ver |-> job[j].ver, rows |-> job[j].rows, low |-> FALSE]
           m == Max({newest[k], job[j].ver})
<1>1. /\ TypeOK /\ job[j].st = "save" /\ k \in Keys /\ (k = "serial" <=> j = "serial")
      /\ job \in [Jobs -> Work] /\ cache \in [Keys -> Entry] /\ newest \in [Keys -> Versions]
      /\ ver \in Nat /\ cleared \in [Keys -> Versions]
      /\ UNCHANGED <<onus, ver, caller, clear, floor, cleared, clears>>
  <2>1. k \in Keys /\ (k = "serial" <=> j = "serial")
    BY Constants
  <2>2. ver \in Versions /\ MaxChanges \in Nat
    BY Constants DEF CacheInv, TypeOK
  <2>3. UNCHANGED <<onus, ver, caller, clear, floor, cleared, clears>> /\ job[j].st = "save"
    BY DEF Save
  <2> HIDE DEF k
  <2> QED
    BY <2>1, <2>2, <2>3 DEF CacheInv, TypeOK, Versions
<1>2. /\ job[j] \in Work /\ job[j].ver \in Versions /\ job[j].live /\ job[j].ver <= ver
      /\ job[j].ver >= cleared[k] /\ (j = "serial" => job[j].ver >= newest["serial"])
  BY <1>1 DEF CacheInv, SaveInv, Work
<1>3. e \in Entry /\ e.in /\ e.ver = job[j].ver
  BY <1>2 DEF Entry, Work
<1>4. m \in Versions /\ m <= ver /\ (j = "serial" => m = job[j].ver)
  <2>1. newest[k] \in Versions /\ newest[k] <= ver
    BY <1>1 DEF CacheInv, VersionsInv
  <2>2. m \in {newest[k], job[j].ver} /\ m \in Versions /\ m >= newest[k] /\ m >= job[j].ver
    BY <1>2, <2>1, MaxOfTwo
  <2>3. newest[k] \in Nat /\ job[j].ver \in Nat
    BY <1>2, <2>1, Constants
  <2> QED
    BY <1>1, <1>2, <2>1, <2>2, <2>3
<1>5. PICK w \in Work :
         /\ job' = [job EXCEPT ![j] = w]
         /\ w.st \in {"none", "done"}
         /\ \/ w.live /\ w.ver = job[j].ver /\ w.st = "done"
            \/ w.st = "none" /\ j \in Refreshers
  <2>1. PICK saved \in BOOLEAN :
           job' = [job EXCEPT ![j] =
                     IF j \in Refreshers THEN NoJob
                     ELSE [@ EXCEPT !.st = "done", !.ok = (saved \/ KeyOf(j) # "empty")]]
    BY DEF Save
  <2> DEFINE w == [job[j] EXCEPT !.st = "done", !.ok = (saved \/ KeyOf(j) # "empty")]
  <2>2. w \in Work /\ w.st = "done" /\ w.live /\ w.ver = job[j].ver
    BY <1>2 DEF Work
  <2>3. job' = [job EXCEPT ![j] = IF j \in Refreshers THEN NoJob ELSE w]
    BY <1>1, <2>1
  <2> HIDE DEF w
  <2>4. CASE j \in Refreshers
    BY <2>3, <2>4, StartValues
  <2>5. CASE j \notin Refreshers
    BY <2>2, <2>3, <2>5
  <2> QED
    BY <2>4, <2>5
<1>6. job' \in [Jobs -> Work] /\ \A i \in Jobs : job'[i] = IF i = j THEN w ELSE job[i]
  BY <1>1, <1>5
<1> HIDE DEF e, m, k
<1>7. /\ cache' \in [Keys -> Entry] /\ newest' \in [Keys -> Versions]
      /\ \/ cache' = cache /\ newest' = newest
         \/ \A q \in Keys : /\ cache'[q] = IF q = k THEN e ELSE cache[q]
                            /\ newest'[q] = IF q = k THEN m ELSE newest[q]
  <2>1. CASE cache' = cache /\ newest' = newest
    BY <1>1, <2>1
  <2>2. CASE cache' = [cache EXCEPT ![k] = e] /\ newest' = [newest EXCEPT ![k] = m]
    BY <1>1, <1>3, <1>4, <2>2
  <2>3. \/ cache' = cache /\ newest' = newest
        \/ cache' = [cache EXCEPT ![k] = e] /\ newest' = [newest EXCEPT ![k] = m]
    BY <1>1 DEF Save, e, m, k
  <2> QED
    BY <2>1, <2>2, <2>3
<1>8. TypeOK'
  <2>1. Fail \/ UNCHANGED fails
    BY DEF Save
  <2> QED
    BY <1>1, <1>6, <1>7, <2>1, FailCount DEF TypeOK
<1>9. VersionsInv'
  BY <1>1, <1>4, <1>7 DEF CacheInv, VersionsInv
<1>10. SaveInv'
  <2> SUFFICES ASSUME NEW i \in Jobs, job'[i].st = "save"
               PROVE  /\ job'[i].live /\ job'[i].ver <= ver
                      /\ job'[i].ver >= cleared[KeyOf(i)]
                      /\ i = "serial" => job'[i].ver >= newest'["serial"]
    BY <1>1 DEF SaveInv
  <2>1. i # j /\ job'[i] = job[i]
    BY <1>5, <1>6
  <2>2. i = "serial" => newest'["serial"] = newest["serial"]
    BY <1>1, <1>7, <2>1 DEF Keys
  <2> QED
    BY <2>1, <2>2 DEF CacheInv, SaveInv
<1>11. EmptyInv'
  BY <1>5, <1>6, Constants DEF CacheInv, EmptyInv, Keys
<1>12. LeadInv'
  <2>1. CASE j = "serial"
    <3>1. w.live /\ w.ver = job["serial"].ver /\ w.st = "done" /\ job'["serial"] = w
      BY <1>5, <1>6, <2>1, Constants DEF Keys
    <3> QED
      BY <1>1, <2>1, <3>1 DEF CacheInv, LeadInv
  <2>2. CASE j # "serial"
    BY <1>1, <1>6, <2>2, Constants DEF CacheInv, LeadInv, Keys
  <2> QED
    BY <2>1, <2>2
<1>13. LedNoCacheIsLive' /\ EmptyIsLive'
  BY <1>1 DEF CacheInv, LedNoCacheIsLive, EmptyIsLive, Answered
<1>14. ClearedStaysClear'
  BY <1>1, <1>2, <1>3, <1>7 DEF CacheInv, ClearedStaysClear
<1>15. SerialInOrder'
  BY <1>1, <1>3, <1>4, <1>7 DEF CacheInv, SerialInOrder, Keys
<1> QED
  BY <1>8, <1>9, <1>10, <1>11, <1>12, <1>13, <1>14, <1>15 DEF CacheInv

\* The callers of a finished call get its result.
LEMMA ReturnKeeps ==
    ASSUME CacheInv, NEW j \in Flights, Return(j)
    PROVE  CacheInv'
<1>1. /\ TypeOK /\ j \in Jobs /\ job[j].st = "done" /\ job \in [Jobs -> Work]
      /\ caller \in [Callers -> Asking] /\ floor \in [Keys -> Versions]
      /\ UNCHANGED <<onus, ver, cache, clear, cleared, newest, clears, fails>>
  BY Constants DEF CacheInv, TypeOK, Return
<1>2. /\ job' \in [Jobs -> Work] /\ \A i \in Jobs : job'[i] = IF i = j THEN NoJob ELSE job[i]
  BY <1>1, StartValues DEF Return
<1> DEFINE got(c) == [caller[c] EXCEPT !.st = "done", !.ok = job[j].ok, !.ver = job[j].ver,
                                       !.rows = job[j].rows, !.live = job[j].live]
<1>3. \A c \in Callers : /\ got(c) \in Asking /\ got(c).st = "done" /\ got(c).ok = job[j].ok
                         /\ got(c).ver = job[j].ver /\ got(c).rows = job[j].rows
                         /\ got(c).live = job[j].live /\ got(c).job = caller[c].job
                         /\ got(c).nocache = caller[c].nocache /\ got(c).leads = caller[c].leads
                         /\ got(c).asked = caller[c].asked
  <2> SUFFICES ASSUME NEW c \in Callers
               PROVE  /\ got(c) \in Asking /\ got(c).st = "done" /\ got(c).ok = job[j].ok
                      /\ got(c).ver = job[j].ver /\ got(c).rows = job[j].rows
                      /\ got(c).live = job[j].live /\ got(c).job = caller[c].job
                      /\ got(c).nocache = caller[c].nocache /\ got(c).leads = caller[c].leads
                      /\ got(c).asked = caller[c].asked
    OBVIOUS
  <2>1. PICK w \in Work : w = job[j]
    BY <1>1
  <2>2. PICK a \in Asking : a = caller[c]
    BY <1>1
  <2> DEFINE g == [a EXCEPT !.st = "done", !.ok = w.ok, !.ver = w.ver, !.rows = w.rows,
                            !.live = w.live]
  <2>3. g \in Asking
    BY <2>1, <2>2 DEF Asking, Work
  <2>4. /\ g.st = "done" /\ g.ok = w.ok /\ g.ver = w.ver /\ g.rows = w.rows /\ g.live = w.live
        /\ g.job = a.job /\ g.nocache = a.nocache /\ g.leads = a.leads /\ g.asked = a.asked
    BY <2>2 DEF Asking
  <2>5. got(c) = g
    BY <2>1, <2>2
  <2> HIDE DEF g, got
  <2> QED
    BY <2>1, <2>2, <2>3, <2>4, <2>5
<1>4. caller' = [c \in Callers |-> IF c \in Returned(j) THEN got(c) ELSE caller[c]]
  BY DEF Return
<1> HIDE DEF got
<1>5. /\ caller' \in [Callers -> Asking]
      /\ \A c \in Callers :
            \/ caller'[c] = caller[c] /\ (caller[c].st = "wait" => caller[c].job # j)
            \/ caller'[c] = got(c) /\ caller[c].st = "wait" /\ caller[c].job = j
  BY <1>1, <1>3, <1>4 DEF Returned
<1>6. floor' \in [Keys -> Versions]
  <2> DEFINE T == {floor["empty"]} \cup {caller[c].asked : c \in Returned(j)}
  <2>1. T \in SUBSET (0..MaxChanges) /\ T # {}
    BY <1>1, Constants DEF Returned, Asking, Keys
  <2>2. Max(T) \in Versions
    BY <2>1, MaxFacts, Constants
  <2>3. floor' = [floor EXCEPT !["empty"] = Max(T)] \/ floor' = floor
    BY <1>1 DEF Return, Keys
  <2> HIDE DEF T
  <2> QED
    BY <1>1, <2>2, <2>3
<1>7. TypeOK'
  BY <1>1, <1>2, <1>5, <1>6 DEF TypeOK
<1>8. VersionsInv' /\ ClearedStaysClear' /\ SerialInOrder'
  BY <1>1 DEF CacheInv, VersionsInv, ClearedStaysClear, SerialInOrder
<1>9. SaveInv' /\ EmptyInv'
  BY <1>1, <1>2, StartValues, Constants DEF CacheInv, SaveInv, EmptyInv, Keys
<1>10. LeadInv'
  <2> SUFFICES ASSUME NEW c \in Callers, caller'[c].st = "wait", caller'[c].nocache,
                      caller'[c].leads
               PROVE  LET v == job'["serial"]
                      IN  /\ caller'[c].job = "serial" /\ caller'[c].asked <= ver
                          /\ v.st \in {"walk", "save", "done"}
                          /\ v.st = "save" => v.live /\ v.ver >= caller'[c].asked
                          /\ v.st = "done" /\ v.ok => v.live /\ v.ver >= caller'[c].asked
    BY <1>1 DEF LeadInv
  <2>1. caller'[c] = caller[c] /\ caller[c].job # j
    BY <1>3, <1>5
  <2>2. j # "serial"
    BY <2>1 DEF CacheInv, LeadInv
  <2>3. job'["serial"] = job["serial"]
    BY <1>2, <2>2, Constants DEF Keys
  <2> QED
    BY <2>1, <2>3 DEF CacheInv, LeadInv
<1>11. LedNoCacheIsLive'
  <2> SUFFICES ASSUME NEW c \in Callers, caller'[c].st = "done", caller'[c].ok,
                      caller'[c].nocache, caller'[c].leads
               PROVE  caller'[c].live /\ caller'[c].ver >= caller'[c].asked
    BY DEF LedNoCacheIsLive, Answered
  <2>1. CASE caller'[c] = caller[c]
    BY <2>1 DEF CacheInv, LedNoCacheIsLive, Answered
  <2>2. CASE caller'[c] = got(c) /\ caller[c].st = "wait" /\ caller[c].job = j
    <3>1. caller[c].nocache /\ caller[c].leads /\ job[j].ok
      BY <1>3, <2>2
    <3>2. j = "serial" /\ job[j].live /\ job[j].ver >= caller[c].asked
      BY <1>1, <2>2, <3>1 DEF CacheInv, LeadInv
    <3> QED
      BY <1>3, <2>2, <3>2
  <2> QED
    BY <1>5, <2>1, <2>2
<1>12. EmptyIsLive'
  <2> SUFFICES ASSUME NEW c \in Callers, caller'[c].st = "done", caller'[c].ok,
                      caller'[c].rows = {}, caller'[c].job \in {"info", "serial"}
               PROVE  caller'[c].live
    BY DEF EmptyIsLive, Answered
  <2>1. CASE caller'[c] = caller[c]
    BY <2>1 DEF CacheInv, EmptyIsLive, Answered
  <2>2. CASE caller'[c] = got(c) /\ caller[c].st = "wait" /\ caller[c].job = j
    <3>1. j \in {"info", "serial"} /\ job[j].ok /\ job[j].rows = {}
      BY <1>3, <2>2
    <3>2. job[j].live
      BY <1>1, <3>1 DEF CacheInv, EmptyInv
    <3> QED
      BY <1>3, <2>2, <3>2
  <2> QED
    BY <1>5, <2>1, <2>2
<1> QED
  BY <1>7, <1>8, <1>9, <1>10, <1>11, <1>12 DEF CacheInv

\* A clear: when no finished walk waits to be saved, everything saved from now on is
\* as new as the population is at the delete.
LEMMA ClearKeeps ==
    ASSUME CacheInv,
           ClearKey \/ \E op \in {"delete", "invalidate"} : ClearBegin(op)
    PROVE  CacheInv'
<1>1. TypeOK /\ ver \in Versions /\ ver \in Nat
  BY Constants DEF CacheInv, TypeOK
<1>2. ASSUME NEW op \in {"delete", "invalidate"}, ClearBegin(op) PROVE CacheInv'
  <2>1. /\ UNCHANGED <<onus, ver, cache, job, caller, floor, cleared, newest, fails>>
        /\ clears' \in 0..MaxClears
        /\ clear' = [st |-> "info", op |-> op, since |-> ver, sure |-> TRUE]
    BY <1>1, <1>2, Constants DEF ClearBegin, TypeOK
  <2>2. clear' \in Clearing
    BY <1>1, <2>1 DEF Clearing
  <2>3. TypeOK'
    BY <1>1, <2>1, <2>2 DEF TypeOK
  <2> QED
    BY <2>1, <2>3 DEF CacheInv, VersionsInv, SaveInv, EmptyInv, LeadInv, LedNoCacheIsLive,
                      EmptyIsLive, Answered, ClearedStaysClear, SerialInOrder
<1>3. CASE ClearKey
  <2> DEFINE k == clear.st
             next(sure) == IF k = "info" THEN [clear EXCEPT !.st = "serial", !.sure = sure]
                           ELSE NoClear
  <2>1. /\ k \in Keys /\ clear \in Clearing /\ clear.since \in Versions /\ clear.sure \in BOOLEAN
        /\ UNCHANGED <<onus, ver, job, caller, newest, clears>>
        /\ Fail \/ UNCHANGED fails
        /\ cache \in [Keys -> Entry] /\ cleared \in [Keys -> Versions] /\ floor \in [Keys -> Versions]
    BY <1>1, <1>3 DEF ClearKey, TypeOK, Clearing, Keys
  <2>2. \A sure \in BOOLEAN : next(sure) \in Clearing
    BY <2>1, StartValues DEF Clearing
  <2>3. clear' \in {next(TRUE), next(FALSE), NoClear}
    BY <1>3, <2>1 DEF ClearKey
  <2>4. clear' \in Clearing
    BY <2>2, <2>3, StartValues
  <2>5. floor' \in [Keys -> Versions]
    <3>1. \A q \in Keys : Max({floor[q], clear.since}) \in Versions
      BY <2>1, MaxOfTwo
    <3> DEFINE g == [q \in Keys |-> IF q = "empty" THEN floor[q]
                                    ELSE Max({floor[q], clear.since})]
    <3>2. g \in [Keys -> Versions]
      BY <2>1, <3>1
    <3>3. floor' = g \/ floor' = floor
      BY <1>3 DEF ClearKey
    <3> HIDE DEF g
    <3> QED
      BY <2>1, <3>2, <3>3
  <2> DEFINE busy == \E j \in Jobs : job[j].st = "save" /\ KeyOf(j) = k
  <2>6. /\ cache' \in [Keys -> Entry] /\ cleared' \in [Keys -> Versions]
        /\ \A q \in Keys : \/ cache'[q] = cache[q] /\ cleared'[q] = cleared[q]
                           \/ ~cache'[q].in /\ cleared'[q] = cleared[q]
                           \/ q = k /\ ~busy /\ ~cache'[q].in /\ cleared'[q] = ver
    <3>1. CASE cache' = cache /\ cleared' = cleared
      BY <2>1, <3>1
    <3>2. CASE /\ cache' = [cache EXCEPT ![k] = NoEntry]
               /\ cleared' = IF busy THEN cleared ELSE [cleared EXCEPT ![k] = ver]
      BY <1>1, <2>1, <3>2, StartValues
    <3>3. \/ cache' = cache /\ cleared' = cleared
          \/ /\ cache' = [cache EXCEPT ![k] = NoEntry]
             /\ cleared' = IF busy THEN cleared ELSE [cleared EXCEPT ![k] = ver]
      BY <1>3 DEF ClearKey, Deleted
    <3> QED
      BY <3>1, <3>2, <3>3
  <2>7. TypeOK'
    BY <1>1, <2>1, <2>4, <2>5, <2>6, FailCount DEF TypeOK
  <2>8. VersionsInv'
    BY <1>1, <2>1, <2>6 DEF CacheInv, VersionsInv
  <2>9. SaveInv'
    <3> SUFFICES ASSUME NEW j \in Jobs, job[j].st = "save"
                 PROVE  job[j].ver >= cleared'[KeyOf(j)]
      BY <2>1 DEF CacheInv, SaveInv
    <3>1. KeyOf(j) \in Keys /\ job[j].ver >= cleared[KeyOf(j)]
      BY Constants DEF CacheInv, SaveInv
    <3>2. cleared'[KeyOf(j)] = cleared[KeyOf(j)]
      BY <2>6, <3>1
    <3> QED
      BY <3>1, <3>2
  <2>10. ClearedStaysClear' /\ SerialInOrder'
    BY <2>1, <2>6 DEF CacheInv, ClearedStaysClear, SerialInOrder, Keys
  <2>11. EmptyInv' /\ LeadInv' /\ LedNoCacheIsLive' /\ EmptyIsLive'
    BY <2>1 DEF CacheInv, EmptyInv, LeadInv, LedNoCacheIsLive, EmptyIsLive, Answered
  <2> QED
    BY <2>7, <2>8, <2>9, <2>10, <2>11 DEF CacheInv
<1> QED
  BY <1>2, <1>3

\* The invariant of the caches, for every interleaving of callers, refreshes, clears,
\* failures and changes of the population.
THEOREM CacheInvariant == Spec => []CacheInv
<1>1. CacheInv /\ [Next]_vars => CacheInv'
  <2> SUFFICES ASSUME CacheInv, [Next]_vars PROVE CacheInv'
    OBVIOUS
  <2>1. CASE UNCHANGED vars
    BY <2>1 DEF vars, CacheInv, TypeOK, VersionsInv, SaveInv, EmptyInv, LeadInv,
                LedNoCacheIsLive, EmptyIsLive, Answered, ClearedStaysClear, SerialInOrder
  <2>2. ASSUME NEW j \in Jobs, JobStep(j) PROVE CacheInv'
    BY <2>2, CheckKeeps, TTLKeeps, WalkKeeps, SaveKeeps, ReturnKeeps DEF JobStep
  <2> QED
    BY <2>1, <2>2, WorldKeeps, CallKeeps, ClearKeeps DEF Next
<1> QED
  BY <1>1, CacheInit, PTL DEF Spec

\* Type correctness of the caches.
THEOREM CacheTypeCorrect == Spec => []TypeOK
<1>1. CacheInv => TypeOK
  BY DEF CacheInv
<1> QED
  BY <1>1, CacheInvariant, PTL

\* Whoever leads a nocache read gets a list that was walked after the request.
THEOREM CacheLedNoCacheIsLive == Spec => []LedNoCacheIsLive
<1>1. CacheInv => LedNoCacheIsLive
  BY DEF CacheInv
<1> QED
  BY <1>1, CacheInvariant, PTL

\* That a PON has no ONUs is never concluded from the cache.
THEOREM CacheEmptyIsLive == Spec => []EmptyIsLive
<1>1. CacheInv => EmptyIsLive
  BY DEF CacheInv
<1> QED
  BY <1>1, CacheInvariant, PTL

\* What is cached after a clear was walked after the clear, unless a finished walk was
\* still to be saved when the key was deleted.
THEOREM CacheClearedStaysClear == Spec => []ClearedStaysClear
<1>1. CacheInv => ClearedStaysClear
  BY DEF CacheInv
<1> QED
  BY <1>1, CacheInvariant, PTL

\* The cached serial list is always the newest one ever saved.
THEOREM CacheSerialInOrder == Spec => []SerialInOrder
<1>1. CacheInv => SerialInOrder
  BY DEF CacheInv
<1> QED
  BY <1>1, CacheInvariant, PTL
================================================================================
