-------------------------- MODULE OltRegistryProofs --------------------------
(***************************************************************************)
(* The guarantees of the OLT registry, for every set of OLTs and every     *)
(* number of rebuilds, edits and sweeps of workers, and of the requests    *)
(* that work on its entries without the lock, for any number of them.      *)
(***************************************************************************)
EXTENDS OltRequests, TLAPS

\* A list of OLTs names known ids and gives each a configuration.
LEMMA ListFacts ==
    ASSUME NEW l \in OltLists
    PROVE  /\ DOMAIN l \subseteq Ids
           /\ \A id \in DOMAIN l : l[id] \in Config
BY DEF OltLists

\* NewOLTRegistry starts with an empty map.
LEMMA EmptyList == NoOlts \in OltLists /\ DOMAIN NoOlts = {}
<1>1. DOMAIN NoOlts = {}
  BY DEF NoOlts
<1>2. NoOlts \in [{} -> Config]
  BY DEF NoOlts
<1>3. {} \in SUBSET Ids
  OBVIOUS
<1> QED
  BY <1>1, <1>2, <1>3 DEF OltLists

\* The invariant holds before the first Reconcile: nothing is built yet.
LEMMA RegistryInit == Init => RegistryInv
<1> SUFFICES ASSUME Init PROVE RegistryInv
  OBVIOUS
<1>1. DOMAIN entries = {} /\ Mapped = {}
  BY EmptyList DEF Init, Mapped
<1>2. TypeOK
  BY <1>1, EmptyList, RegistryAssumption DEF Init, TypeOK
<1>3. WorkerPoolOpen /\ MappedUsable /\ NoPoolLost
  BY <1>1 DEF Init, WorkerPoolOpen, MappedUsable, NoPoolLost
<1>4. StackInv
  BY <1>1 DEF Init, StackInv
<1> QED
  BY <1>2, <1>3, <1>4 DEF RegistryInv

\* The number of a stack and the count of stacks built are numbers.
LEMMA GenFacts ==
    ASSUME TypeOK
    PROVE  /\ MaxGen \in Nat
           /\ \A id \in Ids : gen[id] \in Nat /\ gen[id] <= MaxGen
           /\ \A s \in Stack : s[1] \in Ids /\ s[2] \in Nat /\ s[2] >= 1
<1>1. MaxGen \in Nat
  BY RegistryAssumption
<1>2. \A id \in Ids : gen[id] \in 0..MaxGen
  BY DEF TypeOK
<1>3. \A s \in Stack : s[1] \in Ids /\ s[2] \in 1..MaxGen
  BY DEF Stack
<1> QED
  BY <1>1, <1>2, <1>3

\* An entry's lifecycle is the one made with its stack: what retireEntry does to a set
\* of entries, said of their stacks.
LEMMA RetireFacts ==
    ASSUME StackInv, NEW D \in SUBSET DOMAIN entries, NEW p
    PROVE  LET E == {entries[id] : id \in D}
               R == {entries[id].stack : id \in D}
           IN  /\ RetirePool(E, p)
                     = [s \in Stack |-> IF s \in R /\ active[s] = 0 THEN "closed" ELSE p[s]]
               /\ RetireReapers(E) = reapers \cup {s \in R : active[s] > 0}
               /\ {e.lc : e \in E} = R
<1> DEFINE E == {entries[id] : id \in D}
           R == {entries[id].stack : id \in D}
<1>1. \A id \in D : entries[id].lc = entries[id].stack
  BY DEF StackInv
<1>2. \A e \in E : e.lc = e.stack /\ e.stack \in R
  BY <1>1
<1>3. \A s \in R : \E e \in E : e.stack = s /\ e.lc = s
  BY <1>1
<1>4. \A s : (\E e \in E : e.stack = s /\ active[e.lc] = 0) <=> s \in R /\ active[s] = 0
  <2> HIDE DEF E, R
  <2> QED
    BY <1>2, <1>3
<1>5. {e.stack : e \in {x \in E : active[x.lc] > 0}} = {s \in R : active[s] > 0}
  <2> HIDE DEF E, R
  <2> QED
    BY <1>2, <1>3
<1>6. {e.lc : e \in E} = R
  <2> HIDE DEF E, R
  <2> QED
    BY <1>2, <1>3
<1> HIDE DEF E, R
<1>7. RetirePool(E, p) = [s \in Stack |-> IF s \in R /\ active[s] = 0 THEN "closed" ELSE p[s]]
  BY <1>4 DEF RetirePool
<1> QED
  BY <1>5, <1>6, <1>7 DEF RetireReapers, E, R

\* Reconcile, whichever connections fail: what it maps is open and fresh or kept,
\* what it takes out is closed or has a goroutine waiting to close it.
LEMMA ReconcileStep ==
    ASSUME RegistryInv, NEW list \in OltLists, NEW F, Reconcile(list, F)
    PROVE  /\ DOMAIN entries' \subseteq Ids
           /\ \A id \in DOMAIN entries' : entries'[id] \in Entry
           /\ gen' \in [Ids -> 0..MaxGen]
           /\ pool' \in [Stack -> {"none", "open", "closed"}]
           /\ retired' \subseteq Stack
           /\ reapers' \subseteq Stack
           /\ active' = active /\ exiting' = exiting
           /\ applied' \in OltLists
           /\ failed' \subseteq Ids
           /\ WorkerPoolOpen' /\ MappedUsable' /\ NoPoolLost' /\ StackInv'
<1> DEFINE gone    == DOMAIN entries \ DOMAIN list
           changed == {id \in DOMAIN entries \cap DOMAIN list :
                          oltChangeKey(entries[id].cfg) # oltChangeKey(list[id])}
           added   == DOMAIN list \ DOMAIN entries
           build   == (changed \cup added) \ F
           fresh   == {<<id, gen[id] + 1>> : id \in build}
           E       == {entries[id] : id \in gone \cup changed}
           R       == {entries[id].stack : id \in gone \cup changed}
           kept    == (DOMAIN list \ F) \ build
<1>1. /\ DOMAIN list \subseteq Ids
      /\ \A id \in DOMAIN list : list[id] \in Config
  BY ListFacts
<1>2. /\ F \subseteq changed \cup added
      /\ \A id \in build : gen[id] < MaxGen
      /\ entries' = [id \in DOMAIN list \ F |-> NextEntry(id, list[id], build)]
      /\ gen' = [id \in Ids |-> IF id \in build THEN gen[id] + 1 ELSE gen[id]]
      /\ pool' = [s \in Stack |-> IF s \in fresh THEN "open" ELSE RetirePool(E, pool)[s]]
      /\ retired' = retired \cup {e.lc : e \in E}
      /\ reapers' = RetireReapers(E)
      /\ applied' = list
      /\ failed' = F
      /\ active' = active /\ exiting' = exiting
  BY DEF Reconcile, Fresh
<1>r. /\ RetirePool(E, pool)
            = [s \in Stack |-> IF s \in R /\ active[s] = 0 THEN "closed" ELSE pool[s]]
      /\ retired' = retired \cup R
      /\ reapers' = reapers \cup {s \in R : active[s] > 0}
  <2>1. gone \cup changed \in SUBSET DOMAIN entries
    OBVIOUS
  <2> QED
    BY <1>2, <2>1, RetireFacts DEF RegistryInv
<1> HIDE DEF fresh, E, R
<1>3. build \subseteq Ids /\ kept \subseteq DOMAIN entries /\ kept \subseteq DOMAIN list
  BY <1>1, <1>2
<1>4. /\ DOMAIN entries \subseteq Ids
      /\ \A id \in DOMAIN entries : entries[id] \in Entry /\ entries[id].stack \in Stack
      /\ \A id \in DOMAIN entries : entries[id].stack[1] = id
      /\ \A id \in DOMAIN entries : entries[id].lc = entries[id].stack
      /\ \A id \in DOMAIN entries : entries[id].stack \in Mapped
  BY DEF RegistryInv, TypeOK, StackInv, Entry, Mapped
<1>g. /\ MaxGen \in Nat
      /\ \A id \in Ids : gen[id] \in Nat /\ gen[id] <= MaxGen
      /\ \A s \in Stack : s[1] \in Ids /\ s[2] \in Nat /\ s[2] >= 1
  BY GenFacts DEF RegistryInv
<1>5. \A id \in build : <<id, gen[id] + 1>> \in Stack
  <2> SUFFICES ASSUME NEW id \in build PROVE <<id, gen[id] + 1>> \in Stack
    OBVIOUS
  <2>1. id \in Ids /\ gen[id] \in Nat /\ gen[id] < MaxGen
    BY <1>2, <1>3, <1>g
  <2>2. gen[id] + 1 \in 1..MaxGen
    BY <2>1, <1>g
  <2> QED
    BY <2>1, <2>2 DEF Stack
<1>6. fresh \subseteq Stack /\ R \subseteq Mapped /\ R \subseteq Stack
  BY <1>4, <1>5 DEF fresh, R
<1>7. \A s \in fresh : /\ pool[s] = "none" /\ active[s] = 0 /\ s \notin retired
                       /\ s \notin Mapped /\ s \notin R /\ s \notin reapers
                       /\ s[1] \in build /\ s[2] = gen[s[1]] + 1
  <2> SUFFICES ASSUME NEW id \in build
               PROVE  LET s == <<id, gen[id] + 1>>
                      IN  /\ pool[s] = "none" /\ active[s] = 0 /\ s \notin retired
                          /\ s \notin Mapped /\ s \notin R /\ s \notin reapers
                          /\ s[1] \in build /\ s[2] = gen[s[1]] + 1
    BY DEF fresh
  <2>1. gen[id] \in Nat
    BY <1>3, <1>g
  <2> DEFINE s == <<id, gen[id] + 1>>
  <2>2. s \in Stack /\ s[1] = id /\ s[2] = gen[id] + 1
    BY <1>5
  <2>3. pool[s] = "none"
    BY <2>1, <2>2 DEF RegistryInv, StackInv
  <2> QED
    BY <1>6, <2>2, <2>3 DEF RegistryInv, StackInv, MappedUsable
<1>8. \A id \in kept : /\ entries'[id].stack = entries[id].stack
                       /\ entries'[id].lc = entries[id].stack
                       /\ entries[id].stack \notin R
  <2> SUFFICES ASSUME NEW id \in kept
               PROVE  /\ entries'[id].stack = entries[id].stack
                      /\ entries'[id].lc = entries[id].stack
                      /\ entries[id].stack \notin R
    OBVIOUS
  <2>1. entries'[id].stack = entries[id].stack /\ entries'[id].lc = entries[id].stack
    BY <1>2, <1>3, <1>4 DEF NextEntry
  <2>2. id \notin gone /\ id \notin changed
    BY <1>2, <1>3
  <2>3. \A j \in gone \cup changed : entries[j].stack # entries[id].stack
    BY <1>3, <1>4, <2>2
  <2> QED
    BY <2>1, <2>3 DEF R
<1>9. DOMAIN entries' = build \cup kept
  BY <1>2
<1>10. \A id \in build : /\ entries'[id].stack = <<id, gen[id] + 1>>
                         /\ entries'[id].lc = <<id, gen[id] + 1>>
  BY <1>2, <1>9 DEF NextEntry, Fresh
<1>11. \A s : s \in Mapped' <=> s \in fresh \/ \E id \in kept : s = entries[id].stack
  BY <1>8, <1>9, <1>10 DEF Mapped, fresh
<1>12. /\ DOMAIN entries' \subseteq Ids
       /\ \A id \in DOMAIN entries' : entries'[id] \in Entry
  BY <1>1, <1>2, <1>3, <1>4, <1>5 DEF NextEntry, Fresh, Entry
<1>13. gen' \in [Ids -> 0..MaxGen]
  BY <1>2, RegistryAssumption DEF RegistryInv, TypeOK
<1>14. \A s \in Stack :
          pool'[s] = IF s \in fresh THEN "open"
                     ELSE IF s \in R /\ active[s] = 0 THEN "closed" ELSE pool[s]
  BY <1>2, <1>r
<1>15. pool' \in [Stack -> {"none", "open", "closed"}]
  BY <1>2, <1>14 DEF RegistryInv, TypeOK
<1>16. /\ retired' \subseteq Stack
       /\ reapers' = reapers \cup {s \in R : active[s] > 0}
       /\ reapers' \subseteq Stack
  BY <1>6, <1>r DEF RegistryInv, TypeOK
<1>17. active \in [Stack -> Nat]
  BY DEF RegistryInv, TypeOK
<1>18. WorkerPoolOpen'
  BY <1>2, <1>7, <1>14, <1>17 DEF RegistryInv, WorkerPoolOpen
<1>19. MappedUsable'
  <2> SUFFICES ASSUME NEW s \in Mapped'
               PROVE  pool'[s] = "open" /\ s \notin retired'
    BY DEF MappedUsable
  <2>1. CASE s \in fresh
    BY <1>2, <1>r, <1>6, <1>7, <1>14, <2>1
  <2>2. ASSUME NEW id \in kept, s = entries[id].stack
        PROVE  pool'[s] = "open" /\ s \notin retired'
    <3>1. s \in Stack /\ s \in Mapped /\ s \notin R
      BY <1>3, <1>4, <1>8, <2>2
    <3> QED
      BY <1>r, <1>14, <3>1 DEF RegistryInv, MappedUsable
  <2> QED
    BY <1>11, <2>1, <2>2
<1>20. NoPoolLost'
  <2> SUFFICES ASSUME NEW s \in Stack, pool'[s] = "open", s \notin fresh, s \notin reapers'
               PROVE  s \in Mapped'
    BY <1>11 DEF NoPoolLost
  <2>1. pool[s] = "open" /\ s \notin R
    BY <1>14, <1>16, <1>17
  <2>2. s \in Mapped
    BY <1>16, <2>1 DEF RegistryInv, NoPoolLost
  <2>3. PICK id \in DOMAIN entries : s = entries[id].stack
    BY <2>2 DEF Mapped
  <2>4. id \in kept
    BY <1>2, <2>1, <2>3 DEF R
  <2> QED
    BY <1>11, <2>3, <2>4
<1>21. StackInv'
  <2>1. \A id \in DOMAIN entries' : entries'[id].stack[1] = id
    BY <1>3, <1>4, <1>8, <1>9, <1>10
  <2>l. \A id \in DOMAIN entries' : entries'[id].lc = entries'[id].stack
    BY <1>8, <1>9, <1>10
  <2>2. \A s \in Stack : s[1] \in Ids /\ s[2] \in Nat /\ gen[s[1]] \in Nat
    BY <1>g
  <2>3. \A s \in Stack : s[2] > gen'[s[1]] => pool'[s] = "none"
    <3> SUFFICES ASSUME NEW s \in Stack, s[2] > gen'[s[1]]
                 PROVE  pool'[s] = "none"
      OBVIOUS
    <3>1. s[2] > gen[s[1]] /\ s \notin fresh
      BY <1>2, <1>7, <2>2
    <3>2. pool[s] = "none"
      BY <3>1 DEF RegistryInv, StackInv
    <3>3. s \notin R
      BY <1>6, <3>2 DEF RegistryInv, MappedUsable
    <3> QED
      BY <1>14, <3>1, <3>2, <3>3
  <2>4. \A s \in Mapped' : s[2] = gen'[s[1]]
    <3> SUFFICES ASSUME NEW s \in Mapped' PROVE s[2] = gen'[s[1]]
      OBVIOUS
    <3>1. CASE s \in fresh
      BY <1>2, <1>6, <1>7, <2>2, <3>1
    <3>2. ASSUME NEW id \in kept, s = entries[id].stack PROVE s[2] = gen'[s[1]]
      <4>1. s \in Stack /\ s \in Mapped
        BY <1>3, <1>4, <3>2
      <4>2. s[2] = gen[s[1]] /\ s[1] = id /\ id \notin build
        BY <1>3, <1>4, <3>2, <4>1 DEF RegistryInv, StackInv
      <4> QED
        BY <1>2, <2>2, <4>1, <4>2
    <3> QED
      BY <1>11, <3>1, <3>2
  <2>5. \A s \in Stack : pool'[s] = "none" => active'[s] = 0 /\ s \notin retired'
    <3> SUFFICES ASSUME NEW s \in Stack, pool'[s] = "none"
                 PROVE  active'[s] = 0 /\ s \notin retired'
      OBVIOUS
    <3>1. pool[s] = "none" /\ s \notin fresh
      BY <1>14
    <3>2. s \notin R
      BY <1>6, <3>1 DEF RegistryInv, MappedUsable
    <3> QED
      BY <1>2, <1>r, <3>1, <3>2 DEF RegistryInv, StackInv
  <2>6. reapers' \subseteq retired'
    BY <1>r, <1>16 DEF RegistryInv, StackInv
  <2>7. \A s \in reapers' : pool'[s] = "open"
    BY <1>6, <1>7, <1>14, <1>16, <1>17 DEF RegistryInv, StackInv, MappedUsable, TypeOK
  <2> QED
    BY <2>1, <2>l, <2>3, <2>4, <2>5, <2>6, <2>7 DEF StackInv
<1> QED
  BY <1>1, <1>2, <1>12, <1>13, <1>15, <1>16, <1>18, <1>19, <1>20, <1>21

\* Close retires every entry, with workers still running on some of them.
LEMMA CloseStep ==
    ASSUME RegistryInv, CloseRegistry
    PROVE  RegistryInv'
<1>1. /\ DOMAIN entries' = {} /\ Mapped' = {} /\ entries' = NoOlts
      /\ NoOlts \in OltLists
  BY EmptyList DEF CloseRegistry, Mapped
<1>2. Mapped \subseteq Stack
  BY DEF RegistryInv, TypeOK, Mapped, Entry
<1>3. active \in [Stack -> Nat]
  BY DEF RegistryInv, TypeOK
<1>r. /\ pool' = [s \in Stack |-> IF s \in Mapped /\ active[s] = 0 THEN "closed" ELSE pool[s]]
      /\ retired' = retired \cup Mapped
      /\ reapers' = reapers \cup {s \in Mapped : active[s] > 0}
  <2>1. DOMAIN entries \in SUBSET DOMAIN entries
    OBVIOUS
  <2> QED
    BY <2>1, RetireFacts DEF CloseRegistry, RegistryInv, Mapped
<1>4. \A s \in Stack : pool'[s] = IF s \in Mapped /\ active[s] = 0 THEN "closed" ELSE pool[s]
  BY <1>r
<1>5. /\ reapers' = reapers \cup {s \in Mapped : active[s] > 0}
      /\ retired' = retired \cup Mapped
      /\ active' = active /\ exiting' = exiting /\ gen' = gen
  BY <1>r DEF CloseRegistry
<1>6. TypeOK'
  <2>1. pool' \in [Stack -> {"none", "open", "closed"}]
    BY <1>r DEF RegistryInv, TypeOK
  <2>2. reapers' \subseteq Stack /\ retired' \subseteq Stack
    BY <1>2, <1>5 DEF RegistryInv, TypeOK
  <2> QED
    BY <1>1, <1>5, <2>1, <2>2 DEF CloseRegistry, RegistryInv, TypeOK
<1>7. WorkerPoolOpen'
  BY <1>3, <1>4, <1>5 DEF RegistryInv, WorkerPoolOpen
<1>8. MappedUsable'
  BY <1>1 DEF MappedUsable
<1>9. NoPoolLost'
  BY <1>3, <1>4, <1>5 DEF RegistryInv, NoPoolLost
<1>10. StackInv'
  <2>1. reapers \subseteq Stack /\ reapers \cap Mapped = {}
    BY DEF RegistryInv, TypeOK, StackInv, MappedUsable
  <2>2. \A s \in Mapped : pool[s] = "open"
    BY DEF RegistryInv, MappedUsable
  <2>3. \A s \in reapers' : pool'[s] = "open"
    BY <1>2, <1>3, <1>4, <1>5, <2>1, <2>2 DEF RegistryInv, StackInv
  <2>4. \A s \in Stack : pool'[s] = "none" => pool[s] = "none" /\ s \notin Mapped
    BY <1>4, <2>2
  <2>5. \A s \in Stack : pool[s] = "none" => pool'[s] = "none"
    BY <1>4, <2>2
  <2> QED
    BY <1>1, <1>5, <2>3, <2>4, <2>5 DEF RegistryInv, StackInv
<1> QED
  BY <1>6, <1>7, <1>8, <1>9, <1>10 DEF RegistryInv

\* GoForEach and the steps of the workers and of the closing goroutines.
LEMMA WorkersStep ==
    ASSUME RegistryInv, GoForEach \/ \E s \in Stack : WorkerStep(s)
    PROVE  RegistryInv'
<1>1. active \in [Stack -> Nat] /\ exiting \in [Stack -> Nat]
  BY DEF RegistryInv, TypeOK
<1>2. Mapped \subseteq Stack
  BY DEF RegistryInv, TypeOK, Mapped, Entry
<1>3. CASE GoForEach
  <2>l. Lives = Mapped
    <3>1. \A id \in DOMAIN entries : entries[id].lc = entries[id].stack
      BY DEF RegistryInv, StackInv
    <3> QED
      BY <3>1 DEF Lives, Mapped
  <2>1. /\ Mapped' = Mapped /\ entries' = entries
        /\ \A s \in Stack : active'[s] = IF s \in Mapped THEN active[s] + 1 ELSE active[s]
    BY <1>3, <2>l DEF GoForEach, Mapped
  <2>2. active' \in [Stack -> Nat]
    BY <1>1, <1>3 DEF GoForEach
  <2>3. sweeps' \in 0..MaxSweeps
    BY <1>3, RegistryAssumption DEF GoForEach, RegistryInv, TypeOK
  <2>4. TypeOK'
    BY <1>3, <2>2, <2>3 DEF GoForEach, RegistryInv, TypeOK
  <2>5. WorkerPoolOpen'
    BY <1>1, <1>3, <2>1 DEF GoForEach, RegistryInv, WorkerPoolOpen, MappedUsable
  <2>6. MappedUsable' /\ NoPoolLost'
    BY <1>3, <2>1 DEF GoForEach, RegistryInv, MappedUsable, NoPoolLost
  <2>7. StackInv'
    BY <1>3, <2>1 DEF GoForEach, RegistryInv, StackInv, MappedUsable
  <2> QED
    BY <2>4, <2>5, <2>6, <2>7 DEF RegistryInv
<1>4. ASSUME NEW s \in Stack, WorkerReturn(s) PROVE RegistryInv'
  <2>1. Mapped' = Mapped /\ entries' = entries
    BY <1>4 DEF WorkerReturn, Mapped
  <2>2. /\ active' \in [Stack -> Nat] /\ exiting' \in [Stack -> Nat]
        /\ \A t \in Stack : active'[t] <= active[t]
        /\ \A t \in Stack : active[t] = 0 => active'[t] = 0
    BY <1>1, <1>4 DEF WorkerReturn
  <2>3. TypeOK'
    BY <1>4, <2>2 DEF WorkerReturn, RegistryInv, TypeOK
  <2>4. WorkerPoolOpen'
    BY <1>1, <1>4, <2>2 DEF WorkerReturn, RegistryInv, WorkerPoolOpen
  <2>5. MappedUsable' /\ NoPoolLost'
    BY <1>4, <2>1 DEF WorkerReturn, RegistryInv, MappedUsable, NoPoolLost
  <2>6. StackInv'
    BY <1>4, <2>1, <2>2 DEF WorkerReturn, RegistryInv, StackInv
  <2> QED
    BY <2>3, <2>4, <2>5, <2>6 DEF RegistryInv
<1>5. ASSUME NEW s \in Stack, WorkerDone(s) PROVE RegistryInv'
  <2>1. Mapped' = Mapped /\ entries' = entries
    BY <1>5 DEF WorkerDone, Mapped
  <2>2. exiting' \in [Stack -> Nat]
    BY <1>1, <1>5 DEF WorkerDone
  <2> QED
    BY <1>5, <2>1, <2>2 DEF WorkerDone, RegistryInv, TypeOK, WorkerPoolOpen,
                            MappedUsable, NoPoolLost, StackInv
<1>6. ASSUME NEW s \in Stack, Reap(s) PROVE RegistryInv'
  <2>1. Mapped' = Mapped /\ entries' = entries
    BY <1>6 DEF Reap, Mapped
  <2>2. /\ active[s] = 0 /\ s \in retired /\ s \notin Mapped
        /\ active' = active /\ retired' = retired /\ reapers' = reapers \ {s}
        /\ \A t \in Stack : pool'[t] = IF t = s THEN "closed" ELSE pool[t]
    BY <1>1, <1>6 DEF Reap, RegistryInv, StackInv, MappedUsable, TypeOK
  <2>3. TypeOK'
    BY <1>6 DEF Reap, RegistryInv, TypeOK
  <2>4. WorkerPoolOpen'
    BY <2>2 DEF RegistryInv, WorkerPoolOpen
  <2>5. MappedUsable'
    BY <1>2, <2>1, <2>2 DEF RegistryInv, MappedUsable
  <2>6. NoPoolLost'
    BY <2>1, <2>2 DEF RegistryInv, NoPoolLost
  <2>7. StackInv'
    <3>1. gen' = gen /\ reapers \subseteq Stack
      BY <1>6 DEF Reap, RegistryInv, TypeOK
    <3>2. pool[s] = "open"
      BY <1>6 DEF Reap, RegistryInv, StackInv
    <3> QED
      BY <2>1, <2>2, <3>1, <3>2 DEF RegistryInv, StackInv
  <2> QED
    BY <2>3, <2>4, <2>5, <2>6, <2>7 DEF RegistryInv
<1> QED
  BY <1>3, <1>4, <1>5, <1>6 DEF WorkerStep

\* The steps that change no stack: edits of the inventory, the poller's ticks,
\* lookups, the start of the shutdown.
LEMMA QuietStep ==
    ASSUME RegistryInv,
           \/ Edit \/ PollTick \/ PollKeep \/ PollerExit \/ GetDefault \/ StopPoller
           \/ UNCHANGED vars
    PROVE  RegistryInv'
<1>1. /\ entries' = entries /\ Mapped' = Mapped
      /\ gen' = gen /\ pool' = pool /\ retired' = retired /\ active' = active
      /\ exiting' = exiting /\ reapers' = reapers
      /\ applied' = applied /\ failed' = failed /\ sweeps' = sweeps
  BY DEF Edit, PollTick, PollKeep, PollerExit, GetDefault, StopPoller, vars, stackVars, Mapped
<1>2. /\ phase' \in {"boot", "up", "stopping", "closed"}
      /\ poller' \in {"off", "wait", "fetch", "done"}
      /\ resolved' \in Ids \cup {NoOlt}
  BY DEF Edit, PollTick, PollKeep, PollerExit, GetDefault, StopPoller, vars, RegistryInv, TypeOK
<1>3. truth \in OltLists /\ reply \in OltLists
  BY DEF RegistryInv, TypeOK
<1>4. truth' \in OltLists /\ edits' \in 0..MaxEdits
  <2>1. CASE Edit
    <3>1. PICK id \in Ids :
             \/ \E c \in Config :
                   truth' = [i \in DOMAIN truth \cup {id} |-> IF i = id THEN c ELSE truth[i]]
             \/ truth' = [i \in DOMAIN truth \ {id} |-> truth[i]]
      BY <2>1 DEF Edit
    <3>2. DOMAIN truth \subseteq Ids /\ \A i \in DOMAIN truth : truth[i] \in Config
      BY <1>3, ListFacts
    <3>3. \/ truth' \in [DOMAIN truth \cup {id} -> Config]
          \/ truth' \in [DOMAIN truth \ {id} -> Config]
      BY <3>1, <3>2
    <3>4. DOMAIN truth \cup {id} \in SUBSET Ids /\ DOMAIN truth \ {id} \in SUBSET Ids
      BY <3>2
    <3>5. truth' \in OltLists
      BY <3>3, <3>4 DEF OltLists
    <3>6. edits' \in 0..MaxEdits
      BY <2>1, RegistryAssumption DEF Edit, RegistryInv, TypeOK
    <3> QED
      BY <3>5, <3>6
  <2>2. CASE ~Edit
    BY <2>2 DEF PollTick, PollKeep, PollerExit, GetDefault, StopPoller, vars,
                RegistryInv, TypeOK
  <2> QED
    BY <2>1, <2>2
<1>5. reply' \in OltLists
  BY <1>3 DEF Edit, PollTick, PollKeep, PollerExit, GetDefault, StopPoller, vars
<1>6. TypeOK'
  BY <1>1, <1>2, <1>4, <1>5 DEF RegistryInv, TypeOK
<1> QED
  BY <1>1, <1>6 DEF RegistryInv, WorkerPoolOpen, MappedUsable, NoPoolLost, StackInv

\* The registry's invariant: for every inventory, every sequence of edits and
\* failed connects, and every interleaving of polls, workers and shutdown.
THEOREM RegistryInvariant == Spec => []RegistryInv
<1>1. RegistryInv /\ [Next]_vars => RegistryInv'
  <2> SUFFICES ASSUME RegistryInv, [Next]_vars PROVE RegistryInv'
    OBVIOUS
  <2>1. truth \in OltLists /\ reply \in OltLists
    BY DEF RegistryInv, TypeOK
  <2>2. CASE Boot
    <3>1. PICK F : /\ Reconcile(truth, F)
                   /\ phase' = IF DOMAIN entries' = {} THEN "closed" ELSE "up"
                   /\ poller' = IF DOMAIN entries' = {} THEN "off" ELSE "wait"
      BY <2>2 DEF Boot
    <3>2. UNCHANGED <<truth, reply, resolved, edits, sweeps>>
      BY <2>2 DEF Boot
    <3>3. /\ phase' \in {"boot", "up", "stopping", "closed"}
          /\ poller' \in {"off", "wait", "fetch", "done"}
      BY <3>1
    <3> QED
      BY <2>1, <3>1, <3>2, <3>3, ReconcileStep DEF RegistryInv, TypeOK
  <2>3. ASSUME NEW F \in SUBSET Ids, PollApply(F) PROVE RegistryInv'
    <3>1. Reconcile(reply, F)
      BY <2>3 DEF PollApply
    <3> QED
      BY <2>1, <2>3, <3>1, ReconcileStep DEF PollApply, RegistryInv, TypeOK
  <2> QED
    BY <2>2, <2>3, CloseStep, WorkersStep, QuietStep DEF Next
<1> QED
  BY <1>1, RegistryInit, PTL DEF Spec

\* Type correctness of the registry.
THEOREM RegistryTypeCorrect == Spec => []TypeOK
<1>1. RegistryInv => TypeOK
  BY DEF RegistryInv
<1> QED
  BY <1>1, RegistryInvariant, PTL

\* A worker never runs against a closed pool: Reconcile and Close leave the pool
\* of a retired OLT open until its last worker has returned.
THEOREM RegistryWorkerPoolOpen == Spec => []WorkerPoolOpen
<1>1. RegistryInv => WorkerPoolOpen
  BY DEF RegistryInv
<1> QED
  BY <1>1, RegistryInvariant, PTL

\* A lookup never yields a stack that is closed or cancelled.
THEOREM RegistryMappedUsable == Spec => []MappedUsable
<1>1. RegistryInv => MappedUsable
  BY DEF RegistryInv
<1> QED
  BY <1>1, RegistryInvariant, PTL

\* An open pool is served or has a goroutine waiting to close it.
THEOREM RegistryNoPoolLost == Spec => []NoPoolLost
<1>1. RegistryInv => NoPoolLost
  BY DEF RegistryInv
<1> QED
  BY <1>1, RegistryInvariant, PTL

-----------------------------------------------------------------------------
\* What Reconcile does to the map, seen from outside: the OLTs of the list with the
\* list's configuration, the same stack where the connection fields are the same,
\* and no closed pool opened again.
LEMMA ReconcileEffect ==
    ASSUME RegistryInv, NEW list \in OltLists, NEW F, Reconcile(list, F)
    PROVE  /\ DOMAIN entries' = DOMAIN list \ F
           /\ \A id \in DOMAIN entries' : entries'[id].cfg = list[id]
           /\ \A id \in DOMAIN entries \cap DOMAIN list :
                 list[id].conn = entries[id].cfg.conn
                     => id \in DOMAIN entries' /\ entries'[id].stack = entries[id].stack
           /\ \A s \in Stack : pool[s] = "closed" => pool'[s] = "closed"
           /\ applied' = list /\ failed' = F
<1> DEFINE gone    == DOMAIN entries \ DOMAIN list
           changed == {id \in DOMAIN entries \cap DOMAIN list :
                          oltChangeKey(entries[id].cfg) # oltChangeKey(list[id])}
           added   == DOMAIN list \ DOMAIN entries
           build   == (changed \cup added) \ F
           fresh   == {<<id, gen[id] + 1>> : id \in build}
           E       == {entries[id] : id \in gone \cup changed}
<1>1. /\ F \subseteq changed \cup added
      /\ entries' = [id \in DOMAIN list \ F |-> NextEntry(id, list[id], build)]
      /\ pool' = [s \in Stack |-> IF s \in fresh THEN "open" ELSE RetirePool(E, pool)[s]]
      /\ applied' = list /\ failed' = F
  BY DEF Reconcile, Fresh
<1>2. DOMAIN entries' = DOMAIN list \ F /\ \A id \in DOMAIN entries' : entries'[id].cfg = list[id]
  BY <1>1 DEF NextEntry
<1>3. ASSUME NEW id \in DOMAIN entries \cap DOMAIN list, list[id].conn = entries[id].cfg.conn
      PROVE  id \in DOMAIN entries' /\ entries'[id].stack = entries[id].stack
  <2>1. id \notin changed /\ id \notin added
    BY <1>3 DEF oltChangeKey
  <2> QED
    BY <1>1, <1>3, <2>1 DEF NextEntry
<1>4. ASSUME NEW s \in Stack, pool[s] = "closed" PROVE pool'[s] = "closed"
  <2>1. s \notin fresh
    <3> SUFFICES ASSUME NEW id \in build, s = <<id, gen[id] + 1>> PROVE FALSE
      OBVIOUS
    <3>1. id \in Ids /\ s[1] = id /\ s[2] = gen[id] + 1
      BY DEF Stack
    <3>2. gen[id] \in Nat
      BY <3>1, GenFacts DEF RegistryInv
    <3> QED
      BY <1>4, <3>1, <3>2 DEF RegistryInv, StackInv
  <2>2. pool'[s] = RetirePool(E, pool)[s]
    BY <1>1, <2>1
  <2> HIDE DEF E
  <2> QED
    BY <1>4, <2>2 DEF RetirePool
<1> QED
  BY <1>1, <1>2, <1>3, <1>4

\* One step of the registry, seen from outside.
LEMMA ListStep ==
    ASSUME RegistryInv, FollowsList, [Next]_vars
    PROVE  /\ FollowsList'
           /\ \A s \in Stack : pool[s] = "closed" => pool'[s] = "closed"
           /\ \A id \in DOMAIN entries \cap DOMAIN entries' :
                 entries'[id].cfg.conn = entries[id].cfg.conn
                     => entries'[id].stack = entries[id].stack
<1>1. ASSUME NEW list \in OltLists, NEW F, Reconcile(list, F)
      PROVE  /\ FollowsList'
             /\ \A s \in Stack : pool[s] = "closed" => pool'[s] = "closed"
             /\ \A id \in DOMAIN entries \cap DOMAIN entries' :
                   entries'[id].cfg.conn = entries[id].cfg.conn
                       => entries'[id].stack = entries[id].stack
  <2>1. /\ DOMAIN entries' = DOMAIN list \ F
        /\ \A id \in DOMAIN entries' : entries'[id].cfg = list[id]
        /\ \A id \in DOMAIN entries \cap DOMAIN list :
              list[id].conn = entries[id].cfg.conn
                  => id \in DOMAIN entries' /\ entries'[id].stack = entries[id].stack
        /\ \A s \in Stack : pool[s] = "closed" => pool'[s] = "closed"
        /\ applied' = list /\ failed' = F
    BY <1>1, ReconcileEffect
  <2> QED
    BY <2>1 DEF FollowsList
<1>2. truth \in OltLists /\ reply \in OltLists
  BY DEF RegistryInv, TypeOK
<1>3. CASE Boot
  BY <1>1, <1>2, <1>3 DEF Boot
<1>4. ASSUME NEW F \in SUBSET Ids, PollApply(F)
      PROVE  Reconcile(reply, F)
  BY <1>4 DEF PollApply
<1>5. CASE CloseRegistry
  <2>1. DOMAIN entries' = {} /\ DOMAIN applied' = {}
    BY <1>5, EmptyList DEF CloseRegistry
  <2>2. \A s \in Stack : pool[s] = "closed" => pool'[s] = "closed"
    BY <1>5 DEF CloseRegistry, RetirePool
  <2> QED
    BY <2>1, <2>2 DEF FollowsList
<1>6. CASE \E s \in Stack : Reap(s)
  <2>1. entries' = entries /\ applied' = applied /\ failed' = failed
    BY <1>6 DEF Reap
  <2>2. \A s \in Stack : pool[s] = "closed" => pool'[s] = "closed"
    BY <1>6 DEF Reap, RegistryInv, TypeOK
  <2> QED
    BY <2>1, <2>2 DEF FollowsList
<1>7. CASE \/ Edit \/ PollTick \/ PollKeep \/ PollerExit \/ GoForEach \/ GetDefault \/ StopPoller
           \/ UNCHANGED vars
           \/ \E s \in Stack : WorkerReturn(s) \/ WorkerDone(s)
  <2>1. entries' = entries /\ applied' = applied /\ failed' = failed /\ pool' = pool
    BY <1>7 DEF Edit, PollTick, PollKeep, PollerExit, GoForEach, GetDefault, StopPoller,
                WorkerReturn, WorkerDone, vars, stackVars
  <2> QED
    BY <2>1 DEF FollowsList
<1> QED
  BY <1>1, <1>2, <1>3, <1>4, <1>5, <1>6, <1>7 DEF Next, WorkerStep

\* The registry holds exactly the list that was reconciled last.
THEOREM RegistryFollowsList == Spec => []FollowsList
<1>1. Init => FollowsList
  BY EmptyList DEF Init, FollowsList
<1>2. RegistryInv /\ FollowsList /\ [Next]_vars => FollowsList'
  BY ListStep
<1> QED
  BY <1>1, <1>2, RegistryInvariant, PTL DEF Spec

\* Another OLT's change, or a new owner, never costs an OLT its stack: no worker is
\* cancelled and no request fails because of it.
THEOREM RegistryUnchangedKeepsStack == Spec => UnchangedKeepsStack
<1>1. RegistryInv /\ FollowsList /\ [Next]_vars
         => [\A id \in DOMAIN entries \cap DOMAIN entries' :
               entries'[id].cfg.conn = entries[id].cfg.conn
                   => entries'[id].stack = entries[id].stack]_vars
  BY ListStep
<1> QED
  BY <1>1, RegistryInvariant, RegistryFollowsList, PTL DEF Spec, UnchangedKeepsStack

-----------------------------------------------------------------------------
(* Requests on the registry (OltRequests). *)

\* A step of the module with requests is a step of the registry, or leaves it alone.
LEMMA RequestsSimulate == [RNext]_rvars => [Next]_vars
<1> SUFFICES ASSUME [RNext]_rvars PROVE [Next]_vars
  OBVIOUS
<1>1. CASE WriterWaits \/ HealthCheck \/ PingAnswers \/ HealthCheckReturns
  BY <1>1 DEF WriterWaits, HealthCheck, PingAnswers, HealthCheckReturns
<1>2. CASE Unlocked
  BY <1>2 DEF Unlocked, Next
<1>3. CASE Locked
  BY <1>3 DEF Locked, Next
<1>4. ASSUME NEW r \in Requests, Arrive(r) \/ Resolve(r) \/ Join(r)
      PROVE  UNCHANGED vars
  BY <1>4 DEF Arrive, Resolve, Join
<1>5. ASSUME NEW s \in Stack, FlightStep(s)
      PROVE  UNCHANGED vars
  BY <1>5 DEF FlightStep, FlightRead, FlightWalk, FlightRows, FlightSave
<1>6. ASSUME NEW id \in Ids, Expire(id)
      PROVE  UNCHANGED vars
  BY <1>6 DEF Expire
<1>7. CASE UNCHANGED rvars
  BY <1>7 DEF rvars
<1> QED
  BY <1>1, <1>2, <1>3, <1>4, <1>5, <1>6, <1>7 DEF RNext

\* Requests, checks and flights leave the registry's guarantees as they are: what is
\* proved of Spec holds while requests run.
THEOREM RequestsKeepRegistry == RSpec => Spec
<1>1. RInit => Init
  BY DEF RInit
<1> QED
  BY <1>1, RequestsSimulate, PTL DEF RSpec, Spec

\* The values requests and flights start with have their types.
LEMMA RequestValues ==
    /\ Idle \in Request /\ NoFlight \in Flight
    /\ NotFound \in Request /\ NotFound.st = "done" /\ NotFound.res = "notfound"
    /\ ~Cut(NotFound.list)
    /\ \A on \in Holding, res \in {"list", "silent", "closed"}, l \in Lists :
          LET q == Answered(on, res, l)
          IN  q \in Request /\ q.st = "done" /\ q.on = on /\ q.res = res /\ q.list = l
    /\ Idle.st = "idle" /\ Idle.res = "none" /\ Idle.list = NoData /\ ~Cut(NoData)
    /\ NoFlight.at = "none"
<1>1. NoEntry \in Holding
  BY RegistryAssumption DEF NoEntry, Holding
<1>2. Idle \in Request
  BY <1>1 DEF Idle, Request, Lists
<1>3. NoFlight \in Flight
  BY DEF NoFlight, Flight, Lists
<1>4. NotFound \in Request /\ NotFound.st = "done" /\ NotFound.res = "notfound" /\ ~Cut(NotFound.list)
  BY <1>1 DEF NotFound, Idle, Request, Lists, Cut
<1>5. ASSUME NEW on \in Holding, NEW res \in {"list", "silent", "closed"}, NEW l \in Lists
      PROVE  LET q == Answered(on, res, l)
             IN  q \in Request /\ q.st = "done" /\ q.on = on /\ q.res = res /\ q.list = l
  BY <1>5 DEF Answered, Idle, Request
<1> QED
  BY <1>2, <1>3, <1>4, <1>5 DEF Idle, NoFlight, Cut

\* When a flight ends, exactly the requests that wait on its stack are answered.
LEMMA LandEffect ==
    ASSUME RTypeOK, NEW s \in Stack, NEW res \in {"list", "silent", "closed"},
           NEW l \in Lists, Land(s, res, l)
    PROVE  /\ req' \in [Requests -> Request]
           /\ flight' \in [Stack -> Flight]
           /\ \A t \in Stack : flight'[t] = IF t = s THEN NoFlight ELSE flight[t]
           /\ \A r \in Requests :
                 \/ req'[r] = req[r]
                 \/ /\ req[r].st = "wait" /\ req[r].on.stack = s
                    /\ req'[r].st = "done" /\ req'[r].res = res
                    /\ req'[r].on = req[r].on /\ req'[r].list = l
<1>1. req \in [Requests -> Request] /\ flight \in [Stack -> Flight] /\ NoFlight \in Flight
  BY RequestValues DEF RTypeOK
<1> DEFINE a(r) == Answered(req[r].on, res, l)
<1>2. \A r \in Requests : /\ a(r) \in Request /\ a(r).st = "done" /\ a(r).res = res
                          /\ a(r).on = req[r].on /\ a(r).list = l
  <2> SUFFICES ASSUME NEW r \in Requests
               PROVE  /\ a(r) \in Request /\ a(r).st = "done" /\ a(r).res = res
                      /\ a(r).on = req[r].on /\ a(r).list = l
    OBVIOUS
  <2>1. req[r].on \in Holding
    BY <1>1 DEF Request
  <2> QED
    BY <2>1, RequestValues
<1>3. req' = [r \in Requests |->
                IF req[r].st = "wait" /\ req[r].on.stack = s THEN a(r) ELSE req[r]]
  BY DEF Land
<1> HIDE DEF a
<1>4. \A r \in Requests :
         req'[r] = IF req[r].st = "wait" /\ req[r].on.stack = s THEN a(r) ELSE req[r]
  BY <1>3
<1>5. req' \in [Requests -> Request]
  BY <1>1, <1>2, <1>3
<1>6. flight' = [flight EXCEPT ![s] = NoFlight]
  BY DEF Land
<1> QED
  BY <1>1, <1>2, <1>4, <1>5, <1>6

\* A list comes from a stack that was built.
LEMMA ListStacks ==
    ASSUME NEW l \in Lists, l # NoData
    PROVE  l.stack \in Stack /\ l.conn \in Conns
BY DEF Lists, Data

\* At the start no request has arrived and no check runs.
LEMMA RequestInit == RInit => RequestInv
<1> SUFFICES ASSUME RInit PROVE RequestInv
  OBVIOUS
<1>1. /\ writer = "none" /\ probe = NoProbe /\ req = [r \in Requests |-> Idle]
      /\ flight = [s \in Stack |-> NoFlight] /\ cache = [id \in Ids |-> NoData]
      /\ disturbed = {} /\ listed = {}
  BY DEF RInit
<1>2. \A r \in Requests : req[r].st = "idle" /\ req[r].res = "none"
                             /\ req[r].list = NoData /\ ~Cut(req[r].list)
  BY <1>1, RequestValues
<1>3. \A s \in Stack : flight[s].at = "none"
  BY <1>1, RequestValues
<1>4. RTypeOK
  BY <1>1, <1>2, <1>3, RequestValues DEF RTypeOK, NoProbe, Lists
<1>5. ~probe.on
  BY <1>1 DEF NoProbe
<1> QED
  BY <1>1, <1>2, <1>3, <1>4, <1>5
     DEF RequestInv, BootQuiet, ProbeInv, HeldInv, FlightInv, CacheInv, ListedInv,
         OnlyRebuildsDisturb, RebuildIsInvisible

\* Reconcile and Close: a request that is not disturbed keeps a stack that is served,
\* and one that is still listed will find its OLT.
LEMMA LockedKeeps ==
    ASSUME RegistryInv, FollowsList, RequestInv, Locked
    PROVE  RequestInv'
<1>1. /\ ~probe.on
      /\ writer' = "none"
      /\ probe' = probe /\ req' = req /\ flight' = flight /\ cache' = cache
      /\ disturbed' = disturbed \cup DisturbedNow
      /\ listed' = {r \in listed : req[r].st = "sent" => Servable(req[r])'}
      /\ phase' = "boot" => phase = "boot"
  BY DEF Locked, CanLock, ReadHeld, PollApply, CloseRegistry
<1>2. Next
  BY DEF Locked, Next
<1>3. \A s \in Stack : pool[s] = "closed" => pool'[s] = "closed"
  BY <1>2, ListStep
<1>4. RTypeOK'
  <2>1. DisturbedNow \subseteq Requests
    BY DEF DisturbedNow
  <2> QED
    BY <1>1, <2>1 DEF RequestInv, RTypeOK
<1>5. BootQuiet' /\ ProbeInv'
  BY <1>1 DEF RequestInv, BootQuiet, ProbeInv
<1>6. HeldInv'
  <2> SUFFICES ASSUME NEW r \in Requests, r \notin disturbed', req[r].st \in {"found", "wait"}
               PROVE  req[r].on.stack \in Mapped'
    BY <1>1 DEF HeldInv
  <2>1. req[r].on.stack \in Mapped /\ r \notin DisturbedNow
    BY <1>1 DEF RequestInv, HeldInv
  <2>2. PICK id \in DOMAIN entries : entries[id].stack = req[r].on.stack
    BY <2>1 DEF Mapped
  <2>3. req[r].on.stack[1] = id
    BY <2>2 DEF RegistryInv, StackInv
  <2>4. id \in DOMAIN applied \cap DOMAIN applied' /\ applied'[id].conn = applied[id].conn
    BY <2>1, <2>3 DEF DisturbedNow
  <2>5. entries[id].cfg = applied[id]
    BY <2>2 DEF FollowsList
  <2>6. ~CloseRegistry
    BY <2>4, EmptyList DEF CloseRegistry
  <2>7. PICK F \in SUBSET Ids : PollApply(F)
    BY <2>6 DEF Locked
  <2>8. reply \in OltLists /\ Reconcile(reply, F)
    BY <2>7 DEF PollApply, RegistryInv, TypeOK
  <2>9. applied' = reply
    BY <2>8 DEF Reconcile
  <2>10. id \in DOMAIN entries \cap DOMAIN reply /\ reply[id].conn = entries[id].cfg.conn
    BY <2>4, <2>5, <2>9
  <2>11. id \in DOMAIN entries' /\ entries'[id].stack = entries[id].stack
    BY <2>8, <2>10, ReconcileEffect
  <2> QED
    BY <2>2, <2>11 DEF Mapped
<1>7. FlightInv' /\ CacheInv'
  <2>1. FlightInv'
    BY <1>1, <1>3 DEF RequestInv, FlightInv
  <2> SUFFICES ASSUME NEW id \in Ids, cache[id] # NoData
               PROVE  /\ cache[id].stack[1] = id
                      /\ Cut(cache[id]) => pool'[cache[id].stack] = "closed"
    BY <1>1, <2>1 DEF CacheInv
  <2>2. cache[id] \in Lists
    BY DEF RequestInv, RTypeOK
  <2>3. cache[id].stack \in Stack
    BY <2>2, ListStacks
  <2> QED
    BY <1>3, <2>3 DEF RequestInv, CacheInv
<1>8. ListedInv'
  BY <1>1 DEF ListedInv
<1>9. OnlyRebuildsDisturb' /\ RebuildIsInvisible'
  BY <1>1 DEF RequestInv, OnlyRebuildsDisturb, RebuildIsInvisible
<1> QED
  BY <1>4, <1>5, <1>6, <1>7, <1>8, <1>9 DEF RequestInv

\* The registry's steps without the lock.  Boot comes before every request.
LEMMA UnlockedKeeps ==
    ASSUME RegistryInv, FollowsList, RequestInv, Unlocked
    PROVE  RequestInv'
<1>1. /\ writer' = writer /\ probe' = probe /\ req' = req /\ flight' = flight
      /\ cache' = cache /\ disturbed' = disturbed /\ listed' = listed
  BY DEF Unlocked, reqVars
<1>2. RTypeOK' /\ OnlyRebuildsDisturb' /\ RebuildIsInvisible'
  BY <1>1 DEF RequestInv, RTypeOK, OnlyRebuildsDisturb, RebuildIsInvisible
<1>3. Next
  BY DEF Unlocked, Next
<1>4. FlightInv' /\ CacheInv'
  <2>s. \A s \in Stack : pool[s] = "closed" => pool'[s] = "closed"
    BY <1>3, ListStep
  <2>1. FlightInv'
    BY <1>1, <2>s DEF RequestInv, FlightInv
  <2> SUFFICES ASSUME NEW id \in Ids, cache[id] # NoData
               PROVE  /\ cache[id].stack[1] = id
                      /\ Cut(cache[id]) => pool'[cache[id].stack] = "closed"
    BY <1>1, <2>1 DEF CacheInv
  <2>2. cache[id] \in Lists
    BY DEF RequestInv, RTypeOK
  <2>3. cache[id].stack \in Stack
    BY <2>2, ListStacks
  <2> QED
    BY <2>s, <2>3 DEF RequestInv, CacheInv
<1>5. CASE Boot
  <2>1. ~probe.on /\ \A r \in Requests : req[r].st = "idle"
    BY <1>5 DEF Boot, RequestInv, BootQuiet
  <2>2. listed \subseteq Requests
    BY DEF RequestInv, RTypeOK
  <2>3. BootQuiet' /\ ProbeInv' /\ HeldInv' /\ ListedInv'
    BY <1>1, <2>1, <2>2 DEF BootQuiet, ProbeInv, HeldInv, ListedInv
  <2> QED
    BY <1>2, <1>4, <2>3 DEF RequestInv
<1>6. CASE Edit \/ PollTick \/ PollerExit \/ StopPoller \/ PollKeep
  <2>1. /\ entries' = entries /\ applied' = applied /\ failed' = failed
        /\ phase' = "boot" => phase = "boot"
    BY <1>6 DEF Edit, PollTick, PollerExit, StopPoller, PollKeep
  <2>2. Mapped' = Mapped
    BY <2>1 DEF Mapped
  <2>3. BootQuiet' /\ ProbeInv' /\ HeldInv'
    BY <1>1, <2>1, <2>2 DEF RequestInv, BootQuiet, ProbeInv, HeldInv
  <2>4. ListedInv'
    BY <1>1, <2>1 DEF RequestInv, ListedInv, Servable, MaySee
  <2> QED
    BY <1>2, <1>4, <2>3, <2>4 DEF RequestInv
<1> QED
  BY <1>5, <1>6 DEF Unlocked

\* HealthCheck and the writers that wait for it.
LEMMA ProbeKeeps ==
    ASSUME RegistryInv, RequestInv,
           WriterWaits \/ HealthCheck \/ PingAnswers \/ HealthCheckReturns
    PROVE  RequestInv'
<1>1. /\ UNCHANGED vars
      /\ req' = req /\ flight' = flight /\ cache' = cache
      /\ disturbed' = disturbed /\ listed' = listed
      /\ writer' \in {"none", "poller", "close"}
  BY DEF WriterWaits, HealthCheck, PingAnswers, HealthCheckReturns, RequestInv, RTypeOK
<1>2. /\ entries' = entries /\ applied' = applied /\ failed' = failed /\ phase' = phase
      /\ pool' = pool /\ Mapped' = Mapped
  BY <1>1 DEF vars, stackVars, Mapped
<1>3. /\ HeldInv' /\ FlightInv' /\ CacheInv'
      /\ OnlyRebuildsDisturb' /\ RebuildIsInvisible'
  BY <1>1, <1>2 DEF RequestInv, HeldInv, FlightInv, CacheInv, OnlyRebuildsDisturb, RebuildIsInvisible
<1>4. ListedInv'
  BY <1>1, <1>2 DEF RequestInv, ListedInv, Servable, MaySee
<1>5. Mapped \subseteq Stack
  BY DEF RegistryInv, TypeOK, Mapped, Entry
<1>6. probe \in [on : BOOLEAN, left : SUBSET Stack, saw : SUBSET Stack]
  BY DEF RequestInv, RTypeOK
<1>7. CASE WriterWaits
  BY <1>1, <1>2, <1>3, <1>4, <1>7
     DEF WriterWaits, RequestInv, RTypeOK, BootQuiet, ProbeInv
<1>8. CASE HealthCheck
  <2>1. probe' = [on |-> TRUE, left |-> Mapped, saw |-> {}] /\ phase = "up"
    BY <1>8 DEF HealthCheck
  <2>2. probe' \in [on : BOOLEAN, left : SUBSET Stack, saw : SUBSET Stack]
    BY <1>5, <2>1
  <2>3. BootQuiet' /\ ProbeInv'
    BY <1>2, <2>1 DEF BootQuiet, ProbeInv
  <2>4. RTypeOK'
    BY <1>1, <2>2 DEF RequestInv, RTypeOK
  <2> QED
    BY <1>3, <1>4, <2>3, <2>4 DEF RequestInv
<1>9. CASE PingAnswers
  <2>1. PICK s \in probe.left : probe' = [probe EXCEPT !.left = @ \ {s}, !.saw = @ \cup {s}]
    BY <1>9 DEF PingAnswers
  <2>2. /\ probe' \in [on : BOOLEAN, left : SUBSET Stack, saw : SUBSET Stack]
        /\ probe'.on = probe.on
        /\ probe'.left \cup probe'.saw = probe.left \cup probe.saw
    BY <1>6, <2>1
  <2>3. BootQuiet' /\ ProbeInv'
    BY <1>1, <1>2, <2>2 DEF RequestInv, BootQuiet, ProbeInv
  <2>4. RTypeOK'
    BY <1>1, <2>2 DEF RequestInv, RTypeOK
  <2> QED
    BY <1>3, <1>4, <2>3, <2>4 DEF RequestInv
<1>10. CASE HealthCheckReturns
  <2>1. /\ probe' \in [on : BOOLEAN, left : SUBSET Stack, saw : SUBSET Stack]
        /\ ~probe'.on
    BY <1>10 DEF HealthCheckReturns, NoProbe
  <2>2. BootQuiet' /\ ProbeInv'
    BY <1>1, <1>2, <2>1 DEF RequestInv, BootQuiet, ProbeInv
  <2>3. RTypeOK'
    BY <1>1, <2>1 DEF RequestInv, RTypeOK
  <2> QED
    BY <1>3, <1>4, <2>2, <2>3 DEF RequestInv
<1> QED
  BY <1>7, <1>8, <1>9, <1>10

\* A request arrives, looks its OLT up, or joins a flight.
LEMMA RequestKeeps ==
    ASSUME RegistryInv, FollowsList, RequestInv, NEW r \in Requests,
           Arrive(r) \/ Resolve(r) \/ Join(r)
    PROVE  RequestInv'
<1>1. /\ UNCHANGED vars
      /\ writer' = writer /\ probe' = probe /\ cache' = cache
  BY DEF Arrive, Resolve, Join
<1>2. /\ entries' = entries /\ applied' = applied /\ failed' = failed /\ phase' = phase
      /\ pool' = pool /\ Mapped' = Mapped
  BY <1>1 DEF vars, stackVars, Mapped
<1>3. /\ req \in [Requests -> Request] /\ flight \in [Stack -> Flight]
      /\ disturbed \subseteq Requests /\ listed \subseteq Requests
      /\ \A q \in Requests :
            /\ req[q].st \in {"found", "wait"}
                  => req[q].on.stack \in Stack /\ req[q].on.conn \in Conns
            /\ req[q].st # "done" => req[q].list = NoData
  BY DEF RequestInv, RTypeOK
<1>4. ProbeInv'
  BY <1>1, <1>2 DEF RequestInv, ProbeInv
<1>5. phase # "boot" => BootQuiet'
  BY <1>2 DEF BootQuiet
<1>6. CASE Arrive(r)
  <2>1. PICK id \in Targets, user \in Callers :
           req' = [req EXCEPT ![r] = [Idle EXCEPT !.st = "sent", !.id = id, !.user = user]]
    BY <1>6 DEF Arrive
  <2> DEFINE q == [Idle EXCEPT !.st = "sent", !.id = id, !.user = user]
  <2>2. q \in Request /\ q.st = "sent" /\ q.res = "none" /\ q.list = NoData /\ ~Cut(q.list)
    <3>1. id \in Ids \cup {Bare} /\ user \in Metas \cup {Admin}
      BY RequestAssumption
    <3>2. Idle \in Request /\ Idle.list = NoData /\ ~Cut(NoData)
      BY RequestValues
    <3> QED
      BY <3>1, <3>2 DEF Idle, Request
  <2>3. /\ req' \in [Requests -> Request]
        /\ \A p \in Requests : req'[p] = IF p = r THEN q ELSE req[p]
    BY <1>3, <2>1, <2>2
  <2> HIDE DEF q
  <2>4. /\ disturbed' = disturbed \ {r}
        /\ listed' = IF Servable(req'[r]) THEN listed \cup {r} ELSE listed \ {r}
        /\ flight' = flight /\ phase = "up"
    BY <1>6 DEF Arrive
  <2>5. RTypeOK'
    BY <1>1, <1>3, <2>2, <2>3, <2>4 DEF RequestInv, RTypeOK
  <2>6. /\ HeldInv' /\ FlightInv' /\ CacheInv'
        /\ OnlyRebuildsDisturb' /\ RebuildIsInvisible'
    BY <1>1, <1>2, <1>3, <2>2, <2>3, <2>4
       DEF RequestInv, HeldInv, FlightInv, CacheInv, OnlyRebuildsDisturb, RebuildIsInvisible
  <2>7. ListedInv'
    <3> SUFFICES ASSUME NEW p \in listed', req'[p].st = "sent" PROVE Servable(req[p])'
      BY DEF ListedInv
    <3>1. Servable(req'[p])
      BY <1>3, <2>3, <2>4 DEF RequestInv, ListedInv
    <3> QED
      BY <1>2, <3>1 DEF Servable, MaySee
  <2> QED
    BY <1>4, <1>5, <2>4, <2>5, <2>6, <2>7 DEF RequestInv
<1>7. CASE Resolve(r)
  <2>1. /\ req[r].st = "sent" /\ phase # "boot"
        /\ flight' = flight /\ disturbed' = disturbed /\ listed' = listed
    BY <1>7 DEF Resolve, RequestInv, BootQuiet
  <2>2. CASE req' = [req EXCEPT ![r] = NotFound]
    <3>1. /\ req' \in [Requests -> Request]
          /\ \A p \in Requests : req'[p] = IF p = r THEN NotFound ELSE req[p]
          /\ NotFound.st = "done" /\ NotFound.res = "notfound" /\ ~Cut(NotFound.list)
      BY <1>3, <2>2, RequestValues
    <3>2. r \notin listed
      <4> SUFFICES ASSUME r \in listed PROVE FALSE
        OBVIOUS
      <4>1. Servable(req[r])
        BY <2>1 DEF RequestInv, ListedInv
      <4> DEFINE id == IF req[r].id = Bare THEN Default ELSE req[r].id
      <4>2. /\ id \in DOMAIN entries /\ MaySee(req[r].user, entries[id].cfg)
        BY <4>1 DEF Servable, FollowsList
      <4>3. FoundIds(req[r].id) = {id}
        BY <4>2 DEF FoundIds
      <4>4. req'[r] # NotFound
        <5>1. req' = [req EXCEPT ![r].st = "found", ![r].on = Found(id)]
          BY <1>7, <4>2, <4>3 DEF Resolve
        <5>2. req'[r].st = "found"
          BY <1>3, <5>1 DEF Request
        <5> QED
          BY <3>1, <5>2
      <4> QED
        BY <3>1, <4>4
    <3>3. RTypeOK'
      BY <1>1, <1>3, <2>1, <3>1 DEF RequestInv, RTypeOK
    <3>4. /\ HeldInv' /\ FlightInv' /\ CacheInv'
          /\ OnlyRebuildsDisturb' /\ RebuildIsInvisible'
      BY <1>1, <1>2, <1>3, <2>1, <3>1, <3>2
         DEF RequestInv, HeldInv, FlightInv, CacheInv, OnlyRebuildsDisturb, RebuildIsInvisible
    <3>5. ListedInv'
      BY <1>2, <1>3, <2>1, <3>1 DEF RequestInv, ListedInv, Servable, MaySee
    <3> QED
      BY <1>4, <1>5, <2>1, <3>3, <3>4, <3>5 DEF RequestInv
  <2>3. ASSUME NEW id \in FoundIds(req[r].id),
               req' = [req EXCEPT ![r].st = "found", ![r].on = Found(id)]
        PROVE  RequestInv'
    <3>1. id \in DOMAIN entries
      BY DEF FoundIds
    <3>2. /\ entries[id].stack \in Stack /\ entries[id].stack \in Mapped
          /\ entries[id].cfg.conn \in Conns
      BY <3>1 DEF RegistryInv, TypeOK, Entry, Config, Mapped
    <3>3. entries[id].stack \in Ids \X (0..MaxGen)
      BY <3>2, RegistryAssumption DEF Stack
    <3>4. Found(id) \in Holding
      BY <3>2, <3>3 DEF Found, Holding
    <3>c. req[r].list = NoData /\ ~Cut(req[r].list)
      BY <1>3, <2>1, RequestValues
    <3>5. req[r] \in Request
      BY <1>3
    <3> DEFINE q == [req[r] EXCEPT !.st = "found", !.on = Found(id)]
    <3>6. /\ q \in Request /\ q.st = "found" /\ q.on = Found(id) /\ q.res = req[r].res
          /\ q.list = req[r].list
      BY <3>4, <3>5 DEF Request
    <3>7. req' = [req EXCEPT ![r] = q]
      BY <1>3, <2>3
    <3> HIDE DEF q
    <3>8. /\ req' \in [Requests -> Request]
          /\ \A p \in Requests : req'[p] = IF p = r THEN q ELSE req[p]
      BY <1>3, <3>6, <3>7
    <3>9. q.on.stack \in Mapped /\ q.on.stack \in Stack /\ q.on.conn \in Conns
      BY <3>2, <3>6 DEF Found
    <3>10. RTypeOK'
      BY <1>1, <1>3, <2>1, <3>c, <3>6, <3>8, <3>9 DEF RequestInv, RTypeOK
    <3>11. /\ HeldInv' /\ FlightInv' /\ CacheInv'
           /\ OnlyRebuildsDisturb' /\ RebuildIsInvisible'
      BY <1>1, <1>2, <1>3, <2>1, <3>c, <3>6, <3>8, <3>9
         DEF RequestInv, HeldInv, FlightInv, CacheInv, OnlyRebuildsDisturb, RebuildIsInvisible
    <3>12. ListedInv'
      BY <1>2, <1>3, <2>1, <3>6, <3>8 DEF RequestInv, ListedInv, Servable, MaySee
    <3> QED
      BY <1>4, <1>5, <2>1, <3>10, <3>11, <3>12 DEF RequestInv
  <2> QED
    BY <1>7, <2>2, <2>3 DEF Resolve
<1>8. CASE Join(r)
  <2> DEFINE s == req[r].on.stack
             q == [req[r] EXCEPT !.st = "wait"]
  <2>1. /\ req[r].st = "found" /\ phase # "boot"
        /\ disturbed' = disturbed /\ listed' = listed
    BY <1>8 DEF Join, RequestInv, BootQuiet
  <2>2. s \in Stack /\ req[r].on.conn \in Conns
    BY <1>3, <2>1
  <2>3. q \in Request /\ q.st = "wait" /\ q.on = req[r].on /\ q.res = req[r].res
        /\ q.list = req[r].list
    BY <1>3 DEF Request
  <2>4. /\ req' \in [Requests -> Request]
        /\ \A p \in Requests : req'[p] = IF p = r THEN q ELSE req[p]
    BY <1>3, <1>8, <2>3 DEF Join
  <2>5. /\ flight' \in [Stack -> Flight]
        /\ \A t \in Stack :
              \/ flight'[t] = flight[t]
              \/ flight'[t].at = "read" /\ flight'[t].conn \in Conns
    <3>1. CASE flight[s].at = "none"
      <4> DEFINE f == [flight[s] EXCEPT !.at = "read", !.conn = req[r].on.conn]
      <4>1. flight[s] \in Flight
        BY <1>3, <2>2
      <4>2. f \in Flight /\ f.at = "read" /\ f.conn \in Conns
        BY <2>2, <4>1 DEF Flight
      <4>3. flight' = [flight EXCEPT ![s] = f]
        BY <1>3, <1>8, <2>2, <3>1 DEF Join
      <4> HIDE DEF f
      <4> QED
        BY <1>3, <2>2, <4>2, <4>3
    <3>2. CASE flight[s].at # "none"
      BY <1>3, <1>8, <3>2 DEF Join
    <3> QED
      BY <3>1, <3>2
  <2> HIDE DEF s, q
  <2>6. RTypeOK'
    BY <1>1, <1>3, <2>1, <2>2, <2>3, <2>4, <2>5 DEF RequestInv, RTypeOK, s
  <2>7. HeldInv' /\ OnlyRebuildsDisturb' /\ RebuildIsInvisible'
    BY <1>2, <1>3, <2>1, <2>3, <2>4
       DEF RequestInv, HeldInv, OnlyRebuildsDisturb, RebuildIsInvisible
  <2>8. FlightInv' /\ CacheInv'
    BY <1>1, <1>2, <2>5 DEF RequestInv, FlightInv, CacheInv
  <2>9. ListedInv'
    BY <1>2, <1>3, <2>1, <2>3, <2>4 DEF RequestInv, ListedInv, Servable, MaySee
  <2> QED
    BY <1>4, <1>5, <2>1, <2>6, <2>7, <2>8, <2>9 DEF RequestInv
<1> QED
  BY <1>6, <1>7, <1>8

\* A flight that ends.  A request that was not disturbed holds a stack that is
\* served and the newest of its OLT, so its pool is open: it is not answered "closed",
\* and a list that was cut short is one of an older stack.
LEMMA LandKeeps ==
    ASSUME RegistryInv, RequestInv, NEW s \in Stack,
           NEW res \in {"list", "silent", "closed"}, NEW l \in Lists, Land(s, res, l),
           res = "closed" => pool[s] = "closed",
           Cut(l) => /\ l.stack \in Stack /\ l.stack[1] = s[1]
                     /\ pool[l.stack] = "closed",
           UNCHANGED <<vars, writer, probe, disturbed, listed>>,
           cache' \in [Ids -> Lists], CacheInv'
    PROVE  RequestInv'
<1>1. RTypeOK
  BY DEF RequestInv
<1>2. /\ req' \in [Requests -> Request]
      /\ flight' \in [Stack -> Flight]
      /\ \A t \in Stack : flight'[t] = IF t = s THEN NoFlight ELSE flight[t]
      /\ \A r \in Requests :
            \/ req'[r] = req[r]
            \/ /\ req[r].st = "wait" /\ req[r].on.stack = s
               /\ req'[r].st = "done" /\ req'[r].res = res
               /\ req'[r].on = req[r].on /\ req'[r].list = l
  BY <1>1, LandEffect
<1>3. /\ writer' = writer /\ probe' = probe /\ disturbed' = disturbed /\ listed' = listed
      /\ entries' = entries /\ applied' = applied /\ failed' = failed /\ phase' = phase
      /\ pool' = pool /\ Mapped' = Mapped
  BY DEF vars, stackVars, Mapped
<1>4. NoFlight.at = "none"
  BY RequestValues
<1>5. RTypeOK'
  BY <1>1, <1>2, <1>3, <1>4 DEF RTypeOK
<1>6. BootQuiet' /\ ProbeInv'
  BY <1>2, <1>3 DEF RequestInv, BootQuiet, ProbeInv
<1>7. HeldInv' /\ FlightInv' /\ RebuildIsInvisible'
  BY <1>1, <1>2, <1>3, <1>4 DEF RequestInv, HeldInv, FlightInv, RebuildIsInvisible, RTypeOK
<1>8. OnlyRebuildsDisturb'
  <2> SUFFICES ASSUME NEW r \in Requests, r \notin disturbed, req'[r] # req[r]
               PROVE  /\ req'[r].res # "closed"
                      /\ Cut(req'[r].list) => Before(req'[r].list.stack, req'[r].on.stack)
    BY <1>3 DEF RequestInv, OnlyRebuildsDisturb
  <2>1. /\ req[r].st = "wait" /\ req[r].on.stack = s /\ req'[r].res = res
        /\ req'[r].on.stack = s /\ req'[r].list = l
    BY <1>2
  <2>2. s \in Mapped
    BY <2>1 DEF RequestInv, HeldInv
  <2>3. pool[s] = "open" /\ s[2] = gen[s[1]]
    BY <2>2 DEF RegistryInv, MappedUsable, StackInv
  <2>4. ASSUME Cut(l) PROVE Before(l.stack, s)
    <3>1. l.stack \in Stack /\ l.stack[1] = s[1] /\ pool[l.stack] = "closed"
      BY <2>4
    <3>2. s[1] \in Ids /\ gen[s[1]] \in Nat /\ s[2] \in Nat /\ l.stack[2] \in Nat
      BY <3>1, GenFacts DEF RegistryInv
    <3>3. ~(l.stack[2] > gen[l.stack[1]])
      BY <3>1 DEF RegistryInv, StackInv
    <3>4. l.stack[2] # s[2]
      <4> SUFFICES ASSUME l.stack[2] = s[2] PROVE FALSE
        OBVIOUS
      <4>1. l.stack = s
        BY <3>1 DEF Stack
      <4> QED
        BY <2>3, <3>1, <4>1
    <3> QED
      BY <2>3, <3>1, <3>2, <3>3, <3>4 DEF Before
  <2> QED
    BY <2>1, <2>3, <2>4
<1>9. ListedInv'
  BY <1>1, <1>2, <1>3 DEF RequestInv, RTypeOK, ListedInv, Servable, MaySee
<1> QED
  BY <1>5, <1>6, <1>7, <1>8, <1>9 DEF RequestInv

\* A flight that goes on, and lists that expire: no request moves.
LEMMA FlightGoesOn ==
    ASSUME RegistryInv, RequestInv, UNCHANGED <<vars, writer, probe, req, disturbed, listed>>,
           cache' \in [Ids -> Lists], CacheInv', flight' \in [Stack -> Flight],
           \A s \in Stack :
              \/ flight'[s] = flight[s]
              \/ /\ flight'[s].at # "none" => flight'[s].conn \in Conns
                 /\ flight'[s].at \in {"rows", "save"} => flight'[s].data \in Data
                 /\ flight'[s].at \in {"rows", "save"} => flight'[s].data.stack = s
                 /\ flight'[s].at = "save" /\ Cut(flight'[s].data) => pool[s] = "closed"
    PROVE  RequestInv'
<1>1. /\ writer' = writer /\ probe' = probe /\ disturbed' = disturbed /\ listed' = listed
      /\ req' = req /\ pool' = pool /\ phase' = phase /\ Mapped' = Mapped
      /\ applied' = applied /\ failed' = failed
  BY DEF vars, stackVars, Mapped
<1>2. RTypeOK'
  BY <1>1 DEF RequestInv, RTypeOK
<1>3. BootQuiet' /\ ProbeInv' /\ HeldInv' /\ OnlyRebuildsDisturb' /\ RebuildIsInvisible'
  BY <1>1 DEF RequestInv, BootQuiet, ProbeInv, HeldInv, OnlyRebuildsDisturb, RebuildIsInvisible
<1>4. FlightInv'
  BY <1>1 DEF RequestInv, FlightInv
<1>5. ListedInv'
  BY <1>1 DEF RequestInv, ListedInv, Servable, MaySee
<1> QED
  BY <1>2, <1>3, <1>4, <1>5 DEF RequestInv

\* Redis, the walk, the rows and the save of one flight, and the TTL.
LEMMA FlightKeeps ==
    ASSUME RegistryInv, RequestInv,
           \/ \E s \in Stack : FlightStep(s)
           \/ \E id \in Ids : Expire(id)
    PROVE  RequestInv'
<1>1. /\ flight \in [Stack -> Flight] /\ cache \in [Ids -> Lists]
      /\ \A s \in Stack : /\ flight[s].at # "none" => flight[s].conn \in Conns
                          /\ flight[s].at \in {"rows", "save"} => flight[s].data \in Data
                          /\ flight[s].at \in {"rows", "save"} => flight[s].data.stack = s
  BY DEF RequestInv, RTypeOK, FlightInv
<1>p. pool' = pool /\ NoData \in Lists /\ ~Cut(NoData)
  BY RequestValues
     DEF FlightStep, FlightRead, FlightWalk, FlightRows, FlightSave, Expire, vars, stackVars, Lists
<1>c. cache' = cache => CacheInv'
  BY <1>p DEF RequestInv, CacheInv
<1>s. \A s \in Stack : s[1] \in Ids
  BY DEF Stack
<1>2. ASSUME NEW s \in Stack, FlightRead(s) PROVE RequestInv'
  <2>1. /\ UNCHANGED <<vars, writer, probe, disturbed, listed>>
        /\ cache' = cache /\ flight[s].at = "read"
    BY <1>2 DEF FlightRead
  <2>2. CASE cache[s[1]] # NoData /\ Land(s, "list", cache[s[1]])
    <3>1. cache[s[1]] \in Lists /\ cache[s[1]].stack \in Stack
      BY <1>1, <1>s, <2>2, ListStacks
    <3>2. /\ cache[s[1]].stack[1] = s[1]
          /\ Cut(cache[s[1]]) => pool[cache[s[1]].stack] = "closed"
      BY <1>s, <2>2 DEF RequestInv, CacheInv
    <3> QED
      BY <1>1, <1>c, <2>1, <2>2, <3>1, <3>2, LandKeeps
  <2>3. CASE flight' = [flight EXCEPT ![s].at = "walk"] /\ UNCHANGED req
    <3> DEFINE f == [flight[s] EXCEPT !.at = "walk"]
    <3>1. f \in Flight /\ f.at = "walk" /\ f.conn \in Conns
      BY <1>1, <2>1 DEF Flight
    <3>2. flight' = [flight EXCEPT ![s] = f]
      BY <1>1, <2>3
    <3> HIDE DEF f
    <3>3. /\ flight' \in [Stack -> Flight]
          /\ \A t \in Stack : flight'[t] = IF t = s THEN f ELSE flight[t]
      BY <1>1, <3>1, <3>2
    <3> QED
      BY <1>1, <1>c, <2>1, <2>3, <3>1, <3>3, FlightGoesOn
  <2> QED
    BY <1>2, <2>2, <2>3 DEF FlightRead
<1>3. ASSUME NEW s \in Stack, FlightWalk(s) PROVE RequestInv'
  <2>1. /\ UNCHANGED <<vars, writer, probe, disturbed, listed>>
        /\ cache' = cache /\ flight[s].at = "walk"
    BY <1>3 DEF FlightWalk
  <2>2. CASE pool[s] = "closed" /\ Land(s, "closed", NoData)
    BY <1>1, <1>p, <1>c, <2>1, <2>2, LandKeeps
  <2>3. CASE Land(s, "silent", NoData)
    BY <1>1, <1>p, <1>c, <2>1, <2>3, LandKeeps
  <2>4. CASE /\ flight' = [flight EXCEPT ![s].at = "rows",
                           ![s].data = [conn |-> flight[s].conn, rows |-> "full", stack |-> s]]
             /\ UNCHANGED req
    <3> DEFINE d == [conn |-> flight[s].conn, rows |-> "full", stack |-> s]
               f == [flight[s] EXCEPT !.at = "rows", !.data = d]
    <3>1. d \in Data /\ d.stack = s
      BY <1>1, <2>1 DEF Data, Rows
    <3>2. f \in Flight /\ f.at = "rows" /\ f.conn \in Conns /\ f.data \in Data
          /\ f.data.stack = s
      BY <1>1, <2>1, <3>1 DEF Flight, Lists
    <3>3. flight' = [flight EXCEPT ![s] = f]
      BY <1>1, <2>4
    <3> HIDE DEF f
    <3>4. /\ flight' \in [Stack -> Flight]
          /\ \A t \in Stack : flight'[t] = IF t = s THEN f ELSE flight[t]
      BY <1>1, <3>2, <3>3
    <3> QED
      BY <1>1, <1>c, <2>1, <2>4, <3>2, <3>4, FlightGoesOn
  <2> QED
    BY <1>3, <2>2, <2>3, <2>4 DEF FlightWalk
<1>4. ASSUME NEW s \in Stack, FlightRows(s) PROVE RequestInv'
  <2>1. /\ UNCHANGED <<vars, writer, probe, req, disturbed, listed>>
        /\ cache' = cache /\ flight[s].at = "rows" /\ flight[s].data \in Data
    BY <1>1, <1>4 DEF FlightRows
  <2> DEFINE d == [flight[s].data EXCEPT !.rows = IF pool[s] = "closed" THEN "cut" ELSE "full"]
             f == [flight[s] EXCEPT !.at = "save", !.data = d]
  <2>2. d \in Data /\ d.stack = s /\ (Cut(d) => pool[s] = "closed")
    BY <1>1, <2>1 DEF Data, Rows, Cut
  <2>3. flight' = [flight EXCEPT ![s] = f]
    BY <1>1, <1>4 DEF FlightRows
  <2> HIDE DEF d
  <2>4. f \in Flight /\ f.at = "save" /\ f.conn \in Conns /\ f.data = d
    BY <1>1, <2>1, <2>2 DEF Flight, Lists
  <2> HIDE DEF f
  <2>5. /\ flight' \in [Stack -> Flight]
        /\ \A t \in Stack : flight'[t] = IF t = s THEN f ELSE flight[t]
    BY <1>1, <2>3, <2>4
  <2> QED
    BY <1>1, <1>c, <2>1, <2>2, <2>4, <2>5, FlightGoesOn
<1>5. ASSUME NEW s \in Stack, FlightSave(s) PROVE RequestInv'
  <2> DEFINE d == flight[s].data
  <2>1. /\ UNCHANGED <<vars, writer, probe, disturbed, listed>>
        /\ flight[s].at = "save" /\ Land(s, "list", d)
        /\ cache' = [cache EXCEPT ![s[1]] = d] \/ cache' = cache
    BY <1>5 DEF FlightSave
  <2>2. /\ d \in Data /\ d \in Lists /\ d.stack = s
        /\ Cut(d) => pool[s] = "closed"
    BY <1>1, <2>1 DEF RequestInv, FlightInv, Lists
  <2> HIDE DEF d
  <2>3. cache' \in [Ids -> Lists] /\ \A id \in Ids : cache'[id] = cache[id] \/ (id = s[1] /\ cache'[id] = d)
    BY <1>1, <1>s, <2>1, <2>2
  <2>4. CacheInv'
    BY <1>p, <2>2, <2>3 DEF RequestInv, CacheInv
  <2> QED
    BY <2>1, <2>2, <2>3, <2>4, LandKeeps
<1>6. ASSUME NEW id \in Ids, Expire(id) PROVE RequestInv'
  <2>1. /\ cache' \in [Ids -> Lists]
        /\ \A i \in Ids : cache'[i] = cache[i] \/ cache'[i] = NoData
    BY <1>1, <1>p, <1>6 DEF Expire
  <2>2. CacheInv'
    BY <1>p, <2>1 DEF RequestInv, CacheInv
  <2> QED
    BY <1>1, <1>6, <2>1, <2>2, FlightGoesOn DEF Expire
<1> QED
  BY <1>2, <1>3, <1>4, <1>5, <1>6 DEF FlightStep

\* The invariant of the requests, for any number of goroutines, OLTs and rebuilds.
THEOREM RequestInvariant == RSpec => []RequestInv
<1>1. RSpec => []RegistryInv /\ []FollowsList
  BY RequestsKeepRegistry, RegistryInvariant, RegistryFollowsList, PTL
<1>2. RegistryInv /\ FollowsList /\ RequestInv /\ [RNext]_rvars => RequestInv'
  <2> SUFFICES ASSUME RegistryInv, FollowsList, RequestInv, [RNext]_rvars PROVE RequestInv'
    OBVIOUS
  <2>1. CASE UNCHANGED rvars
    <3>1. pool' = pool /\ cache' = cache
      BY <2>1 DEF rvars, vars, stackVars, reqVars
    <3>2. CacheInv'
      BY <3>1 DEF RequestInv, CacheInv
    <3> QED
      BY <2>1, <3>2, FlightGoesOn DEF rvars, reqVars, RequestInv, RTypeOK
  <2> QED
    BY <2>1, LockedKeeps, UnlockedKeeps, ProbeKeeps, RequestKeeps, FlightKeeps DEF RNext
<1> QED
  BY <1>1, <1>2, RequestInit, PTL DEF RSpec

\* Type correctness of requests, flights, checks and cached lists.
THEOREM RequestsTypeCorrect == RSpec => []RTypeOK
<1>1. RequestInv => RTypeOK
  BY DEF RequestInv
<1> QED
  BY <1>1, RequestInvariant, PTL

\* A request whose OLT stays in the list with the same connection settings never meets
\* a closed pool, and no list it is answered with, fetched or cached, was cut short by
\* its own stack: only an older stack of the OLT can have cut one that is still cached.
THEOREM RequestsOnlyRebuildsDisturb == RSpec => []OnlyRebuildsDisturb
<1>1. RequestInv => OnlyRebuildsDisturb
  BY DEF RequestInv
<1> QED
  BY <1>1, RequestInvariant, PTL

\* No 404 for an OLT that every list since the request's arrival contains.
THEOREM RequestsRebuildIsInvisible == RSpec => []RebuildIsInvisible
<1>1. RequestInv => RebuildIsInvisible
  BY DEF RequestInv
<1> QED
  BY <1>1, RequestInvariant, PTL

\* Healthy means that every registered OLT has answered during this very check.
THEOREM RequestsHealthySawAll == RSpec => []HealthySawAll
<1>1. RequestInv => HealthySawAll
  BY DEF RequestInv, ProbeInv, HealthySawAll
<1> QED
  BY <1>1, RequestInvariant, PTL
================================================================================
