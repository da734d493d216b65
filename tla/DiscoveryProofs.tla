-------------------------- MODULE DiscoveryProofs --------------------------
(***************************************************************************)
(* Proofs about service discovery, for any number of service ports, pods   *)
(* and changes of the API's objects, and about the load balancing over the *)
(* lists it publishes, for any number of goroutines and endpoints.         *)
(***************************************************************************)
EXTENDS Discovery, Routing, FiniteSetTheorems, TLAPS

\* The objects of the API have a history that only grows.
ApiExtends ==
    /\ Len(api') >= Len(api)
    /\ \A i \in 1..Len(api) : api'[i] = api[i]

LEMMA TableIs ==
    ASSUME NEW ks \in SUBSET Keys, NEW o \in Objects
    PROVE  [k \in ks |-> o.ready[k]] \in Tables
  BY DEF Objects, Tables

LEMMA NowIs == TypeOK => Now \in Objects
  BY DEF TypeOK, Now

\* The sum of a part of the pods never exceeds that of all of them.
LEMMA CountOf ==
    ASSUME NEW t \in Tables, NEW k \in DOMAIN t
    PROVE  Cardinality(t[k]) \in 0..Cardinality(Pods)
  <1>1. t[k] \in SUBSET Pods
    BY DEF Tables
  <1> QED
    BY <1>1, DiscoveryAssumption, FS_Subset, FS_CardinalityType

\* Every step leaves the history as it is or adds one state to it.
LEMMA StepExtends ==
    ASSUME TypeOK, [Next]_vars
    PROVE  ApiExtends /\ (UNCHANGED api \/ \E o \in Objects : Change(o))
  <1>1. ASSUME NEW o \in Objects, Change(o)
        PROVE  ApiExtends
    BY <1>1 DEF Change, ApiExtends, TypeOK
  <1>2. CASE UNCHANGED api
    BY <1>2 DEF ApiExtends, TypeOK
  <1>3. UNCHANGED api \/ \E o \in Objects : Change(o)
    BY DEF Next, Step, vars, Cancel, ListServices, ListSlices, PublishGauge, Swap,
           WatchServices, WatchSlices, Wake, Stop, Fail
  <1> QED
    BY <1>1, <1>2, <1>3

\* The initial state: nothing has been listed, nothing is cached.
LEMMA InitIInv == Init => IInv
  <1> SUFFICES ASSUME Init PROVE IInv
    OBVIOUS
  <1>0. PICK o \in Objects : api = <<o>>
    BY DEF Init
  <1>1. api \in Seq(Objects) /\ Len(api) = 1
    BY <1>0
  <1>2. NoTable \in Tables
    BY DEF NoTable, Tables
  <1>3. TypeOK
    <2>1. DOMAIN gauge = {}
      BY DEF Init
    <2>3. DOMAIN gauge \subseteq Services /\ \A s \in DOMAIN gauge : gauge[s] \in 0..Cardinality(Pods)
      BY <2>1
    <2>4. /\ pc \in PCs /\ caller \in {"InitialSync", "watchLoop", "Run"} /\ listed \subseteq Keys
          /\ troubles \in 0..2
      BY DEF Init, PCs
    <2>6. cancelled \in BOOLEAN
      BY DEF Init
    <2>5. found \in Tables /\ cache \in Tables
      BY <1>2 DEF Init
    <2>2. Len(api) \in 1..(MaxChanges + 1) /\ began \in 1..Len(api) /\ since \in 0..Len(api)
      BY <1>1, DiscoveryAssumption DEF Init
    <2> QED
      BY <1>1, <2>2, <2>3, <2>4, <2>5, <2>6 DEF TypeOK
  <1>4. DOMAIN found = {} /\ DOMAIN cache = {}
    BY DEF Init, NoTable
  <1> QED
    BY <1>3, <1>4 DEF Init, IInv, ListedInWindow, FoundInWindow, CacheOfOneRelist,
                      TroublesCounted, OneFailureIsSurvived, GaugeOfFound, GaugeOfSinglePort

-----------------------------------------------------------------------------
(* Each part of the invariant is kept by every step. *)

\* The types of the variables that PublishGauge and Fail make interesting follow
\* from the size of the pods and from the count of errors.
LEMMA NextTypeOK ==
    ASSUME IInv, [Next]_vars
    PROVE  TypeOK'
  <1>0. TypeOK /\ Now \in Objects /\ Len(api) \in Nat
    BY NowIs DEF IInv, TypeOK
  <1>1. ASSUME NEW o \in Objects, Change(o)
        PROVE  TypeOK'
    BY <1>0, <1>1, DiscoveryAssumption DEF Change, TypeOK, controller
  <1>2. CASE ListServices
    BY <1>0, <1>2 DEF ListServices, TypeOK, PCs, Objects
  <1>3. CASE ListSlices
    <2>1. found' \in Tables
      BY <1>0, <1>3, TableIs DEF ListSlices, Join, TypeOK
    <2> QED
      BY <1>0, <1>3, <2>1 DEF ListSlices, TypeOK, PCs
  <1>4. CASE PublishGauge
    <2>1. PICK last \in [{s \in Services : Found(s) # {}} -> DOMAIN found] :
             gauge' = [s \in DOMAIN gauge \union DOMAIN last |->
                 IF s \in DOMAIN last THEN Count(last[s]) ELSE gauge[s]]
      BY <1>4 DEF PublishGauge
    <2>2. \A k \in DOMAIN found : Count(k) \in 0..Cardinality(Pods)
      BY <1>0, CountOf DEF Count, TypeOK
    <2>3. DOMAIN gauge' \subseteq Services
      BY <1>0, <2>1 DEF TypeOK
    <2>4. \A s \in DOMAIN gauge' : gauge'[s] \in 0..Cardinality(Pods)
      BY <1>0, <2>1, <2>2 DEF TypeOK
    <2> QED
      BY <1>0, <1>4, <2>3, <2>4 DEF PublishGauge, TypeOK, PCs
  <1>5. CASE Swap
    BY <1>0, <1>5 DEF Swap, TypeOK, PCs
  <1>6. CASE WatchServices \/ WatchSlices
    BY <1>0, <1>6 DEF WatchServices, WatchSlices, TypeOK, PCs
  <1>7. CASE Wake
    BY <1>0, <1>7 DEF Wake, Relist, TypeOK, PCs
  <1>8. CASE Stop
    BY <1>0, <1>8 DEF Stop, Halt, TypeOK, PCs
  <1>9. CASE Fail
    <2>1. troubles' \in 0..2
      BY <1>0, <1>9 DEF Fail, IInv, TroublesCounted, TypeOK
    <2> QED
      BY <1>0, <1>9, <2>1 DEF Fail, Halt, WatchLoopFails, Relist, TypeOK, PCs
  <1>10. CASE Cancel \/ UNCHANGED vars
    BY <1>0, <1>10 DEF Cancel, TypeOK, controller, vars
  <1> QED
    BY <1>1, <1>2, <1>3, <1>4, <1>5, <1>6, <1>7, <1>8, <1>9, <1>10 DEF Next, Step

\* What was listed or joined inside the window of the running relist stays so
\* while the history grows.
LEMMA NextWindows ==
    ASSUME IInv, [Next]_vars
    PROVE  ListedInWindow' /\ FoundInWindow'
  <1>0. /\ TypeOK /\ Len(api) \in Nat /\ began \in 1..Len(api)
        /\ ListedInWindow /\ FoundInWindow
    BY DEF IInv, TypeOK
  <1>1. ApiExtends /\ Len(api') \in Nat
    BY <1>0, StepExtends, NextTypeOK DEF TypeOK
  <1>2. CASE UNCHANGED <<pc, began, listed, found>>
    <2>1. ListedInWindow'
      BY <1>0, <1>1, <1>2 DEF ListedInWindow, ApiExtends
    <2>2. FoundInWindow'
      <3> SUFFICES ASSUME pc \in {"gauge", "swap"}
                   PROVE  \E i \in began..Len(api') : \E j \in i..Len(api') :
                              found = [k \in api'[i].services |-> api'[j].ready[k]]
        BY <1>2 DEF FoundInWindow
      <3>1. PICK i \in began..Len(api) : \E j \in i..Len(api) :
                found = [k \in api[i].services |-> api[j].ready[k]]
        BY <1>0 DEF FoundInWindow
      <3>2. PICK j \in i..Len(api) : found = [k \in api[i].services |-> api[j].ready[k]]
        BY <3>1
      <3>3. api'[i] = api[i] /\ api'[j] = api[j]
        BY <1>0, <1>1, <3>1, <3>2 DEF ApiExtends
      <3> QED
        BY <1>0, <1>1, <3>1, <3>2, <3>3 DEF ApiExtends
    <2> QED
      BY <2>1, <2>2
  <1>3. CASE ListServices
    BY <1>0, <1>3 DEF ListServices, Now, ListedInWindow, FoundInWindow
  <1>4. CASE ListSlices
    <2>1. PICK i \in began..Len(api) : listed = api[i].services
      BY <1>0, <1>4 DEF ListSlices, ListedInWindow
    <2>2. found' = [k \in api[i].services |-> api[Len(api)].ready[k]]
      BY <1>4, <2>1 DEF ListSlices, Join, Now
    <2>3. pc' = "gauge" /\ UNCHANGED <<api, began>> /\ Len(api) \in i..Len(api)
      BY <1>0, <1>4, <2>1 DEF ListSlices
    <2> QED
      BY <2>1, <2>2, <2>3 DEF ListedInWindow, FoundInWindow
  <1>5. CASE PublishGauge
    BY <1>0, <1>5 DEF PublishGauge, ListedInWindow, FoundInWindow
  <1>6. CASE pc' \notin {"slices", "gauge", "swap"}
    BY <1>6 DEF ListedInWindow, FoundInWindow
  <1>7. ASSUME NEW o \in Objects, Change(o)
        PROVE  UNCHANGED <<pc, began, listed, found>>
    BY <1>7 DEF Change, controller
  <1> QED
    BY <1>2, <1>3, <1>4, <1>5, <1>6, <1>7
       DEF Next, Step, vars, controller, Cancel, Swap, WatchServices, WatchSlices, Wake, Stop, Fail,
           Halt, Relist, WatchLoopFails

\* Swap installs a table of its window; nothing else touches the cache.
LEMMA NextCache ==
    ASSUME IInv, [Next]_vars
    PROVE  CacheOfOneRelist'
  <1>0. /\ TypeOK /\ Len(api) \in Nat /\ since \in 0..Len(api)
        /\ FoundInWindow /\ CacheOfOneRelist
    BY DEF IInv, TypeOK
  <1>1. ApiExtends /\ Len(api') \in Nat
    BY <1>0, StepExtends, NextTypeOK DEF TypeOK
  <1>2. CASE Swap
    BY <1>0, <1>2 DEF Swap, FoundInWindow, CacheOfOneRelist
  <1>3. CASE UNCHANGED <<cache, since>>
    <2> SUFFICES ASSUME since # 0
                 PROVE  \E i \in since..Len(api') : \E j \in i..Len(api') :
                            cache = [k \in api'[i].services |-> api'[j].ready[k]]
      BY <1>3 DEF CacheOfOneRelist
    <2>1. PICK i \in since..Len(api) : \E j \in i..Len(api) :
              cache = [k \in api[i].services |-> api[j].ready[k]]
      BY <1>0 DEF CacheOfOneRelist
    <2>2. PICK j \in i..Len(api) : cache = [k \in api[i].services |-> api[j].ready[k]]
      BY <2>1
    <2>3. api'[i] = api[i] /\ api'[j] = api[j]
      BY <1>0, <1>1, <2>1, <2>2 DEF ApiExtends
    <2> QED
      BY <1>0, <1>1, <2>1, <2>2, <2>3 DEF ApiExtends
  <1> QED
    BY <1>2, <1>3
       DEF Next, Step, vars, Change, Cancel, ListServices, ListSlices, PublishGauge,
           WatchServices, WatchSlices, Wake, Stop, Fail

\* Errors are counted from the last relist that came through.
LEMMA NextTroubles ==
    ASSUME IInv, [Next]_vars
    PROVE  TroublesCounted' /\ OneFailureIsSurvived'
  <1>0. TypeOK /\ TroublesCounted /\ OneFailureIsSurvived
    BY DEF IInv
  <1>1. CASE Fail
    <2>1. CASE GivesUp
      BY <1>0, <1>1, <2>1
         DEF Fail, GivesUp, Halt, TypeOK, TroublesCounted, OneFailureIsSurvived
    <2>2. CASE ~GivesUp
      BY <1>0, <1>1, <2>2
         DEF Fail, GivesUp, WatchLoopFails, Relist, TypeOK, TroublesCounted, OneFailureIsSurvived
    <2> QED
      BY <2>1, <2>2
  <1>2. CASE Swap \/ Wake
    BY <1>0, <1>2 DEF Swap, Wake, Relist, TypeOK, TroublesCounted, OneFailureIsSurvived
  <1>3. CASE ListServices \/ ListSlices \/ PublishGauge
    BY <1>0, <1>3
       DEF ListServices, ListSlices, PublishGauge, TroublesCounted, OneFailureIsSurvived
  <1>4. CASE WatchServices \/ WatchSlices \/ Stop
    BY <1>0, <1>4
       DEF WatchServices, WatchSlices, Stop, Halt, TroublesCounted, OneFailureIsSurvived
  <1>5. CASE UNCHANGED <<pc, caller, since, troubles>>
    BY <1>0, <1>5 DEF TroublesCounted, OneFailureIsSurvived
  <1> QED
    BY <1>1, <1>2, <1>3, <1>4, <1>5 DEF Next, Step, vars, Change, Cancel, controller

\* Replace publishes the gauge of every table before it installs the table.
LEMMA NextGauge ==
    ASSUME IInv, [Next]_vars
    PROVE  GaugeOfFound' /\ GaugeOfSinglePort'
  <1>0. TypeOK /\ GaugeOfFound /\ GaugeOfSinglePort
    BY DEF IInv
  <1>1. CASE PublishGauge
    <2>1. PICK last \in [{s \in Services : Found(s) # {}} -> DOMAIN found] :
             /\ \A s \in DOMAIN last : last[s] \in Found(s)
             /\ gauge' = [s \in DOMAIN gauge \union DOMAIN last |->
                    IF s \in DOMAIN last THEN Count(last[s]) ELSE gauge[s]]
      BY <1>1 DEF PublishGauge
    <2>2. ASSUME NEW k \in DOMAIN found,
                 \A other \in DOMAIN found : ServiceOf[other] = ServiceOf[k] => other = k
          PROVE  gauge'[ServiceOf[k]] = Cardinality(found[k])
      <3>1. k \in Keys /\ ServiceOf[k] \in Services
        BY <1>0, DiscoveryAssumption DEF TypeOK, Tables
      <3>2. ServiceOf[k] \in DOMAIN last
        BY <3>1 DEF Found
      <3>3. last[ServiceOf[k]] = k
        BY <2>1, <2>2, <3>2 DEF Found
      <3> QED
        BY <2>1, <3>2, <3>3 DEF Count
    <2> QED
      BY <1>1, <2>2 DEF PublishGauge, GaugeOfFound, GaugeOfSinglePort
  <1>2. CASE Swap
    BY <1>0, <1>2 DEF Swap, GaugeOfFound, GaugeOfSinglePort
  <1>3. CASE pc # "swap" /\ pc' # "swap" /\ UNCHANGED <<cache, gauge>>
    BY <1>0, <1>3 DEF GaugeOfFound, GaugeOfSinglePort
  <1>4. CASE UNCHANGED <<pc, found, cache, gauge>>
    BY <1>0, <1>4 DEF GaugeOfFound, GaugeOfSinglePort
  <1> QED
    BY <1>1, <1>2, <1>3, <1>4
       DEF Next, Step, vars, Change, Cancel, controller, ListServices, ListSlices, WatchServices,
           WatchSlices, Wake, Stop, Fail, Halt, Relist, WatchLoopFails

-----------------------------------------------------------------------------
(* The theorems about discovery. *)

\* The inductive invariant holds in every reachable state of the controller.
THEOREM Inductive == Spec => []IInv
  <1>1. IInv /\ [Next]_vars => IInv'
    <2> SUFFICES ASSUME IInv, [Next]_vars PROVE IInv'
      OBVIOUS
    <2> QED
      BY NextTypeOK, NextWindows, NextCache, NextTroubles, NextGauge DEF IInv
  <1> QED
    BY <1>1, InitIInv, PTL DEF Spec

\* Every variable of the controller, the cache and the gauge keeps its type.
THEOREM TypeCorrect == Spec => []TypeOK
  <1>1. IInv => TypeOK
    BY DEF IInv
  <1> QED
    BY <1>1, Inductive, PTL

\* The cache always is the join of two lists of one and the same relist, the
\* services not later than the slices (controller.go, relist; cache.go, Replace).
THEOREM CacheConsistent == Spec => []CacheOfOneRelist
  <1>1. IInv => CacheOfOneRelist
    BY DEF IInv
  <1> QED
    BY <1>1, Inductive, PTL

\* A controller that has synced stops only after two errors with no successful
\* relist between them (controller.go, Run and watchLoop).
THEOREM FailureSurvived == Spec => []OneFailureIsSurvived
  <1>1. IInv => OneFailureIsSurvived
    BY DEF IInv
  <1> QED
    BY <1>1, Inductive, PTL

\* The ready gauge of a service with one port counts what the cache holds for it.
THEOREM GaugeCorrect == Spec => []GaugeOfSinglePort
  <1>1. IInv => GaugeOfSinglePort
    BY DEF IInv
  <1> QED
    BY <1>1, Inductive, PTL

-----------------------------------------------------------------------------
(* The remainder of the index by a length that is not a constant. *)

\* Multiples of n are at least n apart.
LEMMA Apart ==
    ASSUME NEW n \in Nat \ {0}, NEW x \in Int, NEW y \in Int, x + 1 <= y
    PROVE  n * x + n <= n * y
  <1>1. PICK d \in Nat : y = x + 1 + d
    <2> WITNESS y - x - 1 \in Nat
    <2> QED
      OBVIOUS
  <1>2. n * d >= 0
    OBVIOUS
  <1>3. n * (x + 1 + d) = n * x + n + n * d
    OBVIOUS
  <1> QED
    BY <1>1, <1>2, <1>3

LEMMA Division ==
    ASSUME NEW a \in Nat, NEW n \in Nat \ {0}
    PROVE  a \div n \in Int /\ a % n \in 0..(n - 1) /\ a = n * (a \div n) + (a % n)
  OBVIOUS

\* A number has one remainder.
LEMMA RemainderUnique ==
    ASSUME NEW a \in Nat, NEW n \in Nat \ {0}, NEW q \in Int, NEW r \in 0..(n - 1), a = n * q + r
    PROVE  a % n = r
  <1> DEFINE x == a \div n
             m == a % n
  <1>1. x \in Int /\ m \in 0..(n - 1) /\ n * x + m = n * q + r
    BY Division
  <1> HIDE DEF x, m
  <1>2. CASE x = q
    BY <1>1, <1>2
  <1>3. CASE x + 1 <= q
    BY <1>1, <1>3, Apart
  <1>4. CASE q + 1 <= x
    BY <1>1, <1>4, Apart
  <1>5. m = r
    BY <1>1, <1>2, <1>3, <1>4
  <1> QED
    BY <1>5 DEF m

\* The index that selectEndpoint stores is the one after the index it used.
LEMMA Successor ==
    ASSUME NEW a \in Nat, NEW n \in Nat \ {0}
    PROVE  (a + 1) % n = IF (a % n) + 1 = n THEN 0 ELSE (a % n) + 1
  <1>0. a \div n \in Int /\ a % n \in 0..(n - 1) /\ a = n * (a \div n) + (a % n)
    BY Division
  <1>1. CASE (a % n) + 1 = n
    <2>1. a + 1 = n * (a \div n + 1) + 0
      BY <1>0, <1>1
    <2>2. a + 1 \in Nat /\ a \div n + 1 \in Int /\ 0 \in 0..(n - 1)
      BY <1>0
    <2>3. (a + 1) % n = 0
      BY <2>1, <2>2, RemainderUnique
    <2> QED
      BY <1>1, <2>3
  <1>2. CASE (a % n) + 1 # n
    <2>1. a + 1 = n * (a \div n) + ((a % n) + 1)
      BY <1>0
    <2>2. a + 1 \in Nat /\ a \div n \in Int /\ (a % n) + 1 \in 0..(n - 1)
      BY <1>0, <1>2
    <2>3. (a + 1) % n = (a % n) + 1
      BY <2>1, <2>2, RemainderUnique
    <2> QED
      BY <1>2, <2>3
  <1> QED
    BY <1>1, <1>2

\* The remainder of a remainder.
LEMMA RemainderSmall ==
    ASSUME NEW n \in Nat \ {0}, NEW a \in 0..(n - 1)
    PROVE  a % n = a
  OBVIOUS

-----------------------------------------------------------------------------
(* Lists and turns *)

LEMMA ListIs ==
    ASSUME NEW s \in Lists
    PROVE  /\ Len(s) \in 0..Cardinality(Endpoints)
           /\ s \in [1..Len(s) -> Endpoints]
           /\ s # <<>> => Len(s) \in Nat \ {0}
           /\ \A i, j \in 1..Len(s) : s[i] = s[j] => i = j
  <1>1. Cardinality(Endpoints) \in Nat
    BY RoutingAssumption, FS_CardinalityType
  <1>2. PICK n \in 0..Cardinality(Endpoints) :
            s \in [1..n -> Endpoints] /\ \A i, j \in 1..n : s[i] = s[j] => i = j
    BY DEF Lists
  <1>3. s \in Seq(Endpoints) /\ Len(s) = n
    BY <1>1, <1>2
  <1> QED
    BY <1>1, <1>2, <1>3

LEMMA AdvanceType ==
    ASSUME RoutingTypeOK, NEW eps \in Lists, eps # <<>>
    PROVE  Advance(eps) \in 0..Cardinality(Endpoints)
  <1>1. Cardinality(Endpoints) \in Nat
    BY RoutingAssumption, FS_CardinalityType
  <1>2. next + 1 \in Nat /\ Len(eps) \in Nat \ {0} /\ Len(eps) <= Cardinality(Endpoints)
    BY <1>1, ListIs DEF RoutingTypeOK
  <1>3. (next + 1) % Len(eps) \in 0..(Len(eps) - 1)
    BY <1>2, Division
  <1> QED
    BY <1>1, <1>2, <1>3 DEF Advance, RoutingTypeOK

\* The position after the present one is the next in turn, unless a round ends.
LEMMA TurnMoves ==
    ASSUME NEW n \in Nat \ {0}, NEW first \in 1..n, NEW at \in 1..n, NEW after \in 1..n,
           after = IF at = n THEN 1 ELSE at + 1, after # first, NEW i \in 1..n
    PROVE  Turn(i, first, n) < Turn(after, first, n)
               <=> Turn(i, first, n) < Turn(at, first, n) \/ i = at
  BY DEF Turn

\* After a reset the rotation starts where the index stands.
LEMMA RotationStarts ==
    ASSUME list' \in Lists, list' # <<>>, next' \in Nat, picks' = NoPicks
    PROVE  \E base \in 0..MaxPicks, first \in 1..Len(list') : Rotated(base, first)'
  <1>1. PICK n \in Nat \ {0} : n = Len(list')
    BY ListIs
  <1>2. \A i \in 1..n : picks'[list'[i]] = 0
    BY <1>1, ListIs DEF NoPicks
  <1>3. PICK r \in 0..(n - 1) : r = next' % n
    <2>1. next' % n \in 0..(n - 1)
      BY Division
    <2> QED
      BY <2>1, Zenon
  <1>4. r + 1 \in 1..n
    OBVIOUS
  <1>5. PICK first \in 1..n : first = (next' % n) + 1
    BY <1>3, <1>4, Zenon
  <1>6. Rotated(0, first)'
    <2> SUFFICES ASSUME NEW i \in 1..n
                 PROVE  picks'[list'[i]] =
                            IF Turn(i, first, n) < Turn(first, first, n) THEN 0 + 1 ELSE 0
      BY <1>1, <1>5 DEF Rotated
    <2>1. ~(Turn(i, first, n) < Turn(first, first, n))
      BY DEF Turn
    <2> QED
      BY <1>2, <2>1
  <1> QED
    BY <1>1, <1>6, RoutingAssumption

-----------------------------------------------------------------------------
LEMMA InitRoutingInv == RoutingInit => RoutingInv
  <1> SUFFICES ASSUME RoutingInit PROVE RoutingInv
    OBVIOUS
  <1>1. Cardinality(Endpoints) \in Nat
    BY RoutingAssumption, FS_CardinalityType
  <1>2. RoutingTypeOK
    BY <1>1, RoutingAssumption DEF RoutingInit, RoutingTypeOK, NoPicks
  <1>3. ASSUME list # <<>>
        PROVE  \E base \in 0..MaxPicks, first \in 1..Len(list) : Rotated(base, first)
    <2>1. Len(list) \in Nat \ {0} /\ \A i \in 1..Len(list) : list[i] \in Endpoints
      BY <1>2, <1>3, ListIs DEF RoutingTypeOK
    <2>2. next % Len(list) = 0
      BY <2>1, RemainderSmall DEF RoutingInit
    <2>3. Rotated(0, 1)
      BY <2>1, <2>2 DEF Rotated, Turn, RoutingInit, NoPicks
    <2> QED
      BY <2>1, <2>3, RoutingAssumption
  <1> QED
    BY <1>2, <1>3 DEF RoutingInv

LEMMA NextRoutingTypeOK ==
    ASSUME RoutingTypeOK, [RoutingNext]_routingVars
    PROVE  RoutingTypeOK'
  <1>1. CASE Replace
    BY <1>1, RoutingAssumption DEF Replace, RoutingTypeOK, NoPicks
  <1>2. ASSUME NEW c \in Conns, GetEndpoints(c)
        PROVE  RoutingTypeOK'
    BY <1>2 DEF GetEndpoints, RoutingTypeOK
  <1>3. ASSUME NEW c \in Conns, SelectEndpoint(c)
        PROVE  RoutingTypeOK'
    <2>1. copies[c] \in Lists /\ copies[c] # <<>>
      BY <1>3 DEF SelectEndpoint, RoutingTypeOK
    <2>2. next' \in 0..Cardinality(Endpoints)
      BY <1>3, <2>1, AdvanceType DEF SelectEndpoint
    <2>3. picks' \in [Endpoints -> 0..MaxPicks]
      BY <1>3, RoutingAssumption DEF SelectEndpoint, RoutingTypeOK, NoPicks
    <2> QED
      BY <1>3, <2>2, <2>3 DEF SelectEndpoint, RoutingTypeOK
  <1>4. CASE UNCHANGED routingVars
    BY <1>4 DEF routingVars, RoutingTypeOK
  <1> QED
    BY <1>1, <1>2, <1>3, <1>4 DEF RoutingNext

\* A pick from the present list moves the rotation on by one position.
LEMMA RotationMoves ==
    ASSUME RoutingTypeOK, list # <<>>, NEW base \in 0..MaxPicks, NEW first \in 1..Len(list),
           Rotated(base, first),
           NEW at \in 1..Len(list), at = (next % Len(list)) + 1,
           picks[list[at]] < MaxPicks,
           picks' = [picks EXCEPT ![list[at]] = @ + 1],
           next' = (next + 1) % Len(list), list' = list
    PROVE  \E b \in 0..MaxPicks, f \in 1..Len(list') : Rotated(b, f)'
  <1>0. PICK n \in Nat \ {0} : n = Len(list)
    BY ListIs DEF RoutingTypeOK
  <1>1. PICK after \in 1..n : /\ after = IF at = n THEN 1 ELSE at + 1
                             /\ (next' % n) + 1 = after
    <2>1. next \in Nat
      BY RoutingAssumption, FS_CardinalityType DEF RoutingTypeOK
    <2>2. next' = IF at = n THEN 0 ELSE at
      BY <1>0, <2>1, Successor
    <2>3. next' % n = next'
      BY <1>0, <2>2, RemainderSmall
    <2> QED
      BY <1>0, <2>2, <2>3
  <1>2. \A i \in 1..n : picks'[list[i]] = IF i = at THEN picks[list[i]] + 1 ELSE picks[list[i]]
    BY <1>0, ListIs DEF RoutingTypeOK
  <1>3. \A i \in 1..n : picks[list[i]] = IF Turn(i, first, n) < Turn(at, first, n) THEN base + 1 ELSE base
    BY <1>0 DEF Rotated
  <1>5. CASE after = first
    <2>1. \A i \in 1..n : picks'[list[i]] = base + 1
      BY <1>0, <1>1, <1>2, <1>3, <1>5 DEF Turn
    <2>2. ~(Turn(after, first, n) < Turn(after, first, n)) /\ \A i \in 1..n : ~(Turn(i, first, n) < Turn(after, first, n))
      BY <1>0, <1>1, <1>5 DEF Turn
    <2>3. Rotated(base + 1, first)'
      BY <1>0, <1>1, <2>1, <2>2 DEF Rotated
    <2>4. base + 1 \in 0..MaxPicks
      BY <1>0, <1>3, RoutingAssumption
    <2> QED
      BY <2>3, <2>4
  <1>6. CASE after # first
    <2>1. \A i \in 1..n :
              Turn(i, first, n) < Turn(after, first, n) <=> Turn(i, first, n) < Turn(at, first, n) \/ i = at
      BY <1>0, <1>1, <1>6, TurnMoves
    <2>2. ~(Turn(at, first, n) < Turn(at, first, n))
      BY <1>0 DEF Turn
    <2>3. \A i \in 1..n : picks'[list[i]] = IF Turn(i, first, n) < Turn(after, first, n) THEN base + 1 ELSE base
      BY <1>2, <1>3, <2>1, <2>2
    <2>4. Rotated(base, first)'
      BY <1>0, <1>1, <2>3 DEF Rotated
    <2> QED
      BY <2>4
  <1> QED
    BY <1>5, <1>6

\* Every step keeps the rotation, moves it on or starts it anew.
LEMMA NextRotated ==
    ASSUME RoutingInv, [RoutingNext]_routingVars, Algorithm = "roundRobin", list' # <<>>
    PROVE  \E base \in 0..MaxPicks, first \in 1..Len(list') : Rotated(base, first)'
  <1>0. RoutingTypeOK /\ RoutingTypeOK'
    BY NextRoutingTypeOK DEF RoutingInv
  <1>1. list' \in Lists /\ next' \in Nat
    BY <1>0, RoutingAssumption, FS_CardinalityType DEF RoutingTypeOK
  <1>2. CASE picks' = NoPicks
    BY <1>1, <1>2, RotationStarts
  <1>3. CASE UNCHANGED <<list, next, picks>>
    <2>1. PICK base \in 0..MaxPicks, first \in 1..Len(list) : Rotated(base, first)
      BY <1>3 DEF RoutingInv
    <2>2. Rotated(base, first)'
      BY <1>3, <2>1 DEF Rotated, Turn
    <2> QED
      BY <1>3, <2>2
  <1>4. ASSUME NEW c \in Conns, SelectEndpoint(c), copies[c] = list
        PROVE  \E base \in 0..MaxPicks, first \in 1..Len(list') : Rotated(base, first)'
    <2>1. list' = list /\ next' = (next + 1) % Len(list)
      BY <1>4 DEF SelectEndpoint, Advance
    <2>2. PICK at \in Selected(list) : /\ picks[list[at]] < MaxPicks
                                      /\ picks' = [picks EXCEPT ![list[at]] = @ + 1]
      BY <1>4 DEF SelectEndpoint
    <2>3. at = (next % Len(list)) + 1
      BY <2>2 DEF Selected
    <2>4. at \in 1..Len(list)
      <3>1. Len(list) \in Nat \ {0} /\ next \in Nat
        BY <1>0, <2>1, ListIs, RoutingAssumption, FS_CardinalityType DEF RoutingTypeOK
      <3>2. next % Len(list) \in 0..(Len(list) - 1)
        BY <3>1, Division
      <3> QED
        BY <2>3, <3>1, <3>2
    <2>5. PICK base \in 0..MaxPicks, first \in 1..Len(list) : Rotated(base, first)
      BY <2>1 DEF RoutingInv
    <2> QED
      BY <1>0, <2>1, <2>2, <2>3, <2>4, <2>5, RotationMoves
  <1>5. ASSUME NEW c \in Conns, SelectEndpoint(c), copies[c] # list
        PROVE  picks' = NoPicks
    BY <1>5 DEF SelectEndpoint
  <1> QED
    BY <1>2, <1>3, <1>4, <1>5 DEF RoutingNext, Replace, GetEndpoints, routingVars

-----------------------------------------------------------------------------
(* The theorems about load balancing. *)

\* The picks go round the present list (selectEndpoint).
THEOREM RoutingInductive == RoutingSpec => []RoutingInv
  <1>1. RoutingInv /\ [RoutingNext]_routingVars => RoutingInv'
    <2> SUFFICES ASSUME RoutingInv, [RoutingNext]_routingVars PROVE RoutingInv'
      OBVIOUS
    <2>1. RoutingTypeOK'
      BY NextRoutingTypeOK DEF RoutingInv
    <2> QED
      BY <2>1, NextRotated DEF RoutingInv
  <1> QED
    BY <1>1, InitRoutingInv, PTL DEF RoutingSpec

\* The index never leaves the lists it is used on, whatever list replaces them.
THEOREM RoutingTypeCorrect == RoutingSpec => []RoutingTypeOK
  <1>1. RoutingInv => RoutingTypeOK
    BY DEF RoutingInv
  <1> QED
    BY <1>1, RoutingInductive, PTL

\* Round robin never favours an endpoint by more than one pick, however many
\* goroutines pick and whatever index the earlier lists have left.
THEOREM RoundRobinFair == RoutingSpec => []Balanced
  <1>1. RoutingInv => Balanced
    <2> SUFFICES ASSUME RoutingInv, Algorithm = "roundRobin",
                        NEW i \in 1..Len(list), NEW j \in 1..Len(list)
                 PROVE  picks[list[i]] <= picks[list[j]] + 1
      BY DEF Balanced
    <2>1. list # <<>>
      OBVIOUS
    <2>2. PICK base \in 0..MaxPicks, first \in 1..Len(list) : Rotated(base, first)
      BY <2>1 DEF RoutingInv
    <2>3. picks[list[i]] \in {base, base + 1} /\ picks[list[j]] \in {base, base + 1}
      BY <2>2 DEF Rotated
    <2> QED
      BY <2>3
  <1> QED
    BY <1>1, RoutingInductive, PTL
=============================================================================
