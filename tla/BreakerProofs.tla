--------------------------- MODULE BreakerProofs ---------------------------
(***************************************************************************)
(* Proofs about the circuit breaker, for any number of connections,        *)
(* endpoints and services and any threshold and recovery time.             *)
(***************************************************************************)
EXTENDS Breaker, TLAPS

\* What one entry owes the history kept for it: the part of the inductive
\* invariant that concerns a single key, with n failures in a row and p probes.
EntryInv(e, n, p) ==
    /\ e.failures = n
    /\ e.state # "closed" <=> n = FailureThreshold
    /\ e.state = "half" <=> e.trialInFlight
    /\ p = IF e.state = "half" THEN 1 ELSE 0

\* The arithmetic of the two constants that the lemmas below need.
LEMMA Limits ==
    /\ FailureThreshold \in Nat /\ FailureThreshold > 0
    /\ 0 \in 0..FailureThreshold /\ FailureThreshold \in 0..FailureThreshold
    /\ 0 \in 0..RecoveryTime
  BY BreakerAssumption

\* allow keeps an entry in step with its history when it lets a request in
\* (middleware_breaker.go, allow).
LEMMA AdmittedKeeps ==
    ASSUME NEW e \in Entry, NEW n \in 0..FailureThreshold, NEW p \in Nat,
           EntryInv(e, n, p), ~Rejects(e)
    PROVE  /\ Admitted(e) \in Entry
           /\ EntryInv(Admitted(e), n, IF Admitted(e).state = "closed" THEN 0 ELSE p + 1)
  <1>1. Admitted(e) \in Entry
    BY DEF Entry, States, Admitted
  <1>2. EntryInv(Admitted(e), n, IF Admitted(e).state = "closed" THEN 0 ELSE p + 1)
    <2>1. CASE e.state = "closed"
      BY <2>1 DEF EntryInv, Admitted
    <2>2. CASE e.state = "open"
      BY <2>2 DEF Entry, EntryInv, Admitted
    <2>3. e.state \in States /\ e.state # "half"
      BY DEF Entry, EntryInv, Rejects
    <2> QED
      BY <2>1, <2>2, <2>3 DEF States
  <1> QED
    BY <1>1, <1>2

\* recordSuccess brings an entry, whatever its state, back to a new streak.
LEMMA SucceededKeeps ==
    ASSUME NEW e \in Entry
    PROVE  Succeeded(e) \in Entry /\ EntryInv(Succeeded(e), 0, 0)
  <1>1. Succeeded(e) \in Entry
    BY Limits DEF Entry, States, Succeeded
  <1>2. EntryInv(Succeeded(e), 0, 0)
    BY Limits DEF Entry, EntryInv, Succeeded
  <1> QED
    BY <1>1, <1>2

\* Opening an entry with a full count keeps it in step with a full streak.
LEMMA TripKeeps ==
    ASSUME NEW e \in Entry
    PROVE  /\ Trip(e, FailureThreshold) \in Entry
           /\ Trip(e, FailureThreshold).state = "open"
           /\ EntryInv(Trip(e, FailureThreshold), FailureThreshold, 0)
  <1>1. Trip(e, FailureThreshold) \in Entry
    BY Limits DEF Entry, States, Trip
  <1>2. Trip(e, FailureThreshold).state = "open"
    BY DEF Entry, Trip
  <1>3. EntryInv(Trip(e, FailureThreshold), FailureThreshold, 0)
    BY DEF Entry, EntryInv, Trip
  <1> QED
    BY <1>1, <1>2, <1>3

\* recordFailure adds one to the streak and trips the entry at the threshold.
LEMMA FailedKeeps ==
    ASSUME NEW e \in Entry, NEW n \in 0..FailureThreshold, NEW p \in Nat,
           EntryInv(e, n, p)
    PROVE  /\ Failed(e) \in Entry
           /\ EntryInv(Failed(e), IF n < FailureThreshold THEN n + 1 ELSE n,
                       IF Failed(e).state = "open" THEN 0 ELSE p)
  <1>1. CASE e.state = "half"
    <2>1. Failed(e) = Trip(e, FailureThreshold) /\ n = FailureThreshold
      BY <1>1 DEF Failed, EntryInv
    <2> QED
      BY <2>1, TripKeeps, Limits
  <1>2. CASE e.state = "open"
    <2>1. Failed(e) = [e EXCEPT !.age = 0] /\ n = FailureThreshold
      BY <1>2 DEF Failed, EntryInv
    <2>2. Failed(e) \in Entry
      BY <2>1, Limits DEF Entry
    <2> QED
      BY <1>2, <2>1, <2>2, Limits DEF Entry, EntryInv
  <1>3. CASE e.state = "closed" /\ n + 1 >= FailureThreshold
    <2>1. e.failures = n /\ n # FailureThreshold
      BY <1>3 DEF EntryInv
    <2>2. n + 1 = FailureThreshold /\ n < FailureThreshold
      BY <1>3, <2>1, Limits
    <2>3. Failed(e) = Trip(e, FailureThreshold)
      BY <1>3, <2>1, <2>2 DEF Failed, CountFailure
    <2> QED
      BY <2>2, <2>3, TripKeeps
  <1>4. CASE e.state = "closed" /\ n + 1 < FailureThreshold
    <2>1. /\ e.failures = n /\ n + 1 \in 0..FailureThreshold
          /\ n < FailureThreshold /\ ~(n + 1 >= FailureThreshold)
      BY <1>4, Limits DEF EntryInv
    <2>2. Failed(e) = [e EXCEPT !.failures = n + 1]
      <3>1. Failed(e) = CountFailure(e)
        BY <1>4 DEF Failed
      <3>2. CountFailure(e) = [e EXCEPT !.failures = n + 1]
        BY <2>1 DEF CountFailure
      <3> QED
        BY <3>1, <3>2
    <2>3. Failed(e) \in Entry
      BY <2>1, <2>2 DEF Entry
    <2>4. /\ Failed(e).failures = n + 1
          /\ Failed(e).state = "closed"
          /\ ~Failed(e).trialInFlight
      BY <1>4, <2>2 DEF Entry, EntryInv
    <2>6. p = 0
      BY <1>4 DEF EntryInv
    <2>5. n + 1 # FailureThreshold
      BY <1>4, <2>1
    <2> QED
      BY <2>1, <2>3, <2>4, <2>5, <2>6 DEF EntryInv
  <1>5. e.state \in States
    BY DEF Entry
  <1> QED
    BY <1>1, <1>2, <1>3, <1>4, <1>5, Limits DEF States

\* The inductive invariant says EntryInv of every key.
LEMMA IInvByKey ==
    IInv <=> TypeOK /\ \A k \in Keys : EntryInv(entries[k], streak[k], probes[k])
  BY DEF IInv, TripNeedsStreak, HalfOpenIffTrial, ProbeCount, EntryInv

\* The inductive invariant holds initially.
LEMMA InitIInv == Init => IInv
  BY BreakerAssumption
     DEF Init, IInv, TypeOK, TripNeedsStreak, HalfOpenIffTrial, ProbeCount,
         Entry, States, NewEntry

\* Every step keeps the inductive invariant.
LEMMA NextIInv == IInv /\ [Next]_vars => IInv'
  <1> SUFFICES ASSUME IInv, [Next]_vars
               PROVE  TypeOK' /\ \A k \in Keys : EntryInv(entries[k], streak[k], probes[k])'
    BY DEF IInv, TripNeedsStreak, HalfOpenIffTrial, ProbeCount, EntryInv
  <1>0. TypeOK /\ \A k \in Keys : EntryInv(entries[k], streak[k], probes[k])
    BY IInvByKey
  <1>1. ASSUME NEW c \in Conns, NEW r \in Routes, Allow(c, r)
        PROVE  TypeOK' /\ \A k \in Keys : EntryInv(entries[k], streak[k], probes[k])'
    <2> DEFINE e == Admitted(entries[r.key])
    <2>1. r.key \in Keys /\ r.service \in Services
      BY BreakerAssumption
    <2>2. /\ e \in Entry
          /\ EntryInv(e, streak[r.key], IF e.state = "closed" THEN 0 ELSE probes[r.key] + 1)
      BY <1>0, <1>1, <2>1, AdmittedKeeps DEF TypeOK, Allow
    <2>3. e.state \in States
      BY <2>2 DEF Entry
    <2> HIDE DEF e
    <2>4. /\ entries' = [entries EXCEPT ![r.key] = e]
          /\ known' = known \union {r.key}
          /\ gauge' = [gauge EXCEPT ![r.service] = e.state] \/ gauge' = gauge
          /\ route' = [route EXCEPT ![c] = r]
          /\ established' = [established EXCEPT ![c] = FALSE]
          /\ probes' = [probes EXCEPT ![r.key] =
                            IF e.state = "closed" THEN 0 ELSE probes[r.key] + 1]
          /\ streak' = streak
      BY <1>1 DEF Allow, Store, Publish, e
    <2>5. TypeOK'
      BY <1>0, <2>1, <2>2, <2>3, <2>4 DEF TypeOK
    <2>6. ASSUME NEW k \in Keys
          PROVE  EntryInv(entries[k], streak[k], probes[k])'
      <3>1. CASE k = r.key
        BY <1>0, <2>2, <2>4, <3>1 DEF TypeOK, EntryInv
      <3>2. CASE k # r.key
        BY <1>0, <2>4, <3>2 DEF TypeOK, EntryInv
      <3> QED
        BY <3>1, <3>2
    <2> QED
      BY <2>5, <2>6
  <1>2. ASSUME NEW c \in Conns, Success(c)
        PROVE  TypeOK' /\ \A k \in Keys : EntryInv(entries[k], streak[k], probes[k])'
    <2> DEFINE r == route[c]
               e == Succeeded(entries[r.key])
    <2>1. r \in Routes /\ r.key \in Keys /\ r.service \in Services
      BY <1>0, <1>2, BreakerAssumption DEF TypeOK, Success
    <2>2. e \in Entry /\ EntryInv(e, 0, 0)
      BY <1>0, <2>1, SucceededKeeps DEF TypeOK
    <2>3. e.state \in States
      BY <2>2 DEF Entry
    <2> HIDE DEF e
    <2>4. /\ entries' = [entries EXCEPT ![r.key] = e]
          /\ known' = known \union {r.key}
          /\ gauge' = [gauge EXCEPT ![r.service] = e.state]
          /\ route' = [route EXCEPT ![c] = NoRoute]
          /\ established' = [established EXCEPT ![c] = FALSE]
          /\ streak' = [streak EXCEPT ![r.key] = 0]
          /\ probes' = [probes EXCEPT ![r.key] = 0]
      BY <1>2 DEF Success, Store, Publish, Leave, e
    <2> HIDE DEF r
    <2>5. TypeOK'
      BY <1>0, <2>1, <2>2, <2>3, <2>4, BreakerAssumption DEF TypeOK
    <2>6. ASSUME NEW k \in Keys
          PROVE  EntryInv(entries[k], streak[k], probes[k])'
      <3>1. CASE k = r.key
        BY <1>0, <2>2, <2>4, <3>1 DEF TypeOK, EntryInv
      <3>2. CASE k # r.key
        BY <1>0, <2>4, <3>2 DEF TypeOK, EntryInv
      <3> QED
        BY <3>1, <3>2
    <2> QED
      BY <2>5, <2>6
  <1>3. ASSUME NEW c \in Conns, Failure(c)
        PROVE  TypeOK' /\ \A k \in Keys : EntryInv(entries[k], streak[k], probes[k])'
    <2> DEFINE r == route[c]
               e == Failed(entries[r.key])
               n == IF streak[r.key] < FailureThreshold THEN streak[r.key] + 1
                                                        ELSE streak[r.key]
    <2>1. r \in Routes /\ r.key \in Keys /\ r.service \in Services
      BY <1>0, <1>3, BreakerAssumption DEF TypeOK, Failure
    <2>2. e \in Entry /\ EntryInv(e, n, IF e.state = "open" THEN 0 ELSE probes[r.key])
      BY <1>0, <2>1, FailedKeeps DEF TypeOK
    <2>3. e.state \in States /\ n \in 0..FailureThreshold
      BY <1>0, <2>1, <2>2, BreakerAssumption DEF Entry, TypeOK
    <2> HIDE DEF e
    <2>4. /\ entries' = [entries EXCEPT ![r.key] = e]
          /\ known' = known \union {r.key}
          /\ gauge' = [gauge EXCEPT ![r.service] = e.state]
          /\ route' = [route EXCEPT ![c] = NoRoute]
          /\ established' = [established EXCEPT ![c] = FALSE]
          /\ streak' = [streak EXCEPT ![r.key] = n]
          /\ probes' = [probes EXCEPT ![r.key] = IF e.state = "open" THEN 0 ELSE probes[r.key]]
      BY <1>3 DEF Failure, Store, Publish, Leave, e
    <2> HIDE DEF r, n
    <2>5. TypeOK'
      BY <1>0, <2>1, <2>2, <2>3, <2>4, BreakerAssumption DEF TypeOK
    <2>6. ASSUME NEW k \in Keys
          PROVE  EntryInv(entries[k], streak[k], probes[k])'
      <3>1. CASE k = r.key
        BY <1>0, <2>2, <2>4, <3>1 DEF TypeOK, EntryInv
      <3>2. CASE k # r.key
        BY <1>0, <2>4, <3>2 DEF TypeOK, EntryInv
      <3> QED
        BY <3>1, <3>2
    <2> QED
      BY <2>5, <2>6
  <1>4. ASSUME NEW c \in Conns, Establish(c) \/ OtherError(c)
        PROVE  TypeOK' /\ \A k \in Keys : EntryInv(entries[k], streak[k], probes[k])'
    BY <1>0, <1>4 DEF Establish, OtherError, Leave, breakerVars, history, TypeOK, EntryInv
  <1>5. ASSUME Tick
        PROVE  TypeOK' /\ \A k \in Keys : EntryInv(entries[k], streak[k], probes[k])'
    <2>1. ASSUME NEW k \in Keys
          PROVE  /\ entries'[k] \in Entry
                 /\ EntryInv(entries'[k], streak[k], probes[k])
      <3>1. entries[k] \in Entry
        BY <1>0 DEF TypeOK
      <3>2. entries'[k] = IF entries[k].state = "open" /\ entries[k].age < RecoveryTime
                          THEN [entries[k] EXCEPT !.age = @ + 1] ELSE entries[k]
        BY <1>5 DEF Tick
      <3> QED
        BY <1>0, <3>1, <3>2, BreakerAssumption DEF Entry, EntryInv
    <2>2. DOMAIN entries' = Keys /\ entries' = [k \in Keys |-> entries'[k]]
      BY <1>5 DEF Tick
    <2>3. UNCHANGED <<known, gauge, route, established, streak, probes>>
      BY <1>5 DEF Tick, flightVars, history
    <2>4. entries' \in [Keys -> Entry]
      BY <2>1, <2>2
    <2> QED
      BY <1>0, <2>1, <2>3, <2>4 DEF TypeOK
  <1>6. CASE UNCHANGED vars
    BY <1>0, <1>6 DEF vars, TypeOK, EntryInv
  <1> QED
    BY <1>1, <1>2, <1>3, <1>4, <1>5, <1>6 DEF Next, Return, Reject

\* The inductive invariant is an invariant of the breaker.
THEOREM Inductive == Spec => []IInv
  BY InitIInv, NextIInv, PTL DEF Spec

\* Every variable keeps its type; in particular the failure count stays within
\* the threshold, so the uint32 counter of the code never wraps.
THEOREM TypeCorrect == Spec => []TypeOK
  <1>1. IInv => TypeOK
    BY DEF IInv
  <1> QED
    BY <1>1, Inductive, PTL

\* An entry leaves the closed state exactly on the failure that completes a
\* run of FailureThreshold failures without a success between them.
THEOREM TripsOnStreak == Spec => []TripNeedsStreak
  <1>1. IInv => TripNeedsStreak
    BY DEF IInv
  <1> QED
    BY <1>1, Inductive, PTL

\* A half-open entry always has its trial slot taken, so it admits nobody: it
\* is left by a recorded result or not at all.
THEOREM HalfOpenTaken == Spec => []HalfOpenIffTrial
  <1>1. IInv => HalfOpenIffTrial
    BY DEF IInv
  <1> QED
    BY <1>1, Inductive, PTL

\* No opening lets more than one request through to the endpoint.
THEOREM SingleProbe == Spec => []OneProbePerOpening
  <1>1. IInv => OneProbePerOpening
    BY DEF IInv, ProbeCount, OneProbePerOpening
  <1> QED
    BY <1>1, Inductive, PTL

\* A critical section on the entry of route r keeps the gauge of every sole
\* endpoint right, if it stores e and either publishes e or leaves the state.
LEMMA GaugeKept ==
    ASSUME TypeOK, GaugeOfSoleKey, NEW r \in Routes, NEW e \in Entry,
           Store(r, e),
           \/ Publish(r, e)
           \/ gauge' = gauge /\ r.key \in known /\ e.state = entries[r.key].state
    PROVE  GaugeOfSoleKey'
  <1> SUFFICES ASSUME NEW q \in Routes, Sole(q.key, q.service), q.key \in known'
               PROVE  gauge'[q.service] = entries'[q.key].state
    BY DEF GaugeOfSoleKey, Sole
  <1>1. /\ q.key \in Keys /\ q.service \in Services
        /\ r.key \in Keys /\ r.service \in Services
    BY BreakerAssumption
  <1>2. CASE r.key = q.key
    <2>1. r.service = q.service
      BY <1>2 DEF Sole
    <2> QED
      BY <1>1, <1>2, <2>1 DEF TypeOK, Store, Publish, GaugeOfSoleKey
  <1>3. CASE r.key # q.key
    <2>1. r.service # q.service
      BY <1>3 DEF Sole
    <2> QED
      BY <1>1, <1>3, <2>1 DEF TypeOK, Store, Publish, GaugeOfSoleKey
  <1> QED
    BY <1>2, <1>3

\* The gauge of a service with an endpoint of its own is never stale.
THEOREM GaugeCorrect == Spec => []GaugeOfSoleKey
  <1>1. Init => GaugeOfSoleKey
    BY DEF Init, GaugeOfSoleKey
  <1>2. IInv /\ GaugeOfSoleKey /\ [Next]_vars => GaugeOfSoleKey'
    <2> SUFFICES ASSUME IInv, GaugeOfSoleKey, [Next]_vars
                 PROVE  GaugeOfSoleKey'
      OBVIOUS
    <2>0. TypeOK /\ \A k \in Keys : EntryInv(entries[k], streak[k], probes[k])
      BY IInvByKey
    <2>1. ASSUME NEW c \in Conns, NEW r \in Routes, Allow(c, r)
          PROVE  GaugeOfSoleKey'
      <3> DEFINE e == Admitted(entries[r.key])
      <3>1. r.key \in Keys
        BY BreakerAssumption
      <3>2. e \in Entry
        BY <2>0, <2>1, <3>1, AdmittedKeeps DEF TypeOK, Allow
      <3>3. WritesGauge(r) \/ e.state = entries[r.key].state
        <4>1. entries[r.key].state \in States /\ ~Rejects(entries[r.key])
          BY <2>0, <2>1, <3>1 DEF TypeOK, Entry, Allow
        <4>2. entries[r.key].state # "half"
          BY <2>0, <3>1, <4>1 DEF EntryInv, Rejects
        <4> QED
          BY <4>1, <4>2 DEF WritesGauge, Admitted, States
      <3>4. Store(r, e) /\ IF WritesGauge(r) THEN Publish(r, e) ELSE UNCHANGED gauge
        BY <2>1 DEF Allow
      <3> HIDE DEF e
      <3> QED
        BY <2>0, <3>2, <3>3, <3>4, GaugeKept DEF WritesGauge
    <2>2. ASSUME NEW c \in Conns, Success(c) \/ Failure(c)
          PROVE  GaugeOfSoleKey'
      <3>1. route[c] \in Routes /\ route[c].key \in Keys
        BY <2>0, <2>2, BreakerAssumption DEF TypeOK, Success, Failure
      <3>2. PICK e \in Entry : Store(route[c], e) /\ Publish(route[c], e)
        <4>1. CASE Success(c)
          BY <2>0, <3>1, <4>1, SucceededKeeps DEF TypeOK, Success
        <4>2. CASE Failure(c)
          BY <2>0, <3>1, <4>2, FailedKeeps DEF TypeOK, Failure
        <4> QED
          BY <2>2, <4>1, <4>2
      <3> QED
        BY <2>0, <3>1, <3>2, GaugeKept
    <2>3. ASSUME NEW c \in Conns, Establish(c) \/ OtherError(c)
          PROVE  GaugeOfSoleKey'
      BY <2>3 DEF Establish, OtherError, breakerVars, GaugeOfSoleKey, Sole
    <2>4. CASE Tick
      <3>1. \A k \in Keys : entries'[k].state = entries[k].state
        BY <2>0, <2>4 DEF Tick, TypeOK, Entry
      <3>2. \A r \in Routes : r.key \in Keys
        BY BreakerAssumption
      <3> QED
        BY <2>4, <3>1, <3>2 DEF Tick, GaugeOfSoleKey, Sole
    <2>5. CASE UNCHANGED vars
      BY <2>5 DEF vars, GaugeOfSoleKey, Sole
    <2> QED
      BY <2>1, <2>2, <2>3, <2>4, <2>5 DEF Next, Return, Reject
  <1> QED
    BY <1>1, <1>2, Inductive, PTL DEF Spec
=============================================================================
