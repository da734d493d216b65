------------------------------ MODULE Breaker ------------------------------
(***************************************************************************)
(* The circuit breaker of the k8s sidecar, middleware_breaker.go: one      *)
(* entry per target address, shared by every connection goroutine.  The    *)
(* mutex makes allow, recordSuccess and recordFailure atomic; between them *)
(* the goroutine is inside next (the forwarder) without the mutex, so      *)
(* other goroutines may move the entry before its result is recorded.      *)
(*                                                                         *)
(* Time is kept as the age of an opening (time.Now() - openedAt), counted  *)
(* up to RecoveryTime: allow reads nothing else of it.                     *)
(***************************************************************************)
EXTENDS Naturals, FiniteSets

CONSTANTS Conns,             \* connection goroutines
          Keys,              \* breaker keys: the targetAddr of an endpoint
          Services,          \* service labels of the metrics
          Routes,            \* what routing can select: a key and the service it serves
          NoRoute,           \* a goroutine that is not inside Handle
          FailureThreshold,  \* circuitBreakerPolicy.failureThreshold
          RecoveryTime       \* circuitBreakerPolicy.recoveryTime, in ticks

ASSUME BreakerAssumption ==
    /\ Routes \subseteq [key : Keys, service : Services]
    /\ NoRoute \notin Routes
    /\ FailureThreshold \in Nat \ {0}
    /\ RecoveryTime \in Nat \ {0}

VARIABLES entries,      \* breakerMiddleware.entries: the zero entry until one is created
          known,        \* the keys of the entries map
          gauge,        \* mesh_circuit_breaker_state, by service
          route,        \* what a goroutine inside Handle was routed to
          established,  \* the goroutine's target connection is open: it is bridging
          streak,       \* history: failures recorded since the last success, capped
          probes        \* history: requests admitted since the entry last opened

breakerVars == <<entries, known, gauge>>
flightVars == <<route, established>>
history == <<streak, probes>>
vars == <<entries, known, gauge, route, established, streak, probes>>

States == {"closed", "open", "half"}
Entry == [state : States, failures : 0..FailureThreshold, age : 0..RecoveryTime, trialInFlight : BOOLEAN]

TypeOK ==
    /\ entries \in [Keys -> Entry]
    /\ known \in SUBSET Keys
    /\ gauge \in [Services -> States \union {"unset"}]
    /\ route \in [Conns -> Routes \union {NoRoute}]
    /\ established \in [Conns -> BOOLEAN]
    /\ streak \in [Keys -> 0..FailureThreshold]
    /\ probes \in [Keys -> Nat]

NewEntry == [state |-> "closed", failures |-> 0, age |-> 0, trialInFlight |-> FALSE]

Init ==
    /\ entries = [k \in Keys |-> NewEntry]
    /\ known = {}
    /\ gauge = [s \in Services |-> "unset"]
    /\ route = [c \in Conns |-> NoRoute]
    /\ established = [c \in Conns |-> FALSE]
    /\ streak = [k \in Keys |-> 0]
    /\ probes = [k \in Keys |-> 0]

-----------------------------------------------------------------------------
(***************************************************************************)
(* What the critical sections do to one entry.  A definition whose name    *)
(* says what it gets wrong is a mutant of the one below it, used only to   *)
(* show that a property notices.                                           *)
(***************************************************************************)

RejectsForEver(e) == e.state = "open" \/ (e.state = "half" /\ e.trialInFlight)
RejectsOpenOnly(e) == e.state = "open" /\ e.age < RecoveryTime
\* allow returns a breaker_open error.
Rejects(e) ==
    \/ e.state = "open" /\ e.age < RecoveryTime
    \/ e.state = "half" /\ e.trialInFlight

\* The entry after allow has let a request through.
Admitted(e) ==
    IF e.state = "closed" THEN e ELSE [e EXCEPT !.trialInFlight = TRUE, !.state = "half"]

SucceededKeepingCount(e) == [e EXCEPT !.trialInFlight = FALSE, !.state = "closed"]
\* The entry after recordSuccess.
Succeeded(e) == [e EXCEPT !.trialInFlight = FALSE, !.state = "closed", !.failures = 0]

\* Opening with n failures on the count.
Trip(e, n) ==
    [e EXCEPT !.trialInFlight = FALSE, !.state = "open", !.failures = n, !.age = 0]

CountFailure(e) ==
    IF e.failures + 1 >= FailureThreshold
    THEN Trip(e, e.failures + 1)
    ELSE [e EXCEPT !.failures = @ + 1]

FailedCountingTrial(e) ==
    CASE e.state = "half" -> Trip(e, e.failures + 1)
      [] e.state = "open" -> [e EXCEPT !.age = 0]
      [] e.state = "closed" -> CountFailure(e)
\* The entry after recordFailure.
Failed(e) ==
    CASE e.state = "half" -> Trip(e, FailureThreshold)
      [] e.state = "open" -> [e EXCEPT !.age = 0]
      [] e.state = "closed" -> CountFailure(e)

\* The map holds e under r.key; getOrCreateEntry has created it if need be.
Store(r, e) ==
    /\ entries' = [entries EXCEPT ![r.key] = e]
    /\ known' = known \union {r.key}

\* The last SetCircuitBreakerState of a critical section that leaves e.
Publish(r, e) == gauge' = [gauge EXCEPT ![r.service] = e.state]

\* allow writes the gauge when it creates the entry or makes it half-open.
WritesGauge(r) == r.key \notin known \/ entries[r.key].state = "open"

-----------------------------------------------------------------------------
(***************************************************************************)
(* Handle, for a request whose breaker key is not empty.                   *)
(***************************************************************************)

\* allow succeeds and Handle calls next.
Allow(c, r) ==
    LET e == Admitted(entries[r.key])
    IN  /\ route[c] = NoRoute
        /\ ~Rejects(entries[r.key])
        /\ Store(r, e)
        /\ IF WritesGauge(r) THEN Publish(r, e) ELSE UNCHANGED gauge
        /\ route' = [route EXCEPT ![c] = r]
        /\ established' = [established EXCEPT ![c] = FALSE]
        /\ probes' = [probes EXCEPT ![r.key] = IF e.state = "closed" THEN 0 ELSE @ + 1]
        /\ UNCHANGED streak

\* allow fails: Handle returns the breaker_open error and nothing has changed.
Reject(c, r) ==
    /\ route[c] = NoRoute
    /\ Rejects(entries[r.key])
    /\ UNCHANGED vars

\* Inside next, the dial succeeds and the goroutine starts copying bytes.
Establish(c) ==
    /\ route[c] # NoRoute
    /\ ~established[c]
    /\ established' = [established EXCEPT ![c] = TRUE]
    /\ UNCHANGED <<breakerVars, route, history>>

Leave(c) ==
    /\ route' = [route EXCEPT ![c] = NoRoute]
    /\ established' = [established EXCEPT ![c] = FALSE]

\* next returns nil, after the bridge has ended: recordSuccess.
Success(c) ==
    /\ route[c] # NoRoute
    /\ established[c]
    /\ LET r == route[c]
           e == Succeeded(entries[r.key])
       IN  /\ Store(r, e)
           /\ Publish(r, e)
           /\ streak' = [streak EXCEPT ![r.key] = 0]
           /\ probes' = [probes EXCEPT ![r.key] = 0]
    /\ Leave(c)

\* next returns a dial, tls or timeout error: recordFailure.
Failure(c) ==
    /\ route[c] # NoRoute
    /\ ~established[c]
    /\ LET r == route[c]
           e == Failed(entries[r.key])
       IN  /\ Store(r, e)
           /\ Publish(r, e)
           /\ streak' = [streak EXCEPT ![r.key] = IF @ < FailureThreshold THEN @ + 1 ELSE @]
           /\ probes' = [probes EXCEPT ![r.key] = IF e.state = "open" THEN 0 ELSE @]
    /\ Leave(c)

\* next returns any other error (a failed copy or HTTP exchange is a proxy
\* error, before or after the target has answered): nothing is recorded.
OtherError(c) ==
    /\ route[c] # NoRoute
    /\ Leave(c)
    /\ UNCHANGED <<breakerVars, history>>

\* Time passes for the entries that are open.
Tick ==
    /\ \E k \in Keys : entries[k].state = "open" /\ entries[k].age < RecoveryTime
    /\ entries' = [k \in Keys |->
           IF entries[k].state = "open" /\ entries[k].age < RecoveryTime
           THEN [entries[k] EXCEPT !.age = @ + 1]
           ELSE entries[k]]
    /\ UNCHANGED <<known, gauge, flightVars, history>>

Return(c) == Success(c) \/ Failure(c) \/ OtherError(c)

Next ==
    \/ \E c \in Conns, r \in Routes : Allow(c, r) \/ Reject(c, r)
    \/ \E c \in Conns : Establish(c) \/ Return(c)
    \/ Tick

Spec == Init /\ [][Next]_vars

\* Time passes, and every call of next returns: a dial is bounded by
\* DialTimeout, and a bridge is assumed to be closed by its peers some day.
\* New requests and their results are the environment's.
Fairness == WF_vars(Tick) /\ \A c \in Conns : WF_vars(Return(c))
FairSpec == Spec /\ Fairness

-----------------------------------------------------------------------------
(***************************************************************************)
(* Properties                                                              *)
(***************************************************************************)

\* An entry is away from closed exactly when at least FailureThreshold
\* failures were recorded with no success among them, whatever the order in
\* which the results of concurrent requests arrive, and its count is the
\* length of that run of failures (recordSuccess, recordFailure).
TripNeedsStreak ==
    \A k \in Keys :
        /\ entries[k].failures = streak[k]
        /\ entries[k].state # "closed" <=> streak[k] = FailureThreshold

\* An entry is half-open exactly while its trial slot is taken: there is no
\* half-open entry that would admit a request, so only a recorded result
\* takes an entry out of half-open (allow, recordSuccess, recordFailure).
HalfOpenIffTrial ==
    \A k \in Keys : entries[k].state = "half" <=> entries[k].trialInFlight

\* From the moment an entry opens until it opens again or closes, at most one
\* request reaches the endpoint, even when late results of requests admitted
\* earlier are recorded meanwhile (the trial slot of allow).
OneProbePerOpening == \A k \in Keys : probes[k] <= 1

\* The gauge of a service whose only endpoint serves no other service shows
\* the state of that endpoint's entry (SetCircuitBreakerState).
Sole(k, s) == \A r \in Routes : r.key = k <=> r.service = s
GaugeOfSoleKey ==
    \A r \in Routes :
        Sole(r.key, r.service) /\ r.key \in known
            => gauge[r.service] = entries[r.key].state

\* The inductive invariant: the probe count is one while half-open, else zero.
ProbeCount == \A k \in Keys : probes[k] = IF entries[k].state = "half" THEN 1 ELSE 0
IInv == TypeOK /\ TripNeedsStreak /\ HalfOpenIffTrial /\ ProbeCount

Blocked(k) == Rejects(entries[k])

\* No goroutine holds the trial slot of a half-open entry any more.
Wedged(k) ==
    /\ entries[k].state = "half"
    /\ \A c \in Conns : route[c] # NoRoute => route[c].key # k

\* An endpoint that is blocked is given a request again, or has lost its trial:
\* there is no other way to be blocked for ever.
UnblockedOrWedged == \A k \in Keys : Blocked(k) ~> (~Blocked(k) \/ Wedged(k))

\* An endpoint that is blocked is some day given a request again.
Unblocked == \A k \in Keys : Blocked(k) ~> ~Blocked(k)
=============================================================================
