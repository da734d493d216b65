------------------------------- MODULE Chain -------------------------------
(***************************************************************************)
(* One connection through the middlewares of the k8s sidecar               *)
(* (service.go, Run): metrics, timeout, retry, routing, breaker, and the   *)
(* forwarder at the end.  Each accepted connection is a goroutine that     *)
(* walks this chain; goroutines meet in the breaker (module Breaker) and   *)
(* in the discovery cache, which is replaced under them.                   *)
(***************************************************************************)
EXTENDS Naturals, FiniteSets

CONSTANTS Conns, Keys, Services, Routes, NoRoute, FailureThreshold, RecoveryTime,
          Dests,      \* original destinations of outbound connections
          Inbound,    \* stands for the destination of an inbound connection
          Snapshots,  \* contents the discovery cache can have
          Attempts,   \* retryPolicy.attempts
          TimeoutOn,  \* timeout > 0, so the timeout middleware is in the chain
          MTLS,       \* inboundMTLSPort > 0
          None        \* nothing reported yet

ASSUME ChainAssumption ==
    /\ Routes \subseteq [key : Keys, service : Services]
    /\ NoRoute \notin Routes
    /\ FailureThreshold \in Nat \ {0}
    /\ RecoveryTime \in Nat \ {0}
    /\ Inbound \notin Dests
    /\ Snapshots \subseteq [Dests -> SUBSET Routes]
    /\ Snapshots # {}
    /\ Attempts \in Nat
    /\ TimeoutOn \in BOOLEAN
    /\ MTLS \in BOOLEAN

VARIABLES entries, known, gauge, route, established, streak, probes,
          cache,    \* ServiceCache.byKey, endpoints as routes
          conn,     \* the goroutines, one record each
          retries   \* mesh_retry_attempts_total, by service label

B == INSTANCE Breaker

breaker == <<entries, known, gauge, route, established, streak, probes>>
vars == <<breaker, cache, conn, retries>>

Labels == Services \union {"external", "local-app"}
Kinds == {"none", "dial", "timeout", "proxy", "breaker_open"}
\* A tls error is treated like a dial error wherever the kind is looked at.
IsEstablishError(kind) == kind \in {"dial", "timeout", "breaker_open"}

MaxAttempt == IF Attempts > 1 THEN Attempts ELSE 1

\* pc: where the goroutine is; "dial" is also the RoundTrip of a request.
\* http: handleHTTP has taken the present attempt over.  again: the request in
\* hand is in its second RoundTrip.  connected: history, some attempt has reached
\* its target.  label: the service the metrics middleware reported.
Conn ==
    [pc : {"idle", "route", "admit", "dial", "bridge", "backoff", "finish", "done"},
     dst : Dests \union {Inbound}, attempt : 1..MaxAttempt,
     target : Routes \union {NoRoute}, http : BOOLEAN, again : BOOLEAN,
     expired : BOOLEAN, connected : BOOLEAN, err : Kinds, label : Labels \union {None}]

TypeOK ==
    /\ B!TypeOK
    /\ cache \in Snapshots
    /\ conn \in [Conns -> Conn]
    /\ retries \in [Labels -> Nat]

Fresh(d) ==
    [pc |-> "idle", dst |-> d, attempt |-> 1, target |-> NoRoute,
     http |-> FALSE, again |-> FALSE, expired |-> FALSE, connected |-> FALSE, err |-> "none",
     label |-> None]

Init ==
    /\ B!Init
    /\ cache \in Snapshots
    /\ conn = [c \in Conns |-> Fresh(Inbound)]
    /\ retries = [l \in Labels |-> 0]

At(c, pc) == conn[c].pc = pc
Goto(c, pc) == conn' = [conn EXCEPT ![c].pc = pc]

\* Forwarder.Handle takes the TLS branch.
InMesh(c) == MTLS /\ conn[c].target # NoRoute
\* What looksLikeHTTPRequest may answer.  Every attempt peeks anew, for 200 ms:
\* a client may be silent that long, and after a failed attempt its first bytes
\* may be lost with the earlier reader, so attempts of one connection differ.
LooksLikeHTTP(c) == IF InMesh(c) THEN BOOLEAN ELSE {FALSE}

\* The service label routing has put in the metadata it was given.
ServiceOf(c) ==
    IF conn[c].dst = Inbound THEN "local-app"
    ELSE IF conn[c].target = NoRoute THEN "external" ELSE conn[c].target.service

-----------------------------------------------------------------------------
(* retry *)

MayRetryOnceMore(c, kind) == IsEstablishError(kind) /\ conn[c].attempt <= Attempts
MayRetryAnyError(c, kind) == conn[c].attempt < Attempts
MayRetryTimeouts(c, kind) == kind = "timeout" /\ conn[c].attempt < Attempts
MayRetry(c, kind) == IsEstablishError(kind) /\ conn[c].attempt < Attempts

CountNoRetry(c) == UNCHANGED retries
\* IncRetry, before the wait.
CountRetry(c) == retries' = [retries EXCEPT ![ServiceOf(c)] = @ + 1]

\* An attempt has failed with an error of this kind: retry gives up, or counts
\* a retry and waits for the backoff.
AttemptFailed(c, kind) ==
    IF MayRetry(c, kind)
    THEN Goto(c, "backoff") /\ CountRetry(c)
    ELSE /\ conn' = [conn EXCEPT ![c].pc = "finish", ![c].err = kind]
         /\ UNCHANGED retries

\* The wait is over.  select may take this branch even if the context is done.
BackoffOver(c) ==
    /\ At(c, "backoff")
    /\ conn' = [conn EXCEPT ![c].pc = "route", ![c].attempt = @ + 1]
    /\ UNCHANGED <<breaker, cache, retries>>

\* The context is done before the wait is over.
BackoffCancelled(c) ==
    /\ At(c, "backoff")
    /\ conn[c].expired
    /\ conn' = [conn EXCEPT ![c].pc = "finish", ![c].err = "timeout"]
    /\ UNCHANGED <<breaker, cache, retries>>

-----------------------------------------------------------------------------
(* accept, timeout and metrics *)

\* A listener accepts a connection: metrics and timeout start.
Accept(c, d) ==
    /\ At(c, "idle")
    /\ conn' = [conn EXCEPT ![c] = [Fresh(d) EXCEPT !.pc = "route"]]
    /\ UNCHANGED <<breaker, cache, retries>>

\* The deadline of the timeout middleware passes.
Expire(c) ==
    /\ TimeoutOn
    /\ conn[c].pc \notin {"idle", "done"}
    /\ ~conn[c].expired
    /\ conn' = [conn EXCEPT ![c].expired = TRUE]
    /\ UNCHANGED <<breaker, cache, retries>>

\* The timeout middleware worked on a clone of the metadata, so the outer
\* metrics middleware sees no service, which normalizeService calls external.
ReportedService(c) == IF TimeoutOn THEN "external" ELSE ServiceOf(c)

\* The error comes back through timeout and metrics.
Finish(c) ==
    /\ At(c, "finish")
    /\ conn' = [conn EXCEPT
           ![c].pc = "done",
           ![c].err = IF conn[c].err # "none" /\ conn[c].expired THEN "timeout" ELSE @,
           ![c].label = ReportedService(c)]
    /\ UNCHANGED <<breaker, cache, retries>>

-----------------------------------------------------------------------------
(* routing *)

\* Routing to the application, to the original destination, or to one of the
\* endpoints of the cache: which one is the load balancer's choice.
Route(c) ==
    /\ At(c, "route")
    /\ LET found == IF conn[c].dst = Inbound THEN {} ELSE cache[conn[c].dst]
       IN  IF found = {}
           THEN conn' = [conn EXCEPT ![c].pc = "dial", ![c].target = NoRoute]
           ELSE \E r \in found :
                    conn' = [conn EXCEPT ![c].pc = "admit", ![c].target = r]
    /\ UNCHANGED <<breaker, cache, retries>>

\* Discovery replaces the cache.
Refresh ==
    /\ \E s \in Snapshots \ {cache} : cache' = s
    /\ UNCHANGED <<breaker, conn, retries>>

-----------------------------------------------------------------------------
(* breaker *)

Admit(c) ==
    /\ At(c, "admit")
    /\ B!Allow(c, conn[c].target)
    /\ \E h \in LooksLikeHTTP(c) :
          conn' = [conn EXCEPT ![c].pc = "dial", ![c].http = h]
    /\ UNCHANGED <<cache, retries>>

Refused(c) == B!Reject(c, conn[c].target)

Refuse(c) ==
    /\ At(c, "admit")
    /\ Refused(c)
    /\ AttemptFailed(c, "breaker_open")
    /\ UNCHANGED cache

\* What the breaker does with the result of next, if the request has a key.
RecordFailure(c) == IF conn[c].target = NoRoute THEN UNCHANGED breaker ELSE B!Failure(c)
RecordSuccess(c) == IF conn[c].target = NoRoute THEN UNCHANGED breaker ELSE B!Success(c)
RecordNothing(c) == IF conn[c].target = NoRoute THEN UNCHANGED breaker ELSE B!OtherError(c)

Tick == B!Tick /\ UNCHANGED <<cache, conn, retries>>

-----------------------------------------------------------------------------
(* forwarder *)

\* The target is reached, which it can no longer be once the context is done:
\* by the dial, or by a RoundTrip of the request in hand.
Connect(c) ==
    /\ At(c, "dial")
    /\ ~conn[c].expired
    /\ conn' = [conn EXCEPT ![c].pc = "bridge", ![c].connected = TRUE]
    /\ IF conn[c].target = NoRoute \/ conn[c].connected
       THEN UNCHANGED breaker
       ELSE B!Establish(c)
    /\ UNCHANGED <<cache, retries>>

FailsInTime(c, kind) == ~conn[c].expired
\* How a dial can fail: DialContext gives up as soon as the context is done.
FailsAs(c, kind) == conn[c].expired => kind = "timeout"

\* The dial fails or runs into a deadline.
DialFails(c) ==
    /\ At(c, "dial")
    /\ ~conn[c].http
    /\ RecordFailure(c)
    /\ \E kind \in {"dial", "timeout"} :
          /\ FailsAs(c, kind)
          /\ AttemptFailed(c, kind)
    /\ UNCHANGED cache

ReplayReported(c) ==
    /\ conn[c].pc \in {"dial", "bridge"}
    /\ conn[c].http
    /\ ~conn[c].again
    /\ conn' = [conn EXCEPT ![c].pc = "dial", ![c].again = TRUE]
    /\ RecordFailure(c)
    /\ UNCHANGED <<cache, retries>>
\* The first RoundTrip of a request fails, before the target is reached or
\* after, and canReplayHTTPRequest says that the request may be sent again:
\* roundTripHTTP does so, seen by neither retry nor the breaker.
Replay(c) ==
    /\ conn[c].pc \in {"dial", "bridge"}
    /\ conn[c].http
    /\ ~conn[c].again
    /\ conn' = [conn EXCEPT ![c].pc = "dial", ![c].again = TRUE]
    /\ UNCHANGED <<breaker, cache, retries>>

\* The last RoundTrip of a request cannot reach the target, or the request
\* cannot be read: handleHTTP makes a proxy error of either, which is neither
\* recorded nor retried.
RoundTripFails(c) ==
    /\ At(c, "dial")
    /\ conn[c].http
    /\ RecordNothing(c)
    /\ AttemptFailed(c, "proxy")
    /\ UNCHANGED cache

\* Both directions have been copied to their end, or the client has sent its
\* last request.
BridgeEnds(c) ==
    /\ At(c, "bridge")
    /\ RecordSuccess(c)
    /\ Goto(c, "finish")
    /\ UNCHANGED <<cache, retries>>

\* A copy fails, or what is left of an HTTP exchange that is not sent again.
BridgeFails(c) ==
    /\ At(c, "bridge")
    /\ RecordNothing(c)
    /\ AttemptFailed(c, "proxy")
    /\ UNCHANGED cache

\* The client sends one more request over its connection.
NextRequest(c) ==
    /\ At(c, "bridge")
    /\ conn[c].http
    /\ conn' = [conn EXCEPT ![c].pc = "dial", ![c].again = FALSE]
    /\ UNCHANGED <<breaker, cache, retries>>

-----------------------------------------------------------------------------
Step(c) ==
    \/ Route(c) \/ Admit(c) \/ Refuse(c)
    \/ Connect(c) \/ DialFails(c) \/ Replay(c) \/ RoundTripFails(c)
    \/ BridgeEnds(c) \/ BridgeFails(c)
    \/ BackoffOver(c) \/ BackoffCancelled(c) \/ Finish(c)

Next ==
    \/ \E c \in Conns, d \in Dests \union {Inbound} : Accept(c, d)
    \/ \E c \in Conns : Step(c) \/ Expire(c) \/ NextRequest(c)
    \/ Refresh
    \/ Tick

Spec == Init /\ [][Next]_vars

\* A goroutine that can step does, and clocks run.  Of clients and targets this
\* assumes that they close a bridge some day, and of a client that has begun a
\* request that it finishes or closes it: neither a copy nor http.ReadRequest has
\* a deadline.  Nothing is assumed of new connections, of further requests or
\* of discovery.
FairSpec ==
    /\ Spec
    /\ WF_vars(Tick)
    /\ \A c \in Conns : WF_vars(Step(c)) /\ WF_vars(Expire(c))

-----------------------------------------------------------------------------
(***************************************************************************)
(* Properties                                                              *)
(***************************************************************************)

\* A goroutine has a place in the breaker while it dials or bridges to an
\* endpoint, and only then.
Inside(g) == g.pc \in {"dial", "bridge"} /\ g.target # NoRoute
PlaceHeld(g, rt, open) ==
    /\ rt = IF Inside(g) THEN g.target ELSE NoRoute
    /\ open <=> Inside(g) /\ g.connected

\* Whatever retry, refusal, deadline, a second RoundTrip and a replaced cache do,
\* Handle of middleware_breaker.go is entered and left once per attempt, for the
\* endpoint of that attempt: no path keeps a place once its attempt is over, and
\* none gives it up while next still runs.
PlacesHeld == \A c \in Conns : PlaceHeld(conn[c], route[c], established[c])

\* Once an attempt has connected, no further attempt is made and no other target
\* is tried, whatever fails later and whenever the deadline passes
\* (retryMiddleware.Handle is for establish errors only).  What may still be done
\* twice is one RoundTrip of an HTTP request, by roundTripHTTP, and never more
\* often than twice.
SentAgain(c) == conn[c].pc = "bridge" /\ conn'[c].pc = "dial" /\ conn'[c].again
NoRetryOnceConnected ==
    [][\A c \in Conns : conn[c].connected /\ conn[c].pc # "done" =>
          /\ conn'[c].attempt = conn[c].attempt
          /\ conn'[c].target = conn[c].target
          /\ SentAgain(c) => conn[c].http /\ ~conn[c].again]_vars

\* A connection that could never be established, and was not cut by the
\* deadline, has used all its attempts, unless handleHTTP took the last one over:
\* its errors are never retried.
Unestablished(c) ==
    /\ At(c, "done")
    /\ conn[c].err # "none"
    /\ ~conn[c].connected
    /\ ~conn[c].expired
AllAttemptsUnlessHTTP ==
    \A c \in Conns : Unestablished(c) /\ ~conn[c].http => conn[c].attempt >= Attempts

\* One pair for every retry counted and for every additional attempt made, and
\* the connections whose counted retry has not become an attempt yet or never will.
Counted == UNION {{l} \X (1..retries[l]) : l \in Labels}
Made == UNION {{c} \X (1..(conn[c].attempt - 1)) : c \in Conns}
Waiting == {c \in Conns : conn[c].pc = "backoff"}
Pending == {c \in Conns : conn[c].pc = "backoff" \/ conn[c].err = "timeout"}

\* The retry counters cover every additional attempt retryMiddleware.Handle makes
\* for any connection, and exceed them by no more than the connections that wait
\* or whose wait was cut.  A second RoundTrip of handleHTTP is no such attempt:
\* the code makes it within one (Replay) and counts it nowhere.
RetriesCounted ==
    Cardinality(Counted) \in Cardinality(Made)..(Cardinality(Made) + Cardinality(Pending))

\* Every accepted connection ends, reported by the metrics middleware.
EveryConnectionEnds ==
    \A c \in Conns : At(c, "route") ~> (At(c, "done") /\ conn[c].label # None)

-----------------------------------------------------------------------------
(***************************************************************************)
(* The inductive invariant of ChainProofs, for a goroutine with record g   *)
(* that has the place rt in the breaker, with its target open or not.      *)
(***************************************************************************)

\* It bridges once it has connected and then only ends, but for the requests
\* handleHTTP sends; it waits when it has an attempt left, and an error ends it
\* when it has none, unless the deadline, handleHTTP or a connection that was
\* open before excuse it.
Over(g) == g.pc \in {"finish", "done"}
Excused(g) == g.connected \/ g.expired \/ g.http
AttemptsUsed(g) ==
    /\ g.pc = "admit" => g.target # NoRoute
    /\ g.pc = "bridge" => g.connected
    /\ g.connected => g.pc = "bridge" \/ (g.pc = "dial" /\ g.http) \/ Over(g)
    /\ g.http => g.pc \in {"dial", "bridge"} \/ Over(g)
    /\ g.pc = "backoff" => g.attempt < Attempts
    /\ g.err # "none" => Over(g) /\ (g.attempt >= Attempts \/ Excused(g))

ConnInv(c) == PlaceHeld(conn[c], route[c], established[c]) /\ AttemptsUsed(conn[c])
IInv == TypeOK /\ B!IInv /\ \A c \in Conns : ConnInv(c)

\* The counters over the whole chain: a connection that waits is counted already,
\* and one that is not accepted yet has made its first attempt only.
CountInv ==
    /\ \A c \in Conns : At(c, "idle") => conn[c].attempt = 1
    /\ \A S \in {Counted, Made, Waiting, Pending} : IsFiniteSet(S)
    /\ Cardinality(Made) + Cardinality(Waiting) <= Cardinality(Counted)
    /\ RetriesCounted
=============================================================================
