----------------------------- MODULE ChainProofs -----------------------------
(***************************************************************************)
(* Proofs about the middlewares of one connection: they enter and leave    *)
(* the breaker once per attempt, so that what is proved of the breaker     *)
(* alone holds in the chain; and retries, refusals and the deadline leave  *)
(* no way to make another attempt once a target has answered.              *)
(***************************************************************************)
EXTENDS Chain, FiniteSetTheorems, TLAPS

\* The proofs about the breaker, over the chain's own entries.
BP == INSTANCE BreakerProofs

-----------------------------------------------------------------------------
(* B and BP are the same definitions twice: the facts of BP hold of B. *)

\* The inductive invariant of the breaker is the one BreakerProofs proves.
LEMMA SameIInv == (BP!IInv <=> B!IInv) /\ (BP!IInv' <=> B!IInv')
  BY DEF B!TypeOK, BP!TypeOK, B!States, BP!States, B!Entry, BP!Entry,
         B!TripNeedsStreak, BP!TripNeedsStreak, B!HalfOpenIffTrial,
         BP!HalfOpenIffTrial, B!ProbeCount, BP!ProbeCount, B!IInv, BP!IInv

\* So are the initial states.
LEMMA SameInit == B!Init => BP!Init
  BY DEF B!Init, BP!Init, B!NewEntry, BP!NewEntry

\* Every step of the breaker is one BreakerProofs covers.
LEMMA SameNext == B!Next => BP!Next
  <1>1. \A c \in Conns, r \in Routes : B!Allow(c, r) => BP!Allow(c, r)
    BY DEF B!Allow, BP!Allow, B!Store, BP!Store, B!Publish, BP!Publish,
           B!WritesGauge, BP!WritesGauge, B!Admitted, BP!Admitted, B!Rejects,
           BP!Rejects
  <1>2. \A c \in Conns, r \in Routes : B!Reject(c, r) => BP!Reject(c, r)
    BY DEF B!Reject, BP!Reject, B!Rejects, BP!Rejects, B!vars, BP!vars
  <1>3. \A c \in Conns : B!Establish(c) => BP!Establish(c)
    BY DEF B!Establish, BP!Establish, B!breakerVars, BP!breakerVars, B!history,
           BP!history
  <1>4. \A c \in Conns : B!Success(c) => BP!Success(c)
    BY DEF B!Success, BP!Success, B!Store, BP!Store, B!Publish, BP!Publish,
           B!Succeeded, BP!Succeeded, B!Leave, BP!Leave
  <1>5. \A c \in Conns : B!Failure(c) => BP!Failure(c)
    BY DEF B!Failure, BP!Failure, B!Store, BP!Store, B!Publish, BP!Publish,
           B!Failed, BP!Failed, B!CountFailure, BP!CountFailure, B!Trip, BP!Trip,
           B!Leave, BP!Leave
  <1>6. \A c \in Conns : B!OtherError(c) => BP!OtherError(c)
    BY DEF B!OtherError, BP!OtherError, B!Leave, BP!Leave, B!breakerVars,
           BP!breakerVars, B!history, BP!history
  <1>7. B!Tick => BP!Tick
    BY DEF B!Tick, BP!Tick, B!flightVars, BP!flightVars, B!history, BP!history
  <1> QED
    BY <1>1, <1>2, <1>3, <1>4, <1>5, <1>6, <1>7
       DEF B!Next, BP!Next, B!Return, BP!Return

\* Hence a step of the breaker keeps the breaker's inductive invariant.
LEMMA BreakerStep == B!IInv /\ [B!Next]_breaker => B!IInv'
  <1>1. [B!Next]_breaker => [BP!Next]_(BP!vars)
    BY SameNext DEF breaker, BP!vars
  <1> QED
    BY <1>1, SameIInv, ChainAssumption, BP!NextIInv

-----------------------------------------------------------------------------
(* What the steps of one goroutine do to its place and to its record. *)

\* Types of the state and of the constants that the lemmas below use.
Typed == B!TypeOK /\ conn \in [Conns -> Conn]

\* The breaker makes a step or none, and no goroutine but c notices.
OnlyOf(c) ==
    /\ [B!Next]_breaker
    /\ \A d \in Conns \ {c} : route'[d] = route[d] /\ established'[d] = established[d]

\* next returns to Handle, or there is no breaker key: whatever is recorded,
\* the goroutine has no place in the breaker any more.
LEMMA Leaves ==
    ASSUME Typed, NEW c \in Conns, ConnInv(c), conn[c].pc \in {"dial", "bridge"},
           RecordFailure(c) \/ RecordSuccess(c) \/ RecordNothing(c)
    PROVE  OnlyOf(c) /\ route'[c] = NoRoute /\ established'[c] = FALSE
  <1>1. CASE conn[c].target = NoRoute
    BY <1>1 DEF RecordFailure, RecordSuccess, RecordNothing, OnlyOf, breaker, ConnInv,
                PlaceHeld, Inside, Typed, B!TypeOK
  <1>2. CASE conn[c].target # NoRoute
    <2>1. B!Return(c) /\ B!Leave(c)
      BY <1>2 DEF RecordFailure, RecordSuccess, RecordNothing, B!Return,
                  B!Success, B!Failure, B!OtherError
    <2>2. B!Next
      BY <2>1 DEF B!Next
    <2> QED
      BY <2>1, <2>2 DEF OnlyOf, B!Leave, Typed, B!TypeOK
  <1> QED
    BY <1>1, <1>2

\* A step that gives c the record g keeps every goroutine's invariant if it
\* establishes that of c and touches no other place.
LEMMA Moves ==
    ASSUME Typed, \A d \in Conns : ConnInv(d), NEW c \in Conns, NEW g \in Conn,
           conn' = [conn EXCEPT ![c] = g], OnlyOf(c),
           PlaceHeld(g, route'[c], established'[c]), AttemptsUsed(g)
    PROVE  conn' \in [Conns -> Conn] /\ (\A d \in Conns : ConnInv(d)')
  <1>1. conn' \in [Conns -> Conn] /\ conn'[c] = g
    BY DEF Typed
  <1>2. ASSUME NEW d \in Conns
        PROVE  ConnInv(d)'
    <2>1. CASE d = c
      BY <1>1, <2>1 DEF ConnInv
    <2>2. CASE d # c
      <3>1. conn'[d] = conn[d] /\ route'[d] = route[d] /\ established'[d] = established[d]
        BY <2>2 DEF OnlyOf, Typed
      <3> QED
        BY <3>1 DEF ConnInv
    <2> QED
      BY <2>1, <2>2
  <1> QED
    BY <1>1, <1>2

\* Whatever routing put in the record, its service is a label.
LEMMA ServiceTyped ==
    ASSUME Typed, NEW c \in Conns
    PROVE  ServiceOf(c) \in Labels
  <1>1. conn[c] \in Conn
    BY DEF Typed
  <1>2. conn[c].target \in Routes \union {NoRoute}
    BY <1>1 DEF Conn
  <1> QED
    BY <1>2, ChainAssumption DEF ServiceOf, Labels

\* A failed attempt ends in a wait with an attempt left, or in an error; the
\* goroutine has left the breaker and its history is unchanged.
LEMMA FailedAttempt ==
    ASSUME Typed, \A d \in Conns : ConnInv(d), NEW c \in Conns, NEW kind \in Kinds,
           AttemptFailed(c, kind), kind # "none", OnlyOf(c),
           ~Over(conn[c]), route'[c] = NoRoute, ~established'[c],
           IsEstablishError(kind) => ~conn[c].connected /\ ~conn[c].http,
           ~IsEstablishError(kind) => Excused(conn[c])
    PROVE  conn' \in [Conns -> Conn] /\ (\A d \in Conns : ConnInv(d)')
  <1>1. conn[c] \in Conn /\ ConnInv(c)
    BY DEF Typed
  <1>2. CASE MayRetry(c, kind)
    <2> DEFINE g == [conn[c] EXCEPT !.pc = "backoff"]
    <2>1. conn' = [conn EXCEPT ![c] = g]
      BY <1>2 DEF AttemptFailed, Goto, Typed
    <2>2. g \in Conn
      BY <1>1 DEF Conn
    <2>3. PlaceHeld(g, route'[c], established'[c])
      BY <1>1 DEF PlaceHeld, Inside, Conn
    <2>4. AttemptsUsed(g)
      BY <1>1, <1>2 DEF AttemptsUsed, ConnInv, Conn, MayRetry, Over, Excused
    <2> HIDE DEF g
    <2> QED
      BY <2>1, <2>2, <2>3, <2>4, Moves
  <1>3. CASE ~MayRetry(c, kind)
    <2> DEFINE g == [conn[c] EXCEPT !.pc = "finish", !.err = kind]
    <2>1. conn' = [conn EXCEPT ![c] = g]
      BY <1>3 DEF AttemptFailed, Typed
    <2>2. g \in Conn
      BY <1>1 DEF Conn
    <2>3. PlaceHeld(g, route'[c], established'[c])
      BY <1>1 DEF PlaceHeld, Inside, Conn
    <2>4. conn[c].attempt >= Attempts \/ Excused(conn[c])
      BY <1>1, <1>3, ChainAssumption DEF MayRetry, Conn, MaxAttempt
    <2>5. AttemptsUsed(g)
      BY <1>1, <2>4 DEF AttemptsUsed, ConnInv, Conn, Over, Excused
    <2> HIDE DEF g
    <2> QED
      BY <2>1, <2>2, <2>3, <2>5, Moves
  <1> QED
    BY <1>2, <1>3
-----------------------------------------------------------------------------
(* The inductive invariant. *)

\* Steps that leave the breaker alone: accepting, routing, waiting, ending, and
\* whatever handleHTTP does between two RoundTrips.
LEMMA QuietSteps ==
    ASSUME IInv, NEW c \in Conns,
           \/ BackoffOver(c) \/ BackoffCancelled(c) \/ Expire(c) \/ Finish(c) \/ Route(c)
           \/ Replay(c) \/ NextRequest(c)
           \/ \E d \in Dests \union {Inbound} : Accept(c, d)
    PROVE  /\ conn' \in [Conns -> Conn] /\ (\A d \in Conns : ConnInv(d)')
           /\ UNCHANGED <<breaker, cache, retries>>
  <1>0. /\ Typed /\ (\A d \in Conns : ConnInv(d)) /\ cache \in Snapshots
        /\ conn[c] \in Conn /\ ConnInv(c)
    BY DEF IInv, TypeOK, Typed
  <1>1. UNCHANGED <<breaker, cache, retries>>
    BY DEF BackoffOver, BackoffCancelled, Expire, Finish, Route, Accept, Replay, NextRequest
  <1>2. /\ OnlyOf(c) /\ route'[c] = route[c] /\ established'[c] = established[c]
    BY <1>1 DEF OnlyOf, breaker
  <1>3. ASSUME NEW g \in Conn, conn' = [conn EXCEPT ![c] = g],
               Inside(g) <=> Inside(conn[c]), g.target = conn[c].target \/ ~Inside(g),
               Inside(g) => g.connected = conn[c].connected, AttemptsUsed(g)
        PROVE  conn' \in [Conns -> Conn] /\ (\A d \in Conns : ConnInv(d)')
    <2>1. PlaceHeld(g, route'[c], established'[c])
      BY <1>0, <1>2, <1>3 DEF ConnInv, PlaceHeld
    <2> QED
      BY <1>0, <1>2, <1>3, <2>1, Moves
  <1>4. CASE BackoffOver(c)
    <2> DEFINE g == [conn[c] EXCEPT !.pc = "route", !.attempt = @ + 1]
    <2>1. conn' = [conn EXCEPT ![c] = g] /\ conn[c].pc = "backoff"
      BY <1>0, <1>4 DEF BackoffOver, At, Typed
    <2>2. conn[c].attempt < Attempts /\ conn[c].attempt \in 1..MaxAttempt
      BY <1>0, <2>1 DEF ConnInv, AttemptsUsed, Conn
    <2>3. conn[c].attempt + 1 \in 1..MaxAttempt
      BY <2>2, ChainAssumption DEF MaxAttempt
    <2>4. g \in Conn
      BY <1>0, <2>3 DEF Conn
    <2>5. ~Inside(g) /\ ~Inside(conn[c])
      BY <1>0, <2>1 DEF Inside, Conn
    <2>6. AttemptsUsed(g)
      BY <1>0, <2>1 DEF ConnInv, AttemptsUsed, Over, Conn
    <2> HIDE DEF g
    <2> QED
      BY <1>1, <1>3, <2>1, <2>4, <2>5, <2>6
  <1>5. CASE BackoffCancelled(c)
    <2> DEFINE g == [conn[c] EXCEPT !.pc = "finish", !.err = "timeout"]
    <2>1. conn' = [conn EXCEPT ![c] = g] /\ conn[c].pc = "backoff" /\ conn[c].expired
      BY <1>0, <1>5 DEF BackoffCancelled, At, Typed
    <2>2. g \in Conn
      BY <1>0 DEF Conn, Kinds
    <2>3. ~Inside(g) /\ ~Inside(conn[c])
      BY <1>0, <2>1 DEF Inside, Conn
    <2>4. AttemptsUsed(g)
      BY <1>0, <2>1 DEF ConnInv, AttemptsUsed, Over, Excused, Conn
    <2> HIDE DEF g
    <2> QED
      BY <1>1, <1>3, <2>1, <2>2, <2>3, <2>4
  <1>6. CASE Expire(c)
    <2> DEFINE g == [conn[c] EXCEPT !.expired = TRUE]
    <2>1. conn' = [conn EXCEPT ![c] = g]
      BY <1>0, <1>6 DEF Expire, Typed
    <2>2. g \in Conn
      BY <1>0 DEF Conn
    <2>3. /\ Inside(g) <=> Inside(conn[c])
          /\ g.target = conn[c].target /\ g.connected = conn[c].connected
      BY <1>0 DEF Inside, Conn
    <2>4. AttemptsUsed(g)
      BY <1>0 DEF ConnInv, AttemptsUsed, Over, Excused, Conn
    <2> HIDE DEF g
    <2> QED
      BY <1>1, <1>3, <2>1, <2>2, <2>3, <2>4
  <1>7. CASE Finish(c)
    <2> DEFINE g == [conn[c] EXCEPT
                       !.pc = "done",
                       !.err = IF @ # "none" /\ conn[c].expired THEN "timeout" ELSE @,
                       !.label = ReportedService(c)]
    <2>1. conn[c].pc = "finish"
      BY <1>7 DEF Finish, At
    <2>2. conn' = [conn EXCEPT ![c] = g]
      BY <1>0, <1>7 DEF Finish, Typed
    <2>3. ReportedService(c) \in Labels
      BY <1>0, ServiceTyped DEF ReportedService, Labels
    <2>4. g \in Conn
      BY <1>0, <2>3 DEF Conn, Kinds
    <2>5. ~Inside(g) /\ ~Inside(conn[c])
      BY <1>0, <2>1 DEF Inside, Conn
    <2>6. AttemptsUsed(g)
      BY <1>0, <2>1 DEF ConnInv, AttemptsUsed, Over, Excused, Conn
    <2> HIDE DEF g
    <2> QED
      BY <1>1, <1>3, <2>2, <2>4, <2>5, <2>6
  <1>8. CASE Route(c)
    <2>1. conn[c].pc = "route"
      BY <1>8 DEF Route, At
    <2>2. PICK pc \in {"dial", "admit"}, r \in Routes \union {NoRoute} :
               /\ conn' = [conn EXCEPT ![c].pc = pc, ![c].target = r]
               /\ pc = "dial" <=> r = NoRoute
      <3> DEFINE found == IF conn[c].dst = Inbound THEN {} ELSE cache[conn[c].dst]
      <3>1. found \in SUBSET Routes
        BY <1>0, ChainAssumption DEF Conn
      <3>2. CASE found = {}
        BY <1>8, <3>2 DEF Route
      <3>3. CASE found # {}
        <4>1. PICK r \in found : conn' = [conn EXCEPT ![c].pc = "admit", ![c].target = r]
          BY <1>8, <3>3 DEF Route
        <4>2. r \in Routes /\ r # NoRoute
          BY <3>1, ChainAssumption
        <4> QED
          BY <4>1, <4>2
      <3> QED
        BY <3>2, <3>3
    <2> DEFINE g == [conn[c] EXCEPT !.pc = pc, !.target = r]
    <2>3. conn' = [conn EXCEPT ![c] = g]
      BY <1>0, <2>2 DEF Typed
    <2>4. g \in Conn
      BY <1>0 DEF Conn
    <2>5. ~Inside(g) /\ ~Inside(conn[c])
      BY <1>0, <2>1, <2>2 DEF Inside, Conn
    <2>6. AttemptsUsed(g)
      BY <1>0, <2>1, <2>2 DEF ConnInv, AttemptsUsed, Over, Excused, Conn
    <2> HIDE DEF g
    <2> QED
      BY <1>1, <1>3, <2>3, <2>4, <2>5, <2>6
  <1>9. ASSUME NEW d \in Dests \union {Inbound}, Accept(c, d)
        PROVE  conn' \in [Conns -> Conn] /\ (\A e \in Conns : ConnInv(e)')
    <2> DEFINE g == [Fresh(d) EXCEPT !.pc = "route"]
    <2>1. conn' = [conn EXCEPT ![c] = g] /\ conn[c].pc = "idle"
      BY <1>9 DEF Accept, At
    <2>2. 1 \in 1..MaxAttempt
      BY ChainAssumption DEF MaxAttempt
    <2>3. g \in Conn
      BY <2>2 DEF Conn, Kinds, Fresh
    <2>4. ~Inside(g) /\ ~Inside(conn[c])
      BY <2>1 DEF Inside, Fresh
    <2>5. AttemptsUsed(g)
      BY DEF AttemptsUsed, Fresh
    <2> HIDE DEF g
    <2> QED
      BY <1>3, <2>1, <2>3, <2>4, <2>5
  <1>10. CASE Replay(c) \/ NextRequest(c)
    <2>1. PICK b \in BOOLEAN : conn' = [conn EXCEPT ![c].pc = "dial", ![c].again = b]
      BY <1>10 DEF Replay, NextRequest
    <2>2. conn[c].pc \in {"dial", "bridge"} /\ conn[c].http
      BY <1>10 DEF Replay, NextRequest, At
    <2> DEFINE g == [conn[c] EXCEPT !.pc = "dial", !.again = b]
    <2>3. conn' = [conn EXCEPT ![c] = g]
      BY <1>0, <2>1 DEF Typed
    <2>4. g \in Conn
      BY <1>0 DEF Conn
    <2>5. /\ Inside(g) <=> Inside(conn[c])
          /\ g.target = conn[c].target /\ g.connected = conn[c].connected
      BY <1>0, <2>2 DEF Inside, Conn
    <2>6. AttemptsUsed(g)
      BY <1>0, <2>2 DEF ConnInv, AttemptsUsed, Over, Excused, Conn
    <2> HIDE DEF g
    <2> QED
      BY <1>1, <1>3, <2>3, <2>4, <2>5, <2>6
  <1> QED
    BY <1>1, <1>4, <1>5, <1>6, <1>7, <1>8, <1>9, <1>10

\* Steps inside Handle and next: admission, the dial, the bridge, and whatever
\* ends them.
LEMMA BreakerSteps ==
    ASSUME IInv, NEW c \in Conns,
           \/ Admit(c) \/ Refuse(c) \/ Connect(c) \/ DialFails(c)
           \/ RoundTripFails(c) \/ BridgeEnds(c) \/ BridgeFails(c)
    PROVE  /\ conn' \in [Conns -> Conn] /\ (\A d \in Conns : ConnInv(d)')
           /\ [B!Next]_breaker
  <1>0. /\ Typed /\ (\A d \in Conns : ConnInv(d))
        /\ conn[c] \in Conn /\ ConnInv(c)
        /\ route \in [Conns -> Routes \union {NoRoute}] /\ established \in [Conns -> BOOLEAN]
    BY DEF IInv, TypeOK, Typed, B!TypeOK
  <1>1. CASE Admit(c)
    <2>0. PICK h \in BOOLEAN : conn' = [conn EXCEPT ![c].pc = "dial", ![c].http = h]
      BY <1>1 DEF Admit, LooksLikeHTTP
    <2> DEFINE g == [conn[c] EXCEPT !.pc = "dial", !.http = h]
    <2>1. /\ conn' = [conn EXCEPT ![c] = g] /\ conn[c].pc = "admit"
          /\ B!Allow(c, conn[c].target)
      BY <1>0, <1>1, <2>0 DEF Admit, At, Typed
    <2>2. conn[c].target \in Routes /\ conn[c].target # NoRoute
      BY <1>0, <2>1 DEF ConnInv, AttemptsUsed, Conn
    <2>3. /\ route' = [route EXCEPT ![c] = conn[c].target]
          /\ established' = [established EXCEPT ![c] = FALSE]
      BY <2>1 DEF B!Allow
    <2>4. OnlyOf(c)
      BY <1>0, <2>1, <2>2, <2>3 DEF OnlyOf, B!Next
    <2>5. g \in Conn
      BY <1>0 DEF Conn
    <2>6. PlaceHeld(g, route'[c], established'[c])
      BY <1>0, <2>1, <2>2, <2>3 DEF PlaceHeld, Inside, Conn, ConnInv, AttemptsUsed, Over
    <2>7. AttemptsUsed(g)
      BY <1>0, <2>1 DEF ConnInv, AttemptsUsed, Over, Excused, Conn
    <2>8. [B!Next]_breaker
      BY <2>4 DEF OnlyOf
    <2> HIDE DEF g
    <2> QED
      BY <1>0, <2>1, <2>4, <2>5, <2>6, <2>7, <2>8, Moves
  <1>2. CASE Connect(c)
    <2> DEFINE g == [conn[c] EXCEPT !.pc = "bridge", !.connected = TRUE]
    <2>1. /\ conn' = [conn EXCEPT ![c] = g] /\ conn[c].pc = "dial"
          /\ IF conn[c].target = NoRoute \/ conn[c].connected
             THEN UNCHANGED breaker
             ELSE B!Establish(c)
      BY <1>0, <1>2 DEF Connect, At, Typed
    <2>2. OnlyOf(c) /\ PlaceHeld(g, route'[c], established'[c])
      <3>1. CASE conn[c].target = NoRoute \/ conn[c].connected
        BY <1>0, <2>1, <3>1 DEF OnlyOf, breaker, ConnInv, PlaceHeld, Inside, Conn
      <3>2. CASE conn[c].target # NoRoute /\ ~conn[c].connected
        <4>1. B!Next
          BY <2>1, <3>2 DEF B!Next
        <4>2. route' = route /\ established' = [established EXCEPT ![c] = TRUE]
          BY <2>1, <3>2 DEF B!Establish
        <4> QED
          BY <1>0, <2>1, <3>2, <4>1, <4>2 DEF OnlyOf, ConnInv, PlaceHeld, Inside, Conn
      <3> QED
        BY <3>1, <3>2
    <2>3. g \in Conn
      BY <1>0 DEF Conn
    <2>4. AttemptsUsed(g)
      BY <1>0, <2>1 DEF ConnInv, AttemptsUsed, Over, Excused, Conn
    <2>5. [B!Next]_breaker
      BY <2>2 DEF OnlyOf
    <2> HIDE DEF g
    <2> QED
      BY <1>0, <2>1, <2>2, <2>3, <2>4, <2>5, Moves
  <1>3. CASE BridgeEnds(c)
    <2> DEFINE g == [conn[c] EXCEPT !.pc = "finish"]
    <2>1. conn' = [conn EXCEPT ![c] = g] /\ conn[c].pc = "bridge" /\ RecordSuccess(c)
      BY <1>0, <1>3 DEF BridgeEnds, Goto, At, Typed
    <2>2. OnlyOf(c) /\ route'[c] = NoRoute /\ established'[c] = FALSE
      BY <1>0, <2>1, Leaves
    <2>3. g \in Conn
      BY <1>0 DEF Conn
    <2>4. PlaceHeld(g, route'[c], established'[c])
      BY <1>0, <2>2 DEF PlaceHeld, Inside, Conn
    <2>5. AttemptsUsed(g)
      BY <1>0, <2>1 DEF ConnInv, AttemptsUsed, Over, Excused, Conn
    <2>6. [B!Next]_breaker
      BY <2>2 DEF OnlyOf
    <2> HIDE DEF g
    <2> QED
      BY <1>0, <2>1, <2>2, <2>3, <2>4, <2>5, <2>6, Moves
  <1>4. CASE Refuse(c)
    <2>1. /\ conn[c].pc = "admit" /\ B!Reject(c, conn[c].target)
          /\ AttemptFailed(c, "breaker_open")
      BY <1>4 DEF Refuse, Refused, At
    <2>2. UNCHANGED breaker
      BY <2>1 DEF B!Reject, B!vars, breaker
    <2>3. OnlyOf(c) /\ [B!Next]_breaker /\ route'[c] = NoRoute /\ ~established'[c]
      BY <1>0, <2>1, <2>2 DEF OnlyOf, breaker, ConnInv, PlaceHeld, Inside
    <2>4. ~Over(conn[c]) /\ ~conn[c].connected /\ ~conn[c].http
      BY <1>0, <2>1 DEF ConnInv, AttemptsUsed, Over
    <2> QED
      BY <1>0, <2>1, <2>3, <2>4, FailedAttempt DEF IsEstablishError, Kinds
  <1>5. CASE DialFails(c)
    <2>1. conn[c].pc = "dial" /\ RecordFailure(c)
      BY <1>5 DEF DialFails, At
    <2>2. PICK kind \in {"dial", "timeout"} : AttemptFailed(c, kind)
      BY <1>5 DEF DialFails
    <2>3. /\ OnlyOf(c) /\ [B!Next]_breaker
          /\ route'[c] = NoRoute /\ established'[c] = FALSE
      BY <1>0, <2>1, Leaves DEF OnlyOf
    <2>4. ~Over(conn[c]) /\ ~conn[c].connected /\ ~conn[c].http
      BY <1>0, <1>5, <2>1 DEF DialFails, ConnInv, AttemptsUsed, Over
    <2> QED
      BY <1>0, <2>1, <2>2, <2>3, <2>4, FailedAttempt DEF IsEstablishError, Kinds
  <1>6. CASE RoundTripFails(c) \/ BridgeFails(c)
    <2>1. /\ conn[c].pc \in {"dial", "bridge"} /\ RecordNothing(c)
          /\ AttemptFailed(c, "proxy")
      BY <1>6 DEF RoundTripFails, BridgeFails, At
    <2>2. /\ OnlyOf(c) /\ [B!Next]_breaker
          /\ route'[c] = NoRoute /\ established'[c] = FALSE
      BY <1>0, <2>1, Leaves DEF OnlyOf
    <2>3. ~Over(conn[c]) /\ Excused(conn[c])
      BY <1>0, <1>6 DEF RoundTripFails, BridgeFails, At, ConnInv, AttemptsUsed,
                        Over, Excused
    <2> QED
      BY <1>0, <2>1, <2>2, <2>3, FailedAttempt DEF IsEstablishError, Kinds
  <1> QED
    BY <1>1, <1>2, <1>3, <1>4, <1>5, <1>6

\* The breaker's specification covers every step of the chain.
LEMMA StepsMap ==
    ASSUME IInv, [Next]_vars
    PROVE  [B!Next]_breaker
  <1>1. CASE \E c \in Conns : Step(c) \/ Expire(c) \/ NextRequest(c)
    BY <1>1, QuietSteps, BreakerSteps DEF Step
  <1>2. CASE \E c \in Conns, d \in Dests \union {Inbound} : Accept(c, d)
    BY <1>2 DEF Accept
  <1>3. CASE Refresh \/ UNCHANGED vars
    BY <1>3 DEF Refresh, vars
  <1>4. CASE Tick
    BY <1>4 DEF Tick, B!Next
  <1> QED
    BY <1>1, <1>2, <1>3, <1>4 DEF Next

\* The inductive invariant holds initially.
LEMMA InitIInv == Init => IInv
  <1> SUFFICES ASSUME Init
               PROVE  IInv
    OBVIOUS
  <1>1. B!IInv
    BY ChainAssumption, BP!InitIInv, SameIInv, SameInit DEF Init
  <1>2. \A c \in Conns : conn[c] \in Conn /\ ConnInv(c)
    <2>1. 1 \in 1..MaxAttempt
      BY ChainAssumption DEF MaxAttempt
    <2>2. Fresh(Inbound) \in Conn
      BY <2>1 DEF Conn, Fresh, Kinds
    <2> QED
      BY <2>2 DEF Init, B!Init, ConnInv, PlaceHeld, AttemptsUsed, Inside, Fresh
  <1>3. TypeOK
    <2>1. conn \in [Conns -> Conn]
      BY <1>2 DEF Init
    <2> QED
      BY <1>1, <2>1 DEF Init, TypeOK, B!IInv
  <1> QED
    BY <1>1, <1>2, <1>3 DEF IInv

\* Every step keeps the inductive invariant.
LEMMA NextIInv == IInv /\ [Next]_vars => IInv'
  <1> SUFFICES ASSUME IInv, [Next]_vars
               PROVE  IInv'
    OBVIOUS
  <1>1. B!IInv' /\ B!TypeOK'
    BY StepsMap, BreakerStep DEF IInv, B!IInv
  <1>2. conn' \in [Conns -> Conn] /\ (\A d \in Conns : ConnInv(d)')
    <2>1. CASE UNCHANGED <<conn, route, established>>
      BY <2>1 DEF IInv, TypeOK, ConnInv
    <2>2. CASE Refresh \/ Tick \/ UNCHANGED vars
      BY <2>1, <2>2 DEF Refresh, Tick, B!Tick, B!flightVars, vars, breaker
    <2>3. CASE \E c \in Conns : Step(c) \/ Expire(c) \/ NextRequest(c)
      BY <2>3, QuietSteps, BreakerSteps DEF Step
    <2>4. CASE \E c \in Conns, d \in Dests \union {Inbound} : Accept(c, d)
      BY <2>4, QuietSteps
    <2> QED
      BY <2>2, <2>3, <2>4 DEF Next
  <1>3. cache' \in Snapshots
    BY DEF IInv, TypeOK, Next, Refresh, Tick, Accept, Expire, Step, Route, Admit, Refuse,
           Connect, DialFails, Replay, RoundTripFails, NextRequest, BridgeEnds, BridgeFails, BackoffOver,
           BackoffCancelled, Finish, vars
  <1>4. retries' \in [Labels -> Nat]
    <2>0. Typed /\ retries \in [Labels -> Nat]
      BY DEF IInv, TypeOK, Typed
    <2>1. ASSUME NEW c \in Conns, NEW kind \in Kinds, AttemptFailed(c, kind)
          PROVE  retries' \in [Labels -> Nat]
      BY <2>0, <2>1, ServiceTyped DEF AttemptFailed, CountRetry
    <2>2. \/ UNCHANGED retries
          \/ \E c \in Conns, kind \in Kinds : AttemptFailed(c, kind)
      BY DEF Next, Refresh, Tick, Accept, Expire, Step, Route, Admit, Refuse, Connect,
             DialFails, Replay, RoundTripFails, NextRequest, BridgeEnds, BridgeFails, BackoffOver,
             BackoffCancelled, Finish, vars, Kinds
    <2> QED
      BY <2>0, <2>1, <2>2
  <1> QED
    BY <1>1, <1>2, <1>3, <1>4 DEF IInv, TypeOK

-----------------------------------------------------------------------------
(* The retry counters. *)

\* A connection counts as pending.
Due(g) == g.pc = "backoff" \/ g.err = "timeout"

\* c gets the record g: a step that neither counts a retry nor makes an attempt,
\* one that counts a retry and starts a wait, and one that ends a wait.
Silent(c, g) ==
    /\ retries' = retries
    /\ g.attempt = conn[c].attempt
    /\ g.pc = "backoff" => conn[c].pc = "backoff"
    /\ Due(conn[c]) => Due(g)
Counts(c, g) ==
    /\ retries' = [retries EXCEPT ![ServiceOf(c)] = @ + 1]
    /\ g.attempt = conn[c].attempt
    /\ ~Due(conn[c])
    /\ g.pc = "backoff"
TriesAgain(c, g) ==
    /\ retries' = retries
    /\ g.attempt = conn[c].attempt + 1
    /\ conn[c].pc = "backoff" /\ conn[c].err = "none"
    /\ ~Due(g)

Does(c, g) ==
    /\ conn' = [conn EXCEPT ![c] = g]
    /\ g.pc # "idle"
    /\ Silent(c, g) \/ Counts(c, g) \/ TriesAgain(c, g)

\* A failed attempt counts a retry and waits, or ends the connection.
LEMMA FailedCounts ==
    ASSUME Typed, NEW c \in Conns, NEW kind \in Kinds, AttemptFailed(c, kind),
           ~Over(conn[c]), conn[c].pc # "backoff", ConnInv(c)
    PROVE  \E g : Does(c, g)
  <1>0. conn[c] \in Conn /\ ~Due(conn[c])
    BY DEF Typed, Due, ConnInv, AttemptsUsed
  <1>1. CASE MayRetry(c, kind)
    <2> DEFINE g == [conn[c] EXCEPT !.pc = "backoff"]
    <2>1. conn' = [conn EXCEPT ![c] = g] /\ CountRetry(c)
      BY <1>1 DEF AttemptFailed, Goto, Typed
    <2>2. Counts(c, g) /\ g.pc # "idle"
      BY <1>0, <2>1 DEF Counts, CountRetry, Conn
    <2> QED
      BY <2>1, <2>2 DEF Does
  <1>2. CASE ~MayRetry(c, kind)
    <2> DEFINE g == [conn[c] EXCEPT !.pc = "finish", !.err = kind]
    <2>1. conn' = [conn EXCEPT ![c] = g] /\ retries' = retries
      BY <1>2 DEF AttemptFailed, Typed
    <2>2. Silent(c, g) /\ g.pc # "idle"
      BY <1>0, <2>1 DEF Silent, Conn, Due
    <2> QED
      BY <2>1, <2>2 DEF Does
  <1> QED
    BY <1>1, <1>2

\* Every step of a goroutine is one of the three.
LEMMA StepDoes ==
    ASSUME Typed, NEW c \in Conns, ConnInv(c), At(c, "idle") => conn[c].attempt = 1,
           \/ Step(c) \/ Expire(c) \/ NextRequest(c)
           \/ \E d \in Dests \union {Inbound} : Accept(c, d)
    PROVE  \E g : Does(c, g)
  <1>0. conn[c] \in Conn /\ conn \in [Conns -> Conn]
    BY DEF Typed
  <1>1. CASE Refuse(c) \/ DialFails(c) \/ RoundTripFails(c) \/ BridgeFails(c)
    <2>1. ~Over(conn[c]) /\ conn[c].pc # "backoff"
      BY <1>1 DEF Refuse, DialFails, RoundTripFails, BridgeFails, At, Over
    <2>2. \E kind \in Kinds : AttemptFailed(c, kind)
      BY <1>1 DEF Refuse, DialFails, RoundTripFails, BridgeFails, Kinds
    <2> QED
      BY <2>1, <2>2, FailedCounts
  <1>2. CASE BackoffOver(c)
    <2> DEFINE g == [conn[c] EXCEPT !.pc = "route", !.attempt = @ + 1]
    <2>1. conn' = [conn EXCEPT ![c] = g] /\ retries' = retries /\ conn[c].pc = "backoff"
      BY <1>0, <1>2 DEF BackoffOver, At
    <2>2. TriesAgain(c, g) /\ g.pc # "idle"
      BY <1>0, <2>1 DEF TriesAgain, Conn, Due, ConnInv, AttemptsUsed, Over
    <2> QED
      BY <2>1, <2>2 DEF Does
  <1>3. ASSUME NEW g \in Conn, conn' = [conn EXCEPT ![c] = g], retries' = retries,
               g.attempt = conn[c].attempt, g.pc \notin {"idle", "backoff"},
               Due(conn[c]) => g.err = "timeout"
        PROVE  \E h : Does(c, h)
    BY <1>3 DEF Does, Silent, Due
  <1>4. CASE BackoffCancelled(c)
    <2> DEFINE g == [conn[c] EXCEPT !.pc = "finish", !.err = "timeout"]
    <2>1. conn' = [conn EXCEPT ![c] = g] /\ retries' = retries
      BY <1>0, <1>4 DEF BackoffCancelled
    <2>2. g \in Conn /\ g.attempt = conn[c].attempt /\ g.pc = "finish" /\ g.err = "timeout"
      BY <1>0 DEF Conn, Kinds
    <2> HIDE DEF g
    <2> QED
      BY <1>3, <2>1, <2>2
  <1>5. CASE Expire(c)
    <2> DEFINE g == [conn[c] EXCEPT !.expired = TRUE]
    <2>1. /\ conn' = [conn EXCEPT ![c] = g] /\ retries' = retries
          /\ conn[c].pc # "idle"
      BY <1>0, <1>5 DEF Expire
    <2>2. Silent(c, g) /\ g.pc # "idle"
      BY <1>0, <2>1 DEF Silent, Conn, Due
    <2> QED
      BY <2>1, <2>2 DEF Does
  <1>6. CASE Finish(c)
    <2> DEFINE g == [conn[c] EXCEPT
                       !.pc = "done",
                       !.err = IF @ # "none" /\ conn[c].expired THEN "timeout" ELSE @,
                       !.label = ReportedService(c)]
    <2>1. conn' = [conn EXCEPT ![c] = g] /\ retries' = retries /\ conn[c].pc = "finish"
      BY <1>0, <1>6 DEF Finish, At
    <2>2. Silent(c, g) /\ g.pc # "idle"
      BY <1>0, <2>1 DEF Silent, Conn, Due
    <2> QED
      BY <2>1, <2>2 DEF Does
  <1>7. CASE Route(c) \/ Connect(c) \/ BridgeEnds(c)
    <2>1. /\ conn[c].pc \in {"route", "admit", "dial", "bridge"} /\ retries' = retries
          /\ ~Due(conn[c])
      BY <1>7 DEF Route, Connect, BridgeEnds, At, Due, ConnInv, AttemptsUsed, Over
    <2>2. \E pc \in {"admit", "dial", "bridge", "finish"} : \E r, b :
            conn' = [conn EXCEPT ![c] = [conn[c] EXCEPT !.pc = pc, !.target = r,
                                                        !.connected = b]]
      <3>1. CASE Route(c)
        <4> DEFINE found == IF conn[c].dst = Inbound THEN {} ELSE cache[conn[c].dst]
        <4>1. \E pc \in {"admit", "dial"} : \E r :
                conn' = [conn EXCEPT ![c].pc = pc, ![c].target = r]
          <5>1. CASE found = {}
            BY <3>1, <5>1 DEF Route
          <5>2. CASE found # {}
            BY <3>1, <5>2 DEF Route
          <5> QED
            BY <5>1, <5>2
        <4> PICK pc \in {"admit", "dial"} : \E r :
                conn' = [conn EXCEPT ![c].pc = pc, ![c].target = r]
          BY <4>1
        <4> PICK r : conn' = [conn EXCEPT ![c].pc = pc, ![c].target = r]
          OBVIOUS
        <4>2. conn' = [conn EXCEPT ![c] = [conn[c] EXCEPT !.pc = pc, !.target = r,
                                               !.connected = conn[c].connected]]
          BY <1>0 DEF Conn
        <4>3. \E t, b : conn' = [conn EXCEPT ![c] = [conn[c] EXCEPT !.pc = pc, !.target = t,
                                                                   !.connected = b]]
          BY <4>2
        <4>4. pc \in {"admit", "dial", "bridge", "finish"}
          OBVIOUS
        <4> QED
          BY <4>3, <4>4, Zenon
      <3>2. CASE BridgeEnds(c)
        <4>1. conn' = [conn EXCEPT ![c] =
                          [conn[c] EXCEPT !.pc = "finish", !.target = conn[c].target,
                                          !.connected = conn[c].connected]]
          BY <1>0, <3>2 DEF BridgeEnds, Goto, Conn
        <4> QED
          BY <4>1
      <3>3. CASE Connect(c)
        <4>1. conn' = [conn EXCEPT ![c] =
                          [conn[c] EXCEPT !.pc = "bridge", !.target = conn[c].target,
                                          !.connected = TRUE]]
          BY <1>0, <3>3 DEF Connect, Conn
        <4> QED
          BY <4>1
      <3> QED
        BY <1>7, <3>1, <3>2, <3>3
    <2>3. PICK pc \in {"admit", "dial", "bridge", "finish"} : \E r, b :
            conn' = [conn EXCEPT ![c] = [conn[c] EXCEPT !.pc = pc, !.target = r,
                                                        !.connected = b]]
      BY <2>2
    <2>4. PICK r, b :
            conn' = [conn EXCEPT ![c] = [conn[c] EXCEPT !.pc = pc, !.target = r,
                                                        !.connected = b]]
      BY <2>3
    <2> DEFINE g == [conn[c] EXCEPT !.pc = pc, !.target = r, !.connected = b]
    <2>5. Silent(c, g) /\ g.pc # "idle"
      BY <1>0, <2>1 DEF Silent, Conn
    <2> QED
      BY <2>1, <2>4, <2>5 DEF Does
  <1>9. CASE Admit(c) \/ Replay(c) \/ NextRequest(c)
    <2>1. /\ conn[c].pc \in {"admit", "dial", "bridge"} /\ retries' = retries
          /\ ~Due(conn[c])
      BY <1>9 DEF Admit, Replay, NextRequest, At, Due, ConnInv, AttemptsUsed, Over
    <2>2. CASE Admit(c)
      <3>1. PICK h \in BOOLEAN : conn' = [conn EXCEPT ![c].pc = "dial", ![c].http = h]
        BY <2>2 DEF Admit, LooksLikeHTTP
      <3> DEFINE g == [conn[c] EXCEPT !.pc = "dial", !.http = h]
      <3>2. conn' = [conn EXCEPT ![c] = g]
        BY <1>0, <3>1
      <3>3. Silent(c, g) /\ g.pc # "idle"
        BY <1>0, <2>1 DEF Silent, Conn
      <3> QED
        BY <3>2, <3>3 DEF Does
    <2>3. CASE Replay(c) \/ NextRequest(c)
      <3>1. PICK b \in BOOLEAN : conn' = [conn EXCEPT ![c].pc = "dial", ![c].again = b]
        BY <2>3 DEF Replay, NextRequest
      <3> DEFINE g == [conn[c] EXCEPT !.pc = "dial", !.again = b]
      <3>2. conn' = [conn EXCEPT ![c] = g]
        BY <1>0, <3>1
      <3>3. Silent(c, g) /\ g.pc # "idle"
        BY <1>0, <2>1 DEF Silent, Conn
      <3> QED
        BY <3>2, <3>3 DEF Does
    <2> QED
      BY <1>9, <2>2, <2>3
  <1>8. ASSUME NEW d \in Dests \union {Inbound}, Accept(c, d)
        PROVE  \E g : Does(c, g)
    <2> DEFINE g == [Fresh(d) EXCEPT !.pc = "route"]
    <2>1. conn' = [conn EXCEPT ![c] = g] /\ retries' = retries /\ conn[c].pc = "idle"
      BY <1>8 DEF Accept, At
    <2>2. Silent(c, g) /\ g.pc # "idle"
      BY <2>1 DEF Silent, Fresh, Due, At, ConnInv, AttemptsUsed, Over
    <2> QED
      BY <2>1, <2>2 DEF Does
  <1> QED
    BY <1>1, <1>2, <1>4, <1>5, <1>6, <1>7, <1>8, <1>9 DEF Step

\* The sets of the count are those of the connections' records.
LEMMA CountSets ==
    /\ Waiting = {c \in Conns : conn[c].pc = "backoff"}
    /\ Pending = {c \in Conns : Due(conn[c])}
    /\ \A p : p \in Counted <=> \E l \in Labels : \E n \in 1..retries[l] : p = <<l, n>>
    /\ \A p : p \in Made <=> \E c \in Conns : \E n \in 1..(conn[c].attempt - 1) : p = <<c, n>>
  BY DEF Waiting, Pending, Due, Counted, Made

\* How a step of c changes them: not at all, but that pending connections may
\* become more; by one retry and one wait; or by one attempt for one wait.
LEMMA SetsChange ==
    ASSUME Typed, Typed', retries \in [Labels -> Nat], NEW c \in Conns, NEW g, Does(c, g)
    PROVE  \/ /\ Counted' = Counted /\ Made' = Made
              /\ Waiting' \subseteq Waiting /\ Pending \subseteq Pending'
              /\ Pending' \subseteq Pending \union {c}
           \/ /\ Made' = Made
              /\ \E p : p \notin Counted /\ Counted' = Counted \union {p}
              /\ c \notin Waiting /\ Waiting' = Waiting \union {c}
              /\ c \notin Pending /\ Pending' = Pending \union {c}
           \/ /\ Counted' = Counted
              /\ \E p : p \notin Made /\ Made' = Made \union {p}
              /\ c \in Waiting /\ Waiting' = Waiting \ {c}
              /\ c \in Pending /\ Pending' = Pending \ {c}
  <1>1. /\ conn'[c] = g /\ (\A d \in Conns \ {c} : conn'[d] = conn[d])
        /\ conn[c] \in Conn /\ g \in Conn
    BY DEF Typed, Does
  <1>2. ASSUME g.attempt = conn[c].attempt
        PROVE  Made' = Made
    <2>1. \A d \in Conns : conn'[d].attempt = conn[d].attempt
      BY <1>1, <1>2
    <2> QED
      BY <2>1 DEF Made
  <1>3. CASE Silent(c, g)
    <2>1. Counted' = Counted
      BY <1>3 DEF Silent, Counted
    <2>2. Waiting' \subseteq Waiting
      BY <1>1, <1>3 DEF Silent, Waiting
    <2>3. Pending \subseteq Pending' /\ Pending' \subseteq Pending \union {c}
      BY <1>1, <1>3 DEF Silent, Due, Pending
    <2> QED
      BY <1>2, <1>3, <2>1, <2>2, <2>3 DEF Silent
  <1>4. CASE Counts(c, g)
    <2> DEFINE l == ServiceOf(c)
               p == <<l, retries[l] + 1>>
    <2>1. l \in Labels
      BY ServiceTyped
    <2> HIDE DEF l
    <2>2. retries' = [retries EXCEPT ![l] = @ + 1] /\ retries[l] \in Nat
      BY <1>4, <2>1 DEF Counts, l
    <2>3. ASSUME NEW m \in Labels, NEW n
          PROVE  n \in 1..retries'[m]
                    <=> n \in 1..retries[m] \/ (m = l /\ n = retries[l] + 1)
      <3>1. retries[m] \in Nat /\ retries'[m] = IF m = l THEN retries[l] + 1 ELSE retries[m]
        BY <2>1, <2>2
      <3> QED
        BY <2>2, <3>1
    <2>4. p \notin Counted
      BY <2>1, <2>2, CountSets
    <2>5. \A q : q \in Counted' <=> \E m \in Labels : \E n \in 1..retries'[m] : q = <<m, n>>
      BY DEF Counted
    <2>6. ASSUME NEW q
          PROVE  q \in Counted' <=> q \in Counted \union {p}
      <3>1. ASSUME q \in Counted'
            PROVE  q \in Counted \union {p}
        <4>1. PICK m \in Labels : \E n \in 1..retries'[m] : q = <<m, n>>
          BY <2>5, <3>1
        <4> QED
          BY <2>3, <4>1, CountSets
      <3>2. ASSUME q \in Counted
            PROVE  q \in Counted'
        <4>1. PICK m \in Labels : \E n \in 1..retries[m] : q = <<m, n>>
          BY <3>2, CountSets
        <4> QED
          BY <2>3, <2>5, <4>1
      <3>3. p \in Counted'
        BY <2>1, <2>3, <2>5
      <3> QED
        BY <3>1, <3>2, <3>3
    <2>7. Counted' = Counted \union {p}
      BY <2>6
    <2>8. c \notin Waiting /\ Waiting' = Waiting \union {c}
      BY <1>1, <1>4 DEF Counts, Due, Waiting
    <2>9. c \notin Pending /\ Pending' = Pending \union {c}
      BY <1>1, <1>4 DEF Counts, Due, Pending
    <2> QED
      BY <1>2, <1>4, <2>4, <2>7, <2>8, <2>9 DEF Counts
  <1>5. CASE TriesAgain(c, g)
    <2> DEFINE p == <<c, conn[c].attempt>>
    <2>1. Counted' = Counted
      BY <1>5 DEF TriesAgain, Counted
    <2>2. conn[c].attempt \in Nat \ {0} /\ conn'[c].attempt = conn[c].attempt + 1
      BY <1>1, <1>5, ChainAssumption DEF TriesAgain, Conn, MaxAttempt
    <2>3. ASSUME NEW d \in Conns, NEW n
          PROVE  n \in 1..(conn'[d].attempt - 1)
                    <=> n \in 1..(conn[d].attempt - 1) \/ (d = c /\ n = conn[c].attempt)
      <3>1. CASE d = c
        BY <2>2, <3>1
      <3>2. CASE d # c
        BY <1>1, <3>2
      <3> QED
        BY <3>1, <3>2
    <2>4. p \notin Made
      BY <2>2, CountSets
    <2>5. \A q : q \in Made' <=>
                    \E d \in Conns : \E n \in 1..(conn'[d].attempt - 1) : q = <<d, n>>
      BY DEF Made
    <2>6. ASSUME NEW q
          PROVE  q \in Made' <=> q \in Made \union {p}
      <3>1. ASSUME q \in Made'
            PROVE  q \in Made \union {p}
        <4>1. PICK d \in Conns : \E n \in 1..(conn'[d].attempt - 1) : q = <<d, n>>
          BY <2>5, <3>1
        <4> QED
          BY <2>3, <4>1, CountSets
      <3>2. ASSUME q \in Made
            PROVE  q \in Made'
        <4>1. PICK d \in Conns : \E n \in 1..(conn[d].attempt - 1) : q = <<d, n>>
          BY <3>2, CountSets
        <4> QED
          BY <2>3, <2>5, <4>1
      <3>3. p \in Made'
        BY <2>3, <2>5
      <3> QED
        BY <3>1, <3>2, <3>3
    <2>7. Made' = Made \union {p}
      BY <2>6
    <2>8. c \in Waiting /\ Waiting' = Waiting \ {c}
      BY <1>1, <1>5 DEF TriesAgain, Due, Waiting
    <2>9. c \in Pending /\ Pending' = Pending \ {c}
      BY <1>1, <1>5 DEF TriesAgain, Due, Pending
    <2> QED
      BY <2>1, <2>4, <2>7, <2>8, <2>9
  <1> QED
    BY <1>3, <1>4, <1>5 DEF Does

\* No retry is counted and nothing waits when the sidecar starts.
LEMMA InitCount == Init => CountInv
  <1> SUFFICES ASSUME Init
               PROVE  CountInv
    OBVIOUS
  <1>1. \A c \in Conns : /\ conn[c].attempt = 1 /\ conn[c].pc = "idle"
                         /\ conn[c].err = "none"
    BY DEF Init, Fresh
  <1>2. \A l \in Labels : retries[l] = 0
    BY DEF Init
  <1>3. Counted = {} /\ Made = {} /\ Waiting = {} /\ Pending = {}
    <2>1. \A p : p \notin Counted /\ p \notin Made
      BY <1>1, <1>2, CountSets
    <2> QED
      BY <1>1, <2>1 DEF Waiting, Pending
  <1> QED
    BY <1>1, <1>3, FS_EmptySet DEF CountInv, RetriesCounted

\* Every step keeps the count.
LEMMA NextCount == IInv /\ IInv' /\ CountInv /\ [Next]_vars => CountInv'
  <1> SUFFICES ASSUME IInv, IInv', CountInv, [Next]_vars
               PROVE  CountInv'
    OBVIOUS
  <1>0. Typed /\ Typed' /\ retries \in [Labels -> Nat]
    BY DEF IInv, TypeOK, Typed
  <1>1. CASE UNCHANGED <<conn, retries>>
    <2>1. Counted' = Counted /\ Made' = Made /\ Waiting' = Waiting /\ Pending' = Pending
      BY <1>1 DEF Counted, Made, Waiting, Pending
    <2> QED
      BY <1>1, <2>1 DEF CountInv, RetriesCounted, At
  <1>2. CASE Refresh \/ Tick \/ UNCHANGED vars
    BY <1>1, <1>2 DEF Refresh, Tick, vars
  <1>3. ASSUME NEW c \in Conns, NEW g, Does(c, g)
        PROVE  CountInv'
    <2>1. \A d \in Conns : At(d, "idle")' => At(d, "idle") /\ conn'[d] = conn[d]
      BY <1>0, <1>3 DEF Does, At, Typed
    <2>2. \A S \in {Counted, Made, Waiting, Pending} :
              IsFiniteSet(S) /\ Cardinality(S) \in Nat
      BY FS_CardinalityType DEF CountInv
    <2>3. CASE /\ Counted' = Counted /\ Made' = Made
               /\ Waiting' \subseteq Waiting /\ Pending \subseteq Pending'
               /\ Pending' \subseteq Pending \union {c}
      <3>1. IsFiniteSet(Waiting') /\ Cardinality(Waiting') <= Cardinality(Waiting)
        BY <2>2, <2>3, FS_Subset
      <3>2. IsFiniteSet(Pending \union {c})
        BY <2>2, FS_AddElement
      <3>3. IsFiniteSet(Pending') /\ Cardinality(Pending) <= Cardinality(Pending')
        BY <2>2, <2>3, <3>2, FS_Subset
      <3>4. Cardinality(Waiting') \in Nat /\ Cardinality(Pending') \in Nat
        BY <3>1, <3>3, FS_CardinalityType
      <3> QED
        BY <2>1, <2>2, <2>3, <3>1, <3>3, <3>4 DEF CountInv, RetriesCounted
    <2>4. CASE /\ Made' = Made
               /\ \E p : p \notin Counted /\ Counted' = Counted \union {p}
               /\ c \notin Waiting /\ Waiting' = Waiting \union {c}
               /\ c \notin Pending /\ Pending' = Pending \union {c}
      <3>1. PICK p : p \notin Counted /\ Counted' = Counted \union {p}
        BY <2>4
      <3>2. IsFiniteSet(Counted') /\ Cardinality(Counted') = Cardinality(Counted) + 1
        BY <2>2, <3>1, FS_AddElement
      <3>3. IsFiniteSet(Waiting') /\ Cardinality(Waiting') = Cardinality(Waiting) + 1
        BY <2>2, <2>4, FS_AddElement
      <3>4. IsFiniteSet(Pending') /\ Cardinality(Pending') = Cardinality(Pending) + 1
        BY <2>2, <2>4, FS_AddElement
      <3> QED
        BY <2>1, <2>2, <2>4, <3>2, <3>3, <3>4 DEF CountInv, RetriesCounted
    <2>5. CASE /\ Counted' = Counted
               /\ \E p : p \notin Made /\ Made' = Made \union {p}
               /\ c \in Waiting /\ Waiting' = Waiting \ {c}
               /\ c \in Pending /\ Pending' = Pending \ {c}
      <3>1. PICK p : p \notin Made /\ Made' = Made \union {p}
        BY <2>5
      <3>2. IsFiniteSet(Made') /\ Cardinality(Made') = Cardinality(Made) + 1
        BY <2>2, <3>1, FS_AddElement
      <3>3. IsFiniteSet(Waiting') /\ Cardinality(Waiting') = Cardinality(Waiting) - 1
        BY <2>2, <2>5, FS_RemoveElement
      <3>4. IsFiniteSet(Pending') /\ Cardinality(Pending') = Cardinality(Pending) - 1
        BY <2>2, <2>5, FS_RemoveElement
      <3>5. Cardinality(Waiting') \in Nat /\ Cardinality(Pending') \in Nat
        BY <3>3, <3>4, FS_CardinalityType
      <3> QED
        BY <2>1, <2>2, <2>5, <3>2, <3>3, <3>4, <3>5 DEF CountInv, RetriesCounted
    <2> QED
      BY <1>0, <1>3, <2>3, <2>4, <2>5, SetsChange
  <1>4. ASSUME NEW c \in Conns,
               \/ Step(c) \/ Expire(c) \/ NextRequest(c)
               \/ \E d \in Dests \union {Inbound} : Accept(c, d)
        PROVE  CountInv'
    <2>1. ConnInv(c) /\ (At(c, "idle") => conn[c].attempt = 1)
      BY DEF IInv, CountInv
    <2>2. \E g : Does(c, g)
      BY <1>0, <1>4, <2>1, StepDoes
    <2> QED
      BY <1>3, <2>2
  <1> QED
    BY <1>2, <1>4 DEF Next

-----------------------------------------------------------------------------
(* The theorems. *)

\* The inductive invariant is an invariant of the chain.
THEOREM Inductive == Spec => []IInv
  BY InitIInv, NextIInv, PTL DEF Spec

\* Every variable keeps its type; in particular no connection is ever on an
\* attempt beyond retryPolicy.attempts.
THEOREM TypeCorrect == Spec => []TypeOK
  <1>1. IInv => TypeOK
    BY DEF IInv
  <1> QED
    BY <1>1, Inductive, PTL

\* The breaker keeps its promises for the connections of the chain.
THEOREM BreakerKept ==
    Spec => [](B!TripNeedsStreak /\ B!HalfOpenIffTrial /\ B!OneProbePerOpening)
  <1>1. IInv => B!TripNeedsStreak /\ B!HalfOpenIffTrial /\ B!OneProbePerOpening
    BY DEF IInv, B!IInv, B!ProbeCount, B!OneProbePerOpening
  <1> QED
    BY <1>1, Inductive, PTL

\* A goroutine has a place in the breaker exactly while it dials or bridges to
\* the endpoint of its present attempt, through refusals, retries, a deadline that
\* passes anywhere, a second RoundTrip and a cache replaced between attempts: a
\* connection that has ended, waits or was cut has none.
THEOREM PlacesKept == Spec => []PlacesHeld
  <1>1. IInv => PlacesHeld
    BY DEF IInv, ConnInv, PlacesHeld
  <1> QED
    BY <1>1, Inductive, PTL

\* A connection that could not be established has used all its attempts, unless
\* the deadline cut it short or handleHTTP hid the failed dial from retry.
THEOREM AttemptsExhausted == Spec => []AllAttemptsUnlessHTTP
  <1>1. IInv => AllAttemptsUnlessHTTP
    BY DEF IInv, ConnInv, AttemptsUsed, AllAttemptsUnlessHTTP, Unestablished, Excused
  <1> QED
    BY <1>1, Inductive, PTL

\* The retry counters never miss an attempt, however many connections retry at
\* once, and what they count too much are waits that are not over or were cut.
THEOREM RetriesBounded == Spec => []RetriesCounted
  <1>1. Spec => []CountInv
    <2>1. IInv /\ CountInv /\ IInv' /\ [Next]_vars => CountInv'
      BY NextCount
    <2> QED
      BY InitCount, <2>1, Inductive, PTL DEF Spec
  <1>2. CountInv => RetriesCounted
    BY DEF CountInv
  <1> QED
    BY <1>1, <1>2, PTL

\* Once a target has answered, nothing starts another attempt or tries another
\* target; a request of handleHTTP is sent again at most once.
THEOREM ConnectedOnce == Spec => NoRetryOnceConnected
  <1> DEFINE Stays(c) == /\ conn'[c].attempt = conn[c].attempt
                         /\ conn'[c].target = conn[c].target
                         /\ SentAgain(c) => conn[c].http /\ ~conn[c].again
  <1>1. IInv /\ [Next]_vars =>
            [\A c \in Conns : conn[c].connected /\ conn[c].pc # "done" => Stays(c)]_vars
    <2> SUFFICES ASSUME IInv, Next, NEW c \in Conns, conn[c].connected, conn[c].pc # "done"
                 PROVE  Stays(c)
      OBVIOUS
    <2>1. /\ conn \in [Conns -> Conn]
          /\ \/ conn[c].pc \in {"bridge", "finish"}
             \/ conn[c].pc = "dial" /\ conn[c].http
      BY DEF IInv, TypeOK, ConnInv, AttemptsUsed, Over
    <2>2. ASSUME conn'[c] = conn[c]
          PROVE  Stays(c)
      BY <2>2 DEF SentAgain
    <2>3. ASSUME NEW d \in Conns, NEW e \in Dests \union {Inbound}, Accept(d, e)
          PROVE  conn'[c] = conn[c]
      BY <2>1, <2>3 DEF Accept, At
    <2>4. ASSUME NEW d \in Conns, d # c, Step(d) \/ Expire(d) \/ NextRequest(d)
          PROVE  conn'[c] = conn[c]
      BY <2>1, <2>4
         DEF Expire, Step, Route, Admit, Refuse, Connect, DialFails, Replay, RoundTripFails,
             NextRequest, BridgeEnds, BridgeFails, BackoffOver, BackoffCancelled, Finish,
             AttemptFailed, Goto
    <2>5. CASE Step(c) \/ Expire(c) \/ NextRequest(c)
      <3>1. CASE Replay(c) \/ NextRequest(c)
        BY <2>1, <3>1 DEF Replay, NextRequest, SentAgain, At, Conn
      <3>2. CASE Connect(c) \/ BridgeEnds(c) \/ Finish(c) \/ Expire(c)
        BY <2>1, <3>2 DEF Connect, BridgeEnds, Finish, Expire, Goto, SentAgain, At, Conn
      <3>3. CASE RoundTripFails(c) \/ BridgeFails(c)
        BY <2>1, <3>3 DEF RoundTripFails, BridgeFails, AttemptFailed, Goto, SentAgain, At, Conn
      <3>4. ~(\/ Route(c) \/ Admit(c) \/ Refuse(c) \/ DialFails(c)
              \/ BackoffOver(c) \/ BackoffCancelled(c))
        BY <2>1 DEF Route, Admit, Refuse, DialFails, BackoffOver, BackoffCancelled, At
      <3> QED
        BY <2>5, <3>1, <3>2, <3>3, <3>4 DEF Step
    <2>6. CASE Refresh \/ Tick
      BY <2>2, <2>6 DEF Refresh, Tick
    <2> QED
      BY <2>2, <2>3, <2>4, <2>5, <2>6 DEF Next
  <1> QED
    BY <1>1, Inductive, PTL DEF Spec, NoRetryOnceConnected
=============================================================================
