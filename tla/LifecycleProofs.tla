-------------------------- MODULE LifecycleProofs --------------------------
(***************************************************************************)
(* Proofs about the start and stop of the sidecar, for any number of       *)
(* connections, with and without mTLS and monitoring.                      *)
(***************************************************************************)
EXTENDS Lifecycle, FiniteSetTheorems, TLAPS

\* The wait group never counts more connections than there are, and is zero
\* exactly when none is handled.
LEMMA ActiveIsFinite ==
    ASSUME conn \in [Conns -> {"none", "accepted", "active", "finished"}]
    PROVE  /\ IsFiniteSet(Active)
           /\ Cardinality(Active) \in 0..Cardinality(Conns)
           /\ Cardinality(Active) = 0 <=> \A c \in Conns : conn[c] # "active"
  <1>1. Active \subseteq Conns /\ IsFiniteSet(Conns)
    BY LifecycleAssumption DEF Active
  <1>2. IsFiniteSet(Active) /\ Cardinality(Active) <= Cardinality(Conns)
    BY <1>1, FS_Subset
  <1>3. Cardinality(Active) \in Nat /\ Cardinality(Conns) \in Nat
    BY <1>1, <1>2, FS_CardinalityType
  <1>4. Cardinality(Active) = 0 <=> Active = {}
    BY <1>2, FS_EmptySet
  <1> QED
    BY <1>2, <1>3, <1>4 DEF Active

LEMMA CountOfSome ==
    ASSUME NEW S \in SUBSET Conns
    PROVE  Cardinality(S) \in 0..Cardinality(Conns)
  <1>1. IsFiniteSet(S) /\ Cardinality(S) <= Cardinality(Conns)
    BY LifecycleAssumption, FS_Subset
  <1> QED
    BY <1>1, LifecycleAssumption, FS_CardinalityType

\* At the start nothing is open, accepted or counted.
LEMMA InitIInv == Init => IInv
  <1> SUFFICES ASSUME Init PROVE IInv
    OBVIOUS
  <1>1. conn \in [Conns -> {"none", "accepted", "active", "finished"}]
    BY DEF Init
  <1>2. Cardinality(Active) = 0
    BY <1>1, ActiveIsFinite DEF Init
  <1>3. Cardinality(Conns) \in Nat
    BY LifecycleAssumption, FS_CardinalityType
  <1>4. TypeOK
    <2>1. pc \in PCs /\ connectionWG \in 0..Cardinality(Conns)
      BY <1>3 DEF Init, PCs
    <2>2. /\ loop \in [Listeners -> {"none", "accepting", "ended"}]
          /\ held \in [Listeners -> Conns \union {None}]
          /\ background \in [Services -> {"none", "running", "ended"}]
      BY DEF Init
    <2>3. /\ cancelled \in BOOLEAN /\ open \subseteq Listeners /\ errCh \subseteq Services
          /\ runErr \in Errors \union {"nil"} /\ timedOut \subseteq Shutdown
      BY DEF Init
    <2> QED
      BY <1>1, <2>1, <2>2, <2>3 DEF TypeOK
  <1>5. HeldAccepted
    BY DEF Init, HeldAccepted
  <1>6. CountsActive
    BY <1>2 DEF Init, CountsActive
  <1>7. QuietBeforeStart /\ LoopsOver /\ DrainOver
    BY DEF Init, QuietBeforeStart, LoopsOver, DrainOver
  <1> QED
    BY <1>4, <1>5, <1>6, <1>7 DEF IInv

\* The parts of the invariant that are about the accept loops and the
\* connections hold as long as those are left alone.
LEMMA ServingUnchanged ==
    ASSUME HeldAccepted, CountsActive, UNCHANGED serving
    PROVE  HeldAccepted' /\ CountsActive'
  BY DEF serving, HeldAccepted, CountsActive, Active

\* Before Run has started the loops nothing is held by them.
LEMMA QuietHolds ==
    ASSUME IInv, pc \in {"bootstrap", "sync", "listen", "start"}
    PROVE  /\ \A l \in Listeners : held[l] = None /\ loop[l] = "none"
           /\ connectionWG = 0
  BY DEF IInv, QuietBeforeStart, HeldAccepted

LEMMA PrepareKeeps == ASSUME IInv, Prepare PROVE IInv'
  <1>0. UNCHANGED <<serving, services, cancelled, timedOut>> /\ pc \in {"bootstrap", "sync"}
    BY DEF Prepare
  <1>1. pc' \in {"sync", "listen", "exited"} /\ runErr' \in Errors \union {"nil"}
    BY DEF Prepare, GiveUp, Errors, IInv, TypeOK
  <1>2. TypeOK'
    BY <1>0, <1>1 DEF IInv, TypeOK, PCs, serving, services
  <1>3. HeldAccepted' /\ CountsActive'
    BY <1>0, ServingUnchanged DEF IInv
  <1>4. QuietBeforeStart' /\ LoopsOver' /\ DrainOver'
    BY <1>0, <1>1, QuietHolds
       DEF IInv, QuietBeforeStart, LoopsOver, DrainOver, serving
  <1> QED
    BY <1>2, <1>3, <1>4 DEF IInv

LEMMA ListenKeeps == ASSUME IInv, Listen PROVE IInv'
  <1>0. /\ pc = "listen"
        /\ UNCHANGED <<loop, held, conn, connectionWG, services, cancelled, timedOut>>
    BY DEF Listen
  <1>1. /\ pc' \in {"listen", "start", "exited"}
        /\ runErr' \in Errors \union {"nil"}
    BY DEF Listen, GiveUp, Errors, IInv, TypeOK
  <1>2. open' \subseteq Listeners
    BY DEF Listen, LeftOpen, Listeners, IInv, TypeOK
  <1>3. TypeOK'
    BY <1>0, <1>1, <1>2 DEF IInv, TypeOK, PCs, services
  <1>4. HeldAccepted' /\ CountsActive'
    BY <1>0 DEF IInv, HeldAccepted, CountsActive, Active
  <1>5. QuietBeforeStart' /\ LoopsOver' /\ DrainOver'
    BY <1>0, <1>1, QuietHolds DEF IInv, QuietBeforeStart, LoopsOver, DrainOver
  <1> QED
    BY <1>3, <1>4, <1>5 DEF IInv

LEMMA StartKeeps == ASSUME IInv, Start PROVE IInv'
  <1>0. /\ pc = "start" /\ pc' = "serve"
        /\ loop' = [l \in Listeners |-> "accepting"]
        /\ UNCHANGED <<open, held, conn, connectionWG, errCh, runErr, cancelled, timedOut>>
        /\ background' \in [Services -> {"none", "running", "ended"}]
    BY DEF Start
  <1>1. TypeOK'
    BY <1>0 DEF IInv, TypeOK, PCs
  <1>2. HeldAccepted' /\ CountsActive'
    BY <1>0, QuietHolds DEF IInv, HeldAccepted, CountsActive, Active
  <1>3. QuietBeforeStart' /\ LoopsOver' /\ DrainOver'
    BY <1>0 DEF QuietBeforeStart, LoopsOver, DrainOver
  <1> QED
    BY <1>1, <1>2, <1>3 DEF IInv

\* The steps of the shutdown: a wait that is over has seen what it waited for.
LEMMA ShutdownKeeps ==
    ASSUME IInv,
           Select \/ CloseListeners \/ ShutdownMetrics \/ WaitForAcceptLoops \/ WaitForConnections
    PROVE  IInv'
  <1>0. /\ pc \in {"serve"} \union Shutdown
        /\ pc' \in Shutdown \union {"exited"}
        /\ UNCHANGED <<cancelled, loop, held, conn, connectionWG, background>>
    BY DEF Select, CloseListeners, ShutdownMetrics, WaitForAcceptLoops, WaitForConnections,
           Over, TimesOut, DrainTimesOut, Shutdown, serving, services
  <1>1. /\ open' \subseteq Listeners
        /\ errCh' \subseteq Services
        /\ runErr' \in Errors \union {"nil"}
        /\ timedOut' \subseteq Shutdown
        /\ timedOut \subseteq timedOut'
    BY DEF Select, CloseListeners, ShutdownMetrics, WaitForAcceptLoops, WaitForConnections,
           Over, TimesOut, DrainTimesOut, Kept, Shutdown, Errors, serving, services, IInv, TypeOK
  <1>2. TypeOK'
    BY <1>0, <1>1 DEF IInv, TypeOK, PCs
  <1>3. HeldAccepted' /\ CountsActive'
    BY <1>0 DEF IInv, HeldAccepted, CountsActive, Active
  <1>4. QuietBeforeStart'
    BY <1>0 DEF QuietBeforeStart, Shutdown
  <1>5. LoopsOver'
    <2> SUFFICES ASSUME pc' \in {"connections", "exited"}, "acceptLoops" \notin timedOut',
                        NEW l \in Listeners
                 PROVE  loop[l] # "accepting"
      BY <1>0 DEF LoopsOver
    <2>1. CASE WaitForAcceptLoops
      BY <2>1 DEF WaitForAcceptLoops, AcceptLoopsEnded, Over, TimesOut
    <2>2. CASE WaitForConnections
      BY <2>2, <1>1 DEF WaitForConnections, IInv, LoopsOver
    <2>3. CASE Select \/ CloseListeners \/ ShutdownMetrics
      BY <2>3 DEF Select, CloseListeners, ShutdownMetrics, Over, TimesOut
    <2> QED
      BY <2>1, <2>2, <2>3
  <1>6. DrainOver'
    <2> SUFFICES ASSUME pc' = "exited", "connections" \notin timedOut'
                 PROVE  connectionWG = 0
      BY <1>0 DEF DrainOver
    <2> QED
      BY DEF Select, CloseListeners, ShutdownMetrics, WaitForAcceptLoops, WaitForConnections,
             Over, TimesOut, DrainTimesOut
  <1> QED
    BY <1>2, <1>3, <1>4, <1>5, <1>6 DEF IInv

LEMMA AcceptKeeps ==
    ASSUME IInv, NEW l \in Listeners, NEW c \in Conns, Accept(l, c)
    PROVE  IInv'
  <1>0. /\ loop[l] = "accepting" /\ held[l] = None /\ conn[c] = "none" /\ c # None
        /\ held' = [held EXCEPT ![l] = c]
        /\ conn' = [conn EXCEPT ![c] = "accepted"]
        /\ UNCHANGED <<pc, cancelled, open, loop, connectionWG, services, runErr, timedOut>>
    BY LifecycleAssumption DEF Accept
  <1>1. TypeOK'
    BY <1>0 DEF IInv, TypeOK, services
  <1>2. HeldAccepted'
    <2>1. \A m \in Listeners : held[m] # c
      BY <1>0 DEF IInv, HeldAccepted
    <2>2. /\ \A m \in Listeners : held'[m] = IF m = l THEN c ELSE held[m]
          /\ \A d \in Conns : conn'[d] = IF d = c THEN "accepted" ELSE conn[d]
          /\ loop' = loop
      BY <1>0 DEF IInv, TypeOK
    <2>3. \A m \in Listeners : held'[m] # None => loop'[m] = "accepting" /\ conn'[held'[m]] = "accepted"
      BY <1>0, <2>1, <2>2 DEF IInv, TypeOK, HeldAccepted
    <2>4. \A m, n \in Listeners : held'[m] = held'[n] /\ held'[m] # None => m = n
      BY <2>1, <2>2 DEF IInv, HeldAccepted
    <2>5. ASSUME NEW d \in Conns, conn'[d] = "accepted"
          PROVE  \E m \in Listeners : held'[m] = d
      <3>1. CASE d = c
        BY <3>1, <2>2
      <3>2. CASE d # c
        <4>1. PICK m \in Listeners : held[m] = d
          BY <3>2, <2>2, <2>5 DEF IInv, HeldAccepted
        <4>2. m # l
          BY <4>1, <1>0, LifecycleAssumption
        <4> QED
          BY <4>1, <4>2, <2>2
      <3> QED
        BY <3>1, <3>2
    <2> QED
      BY <2>3, <2>4, <2>5 DEF HeldAccepted
  <1>3. Active' = Active
    BY <1>0 DEF IInv, TypeOK, Active
  <1>4. CountsActive'
    BY <1>0, <1>3 DEF IInv, CountsActive
  <1>5. QuietBeforeStart' /\ LoopsOver' /\ DrainOver'
    BY <1>0 DEF IInv, QuietBeforeStart, LoopsOver, DrainOver
  <1> QED
    BY <1>1, <1>2, <1>4, <1>5 DEF IInv

LEMMA AcceptFailsKeeps ==
    ASSUME IInv, NEW l \in Listeners, AcceptFails(l)
    PROVE  IInv'
  <1>0. /\ loop[l] = "accepting" /\ held[l] = None
        /\ loop' = [loop EXCEPT ![l] = "ended"]
        /\ UNCHANGED <<pc, cancelled, open, held, conn, connectionWG, services, runErr, timedOut>>
    BY DEF AcceptFails
  <1>1. TypeOK'
    BY <1>0 DEF IInv, TypeOK, services
  <1>2. HeldAccepted' /\ CountsActive'
    BY <1>0 DEF IInv, TypeOK, HeldAccepted, CountsActive, Active
  <1>3. QuietBeforeStart'
    BY <1>0, QuietHolds DEF QuietBeforeStart
  <1>4. LoopsOver' /\ DrainOver'
    BY <1>0 DEF IInv, TypeOK, LoopsOver, DrainOver
  <1> QED
    BY <1>1, <1>2, <1>3, <1>4 DEF IInv

LEMMA SpawnKeeps ==
    ASSUME IInv, NEW l \in Listeners, Spawn(l)
    PROVE  IInv'
  <1> DEFINE c == held[l]
  <1>0. /\ c # None /\ c \in Conns
        /\ connectionWG' = connectionWG + 1
        /\ conn' = [conn EXCEPT ![c] = "active"]
        /\ held' = [held EXCEPT ![l] = None]
        /\ UNCHANGED <<pc, cancelled, open, loop, services, runErr, timedOut>>
    BY DEF Spawn, Added, IInv, TypeOK
  <1>1. loop[l] = "accepting" /\ conn[c] = "accepted"
    BY <1>0 DEF IInv, HeldAccepted
  <1>2. conn' \in [Conns -> {"none", "accepted", "active", "finished"}]
    BY <1>0 DEF IInv, TypeOK
  <1>3. Active' = Active \union {c} /\ c \notin Active
    BY <1>0, <1>1 DEF IInv, TypeOK, Active
  <1>4. IsFiniteSet(Active)
    BY ActiveIsFinite DEF IInv, TypeOK
  <1>5. Cardinality(Active') = Cardinality(Active) + 1
    BY <1>3, <1>4, FS_AddElement
  <1>6. CountsActive'
    BY <1>0, <1>5 DEF IInv, CountsActive
  <1>7. TypeOK'
    <2>1. Cardinality(Active') \in 0..Cardinality(Conns)
      BY CountOfSome DEF Active
    <2>2. connectionWG' \in 0..Cardinality(Conns)
      BY <2>1, <1>6 DEF CountsActive
    <2>3. held' \in [Listeners -> Conns \union {None}]
      BY <1>0 DEF IInv, TypeOK
    <2> QED
      BY <1>0, <1>2, <2>2, <2>3 DEF IInv, TypeOK, services
  <1>8. HeldAccepted'
    BY <1>0 DEF IInv, TypeOK, HeldAccepted
  <1>9. QuietBeforeStart'
    BY <1>0, <1>1, QuietHolds DEF QuietBeforeStart
  <1>10. LoopsOver' /\ DrainOver'
    BY <1>0, <1>1 DEF IInv, LoopsOver, DrainOver
  <1> QED
    BY <1>6, <1>7, <1>8, <1>9, <1>10 DEF IInv

LEMMA DoneKeeps ==
    ASSUME IInv, NEW c \in Conns, Done(c)
    PROVE  IInv'
  <1>0. /\ conn[c] = "active"
        /\ connectionWG' = connectionWG - 1
        /\ conn' = [conn EXCEPT ![c] = "finished"]
        /\ UNCHANGED <<pc, cancelled, open, loop, held, services, runErr, timedOut>>
    BY DEF Done
  <1>1. conn' \in [Conns -> {"none", "accepted", "active", "finished"}]
    BY <1>0 DEF IInv, TypeOK
  <1>2. Active' = Active \ {c} /\ c \in Active
    BY <1>0 DEF IInv, TypeOK, Active
  <1>3. IsFiniteSet(Active)
    BY ActiveIsFinite DEF IInv, TypeOK
  <1>4. Cardinality(Active') = Cardinality(Active) - 1
    BY <1>2, <1>3, FS_RemoveElement
  <1>5. CountsActive'
    BY <1>0, <1>4 DEF IInv, CountsActive
  <1>6. TypeOK'
    <2>1. Cardinality(Active') \in 0..Cardinality(Conns)
      BY CountOfSome DEF Active
    <2>2. connectionWG' \in 0..Cardinality(Conns)
      BY <2>1, <1>5 DEF CountsActive
    <2> QED
      BY <1>0, <1>1, <2>2 DEF IInv, TypeOK, services
  <1>7. HeldAccepted'
    BY <1>0 DEF IInv, TypeOK, HeldAccepted
  <1>8. connectionWG # 0
    BY <1>0, ActiveIsFinite DEF IInv, TypeOK, CountsActive
  <1>9. QuietBeforeStart' /\ LoopsOver' /\ DrainOver'
    BY <1>0, <1>8 DEF IInv, QuietBeforeStart, LoopsOver, DrainOver
  <1> QED
    BY <1>5, <1>6, <1>7, <1>9 DEF IInv

\* Cancellation and the background goroutines touch nothing of the invariant.
LEMMA OthersKeep ==
    ASSUME IInv, Cancel \/ \E s \in Services : ServiceFails(s) \/ ServiceEnds(s)
    PROVE  IInv'
  <1>0. /\ UNCHANGED <<pc, serving, runErr, timedOut>>
        /\ cancelled' \in BOOLEAN
        /\ background' \in [Services -> {"none", "running", "ended"}]
        /\ errCh' \subseteq Services
    BY DEF Cancel, ServiceFails, ServiceEnds, services, IInv, TypeOK
  <1>1. TypeOK'
    BY <1>0 DEF IInv, TypeOK, serving
  <1>2. HeldAccepted' /\ CountsActive'
    BY <1>0, ServingUnchanged DEF IInv
  <1>3. QuietBeforeStart' /\ LoopsOver' /\ DrainOver'
    BY <1>0 DEF IInv, QuietBeforeStart, LoopsOver, DrainOver, serving
  <1> QED
    BY <1>1, <1>2, <1>3 DEF IInv

LEMMA StutterKeeps == ASSUME IInv, UNCHANGED vars PROVE IInv'
  BY DEF IInv, TypeOK, HeldAccepted, CountsActive, Active, QuietBeforeStart, LoopsOver,
         DrainOver, vars, serving, services

\* The inductive invariant holds in every reachable state.
THEOREM Inductive == Spec => []IInv
  <1>1. IInv /\ [Next]_vars => IInv'
    <2> SUFFICES ASSUME IInv, [Next]_vars PROVE IInv'
      OBVIOUS
    <2>1. CASE Run
      BY <2>1, PrepareKeeps, ListenKeeps, StartKeeps, ShutdownKeeps DEF Run
    <2>2. CASE \E l \in Listeners : AcceptFails(l) \/ Spawn(l) \/ \E c \in Conns : Accept(l, c)
      BY <2>2, AcceptFailsKeeps, SpawnKeeps, AcceptKeeps
    <2>3. CASE \E c \in Conns : Done(c)
      BY <2>3, DoneKeeps
    <2>4. CASE Cancel \/ \E s \in Services : ServiceFails(s) \/ ServiceEnds(s)
      BY <2>4, OthersKeep
    <2>5. CASE UNCHANGED vars
      BY <2>5, StutterKeeps
    <2> QED
      BY <2>1, <2>2, <2>3, <2>4, <2>5 DEF Next
  <1> QED
    BY <1>1, InitIInv, PTL DEF Spec

\* Type correctness of the sidecar's start and stop; the wait group never goes
\* below zero, which would be a panic.
THEOREM TypeCorrect == Spec => []TypeOK
  <1>1. IInv => TypeOK
    BY DEF IInv
  <1> QED
    BY <1>1, Inductive, PTL

\* A shutdown whose waits were not cut short leaves no connection behind,
\* however accepts, ends of connections and the steps of Run interleave.
THEOREM Drained == Spec => []DrainedUnlessTimeout
  <1>1. IInv => DrainedUnlessTimeout
    <2> SUFFICES ASSUME IInv, pc = "exited",
                        timedOut \intersect {"acceptLoops", "connections"} = {},
                        NEW c \in Conns
                 PROVE  conn[c] \in {"none", "finished"}
      BY DEF DrainedUnlessTimeout
    <2>1. conn[c] # "active"
      BY ActiveIsFinite DEF IInv, TypeOK, CountsActive, DrainOver
    <2>2. conn[c] # "accepted"
      <3>1. \A l \in Listeners : held[l] = None
        BY DEF IInv, LoopsOver, HeldAccepted
      <3> QED
        BY <3>1, LifecycleAssumption DEF IInv, HeldAccepted
    <2> QED
      BY <2>1, <2>2 DEF IInv, TypeOK
  <1> QED
    BY <1>1, Inductive, PTL

LEMMA RootKept ==
    ASSUME RootInv, pc \in Shutdown, NEW err
    PROVE  Kept(err) = runErr
  BY DEF RootInv, RootCauseReturned, Kept

LEMMA RootInvKept == ASSUME TypeOK, RootInv, [Next]_vars PROVE RootInv'
  <1>1. CASE Cancel
    BY <1>1 DEF RootInv, RootCauseReturned, Cancel, services
  <1>2. CASE Prepare
    BY <1>2 DEF RootInv, RootCauseReturned, Prepare, GiveUp, services, Services, Shutdown
  <1>3. CASE Listen
    BY <1>3 DEF RootInv, RootCauseReturned, Listen, GiveUp, services, Services, Shutdown
  <1>4. CASE Start
    <2>1. errCh' = {}
      BY <1>4 DEF TypeOK, RootInv, Start
    <2> QED
      BY <1>4, <2>1 DEF RootInv, RootCauseReturned, Start, Services, Shutdown
  <1>5. CASE Select
    <2>1. CASE cancelled /\ runErr' = "canceled" /\ UNCHANGED errCh
      BY <1>5, <2>1 DEF RootInv, RootCauseReturned, Select, Services, Shutdown
    <2>2. CASE \E s \in errCh : runErr' = s /\ errCh' = errCh \ {s}
      BY <1>5, <2>2 DEF TypeOK, RootInv, RootCauseReturned, Select, Services, Shutdown
    <2> QED
      BY <1>5, <2>1, <2>2 DEF Select
  <1>6. CASE CloseListeners
    BY <1>6 DEF RootInv, RootCauseReturned, CloseListeners, services, Shutdown
  <1>7. CASE ShutdownMetrics \/ WaitForAcceptLoops \/ WaitForConnections
    <2>1. /\ pc \in Shutdown /\ pc' \in Shutdown \union {"exited"}
          /\ UNCHANGED <<cancelled, background, errCh>>
      BY <1>7 DEF ShutdownMetrics, WaitForAcceptLoops, WaitForConnections, Over, TimesOut,
                  DrainTimesOut, services, Shutdown
    <2>2. runErr' = runErr
      BY <1>7, <2>1, RootKept DEF ShutdownMetrics, WaitForAcceptLoops, WaitForConnections, Over
    <2> QED
      BY <2>1, <2>2 DEF RootInv, RootCauseReturned, Shutdown
  <1>8. CASE \/ \E l \in Listeners : AcceptFails(l) \/ Spawn(l) \/ \E c \in Conns : Accept(l, c)
             \/ \E c \in Conns : Done(c)
             \/ UNCHANGED vars
    <2>1. UNCHANGED <<pc, cancelled, background, errCh, runErr>>
      BY <1>8 DEF AcceptFails, Spawn, Accept, Done, vars, services
    <2> QED
      BY <2>1 DEF RootInv, RootCauseReturned
  <1>9. CASE \E s \in Services : ServiceFails(s) \/ ServiceEnds(s)
    <2>1. PICK s \in Services : ServiceFails(s) \/ ServiceEnds(s)
      BY <1>9
    <2>2. /\ background[s] = "running" /\ background' = [background EXCEPT ![s] = "ended"]
          /\ errCh' \subseteq errCh \union {s} /\ UNCHANGED <<pc, cancelled, runErr>>
      BY <2>1 DEF ServiceFails, ServiceEnds
    <2> QED
      BY <2>2 DEF TypeOK, RootInv, RootCauseReturned
  <1> QED
    BY <1>1, <1>2, <1>3, <1>4, <1>5, <1>6, <1>7, <1>8, <1>9 DEF Next, Run

\* Run returns what made it stop (service.go, the select of Run): the errors of
\* the shutdown that follows never replace it, so the timeout of a drain is
\* never what Run returns.
THEOREM RootCause == Spec => []RootCauseReturned
  <1>1. Init => RootInv
    BY DEF Init, RootInv, RootCauseReturned, Shutdown, Services
  <1>2. TypeOK /\ RootInv /\ [Next]_vars => RootInv'
    BY RootInvKept
  <1>3. RootInv => RootCauseReturned
    BY DEF RootInv
  <1> QED
    BY <1>1, <1>2, <1>3, TypeCorrect, PTL DEF Spec
=============================================================================
