----------------------------- MODULE Lifecycle -----------------------------
(***************************************************************************)
(* Start and stop of the k8s sidecar, service.go: Run takes a certificate, *)
(* waits for the first relist, opens the listeners, and serves until its   *)
(* context is done or the controller or the metrics server fails; then it  *)
(* stops accepting and drains the connections, with a timeout on each      *)
(* wait.  One goroutine per listener accepts, one per connection handles.  *)
(***************************************************************************)
EXTENDS Naturals, Sequences, FiniteSets

CONSTANTS Conns,       \* connections that clients may open
          MTLS,        \* inboundMTLSPort > 0
          Monitoring,  \* monitoringEnabled
          None         \* no connection

ASSUME LifecycleAssumption ==
    /\ IsFiniteSet(Conns)
    /\ MTLS \in BOOLEAN
    /\ Monitoring \in BOOLEAN
    /\ None \notin Conns

VARIABLES pc,            \* where Run is
          cancelled,     \* the context is done: SIGTERM or SIGINT
          open,          \* listeners whose socket is open
          loop,          \* accept loops
          held,          \* the connection a loop has accepted and not yet spawned
          conn,          \* connections
          connectionWG,  \* counter of the wait group
          background,    \* the controller and the metrics server
          errCh,         \* errors of the background goroutines
          runErr,        \* what Run returns
          timedOut       \* history: waits of the shutdown that were cut short

serving == <<open, loop, held, conn, connectionWG>>
services == <<background, errCh>>
vars == <<pc, cancelled, serving, services, runErr, timedOut>>

\* The listeners, in the order they are built.
Profiles == IF MTLS THEN <<"inbound_plain", "outbound", "inbound_mtls">>
            ELSE <<"inbound_plain", "outbound">>
Listeners == {Profiles[i] : i \in DOMAIN Profiles}
Shutdown == {"close", "metrics", "acceptLoops", "connections"}
PCs == {"bootstrap", "sync", "listen", "start", "serve", "exited"} \union Shutdown
Services == {"discovery", "metrics"}
Errors == {"bootstrap", "sync", "listen", "canceled", "drain", "shutdown"} \union Services

TypeOK ==
    /\ pc \in PCs
    /\ cancelled \in BOOLEAN
    /\ open \subseteq Listeners
    /\ loop \in [Listeners -> {"none", "accepting", "ended"}]
    /\ held \in [Listeners -> Conns \union {None}]
    /\ conn \in [Conns -> {"none", "accepted", "active", "finished"}]
    /\ connectionWG \in 0..Cardinality(Conns)
    /\ background \in [Services -> {"none", "running", "ended"}]
    /\ errCh \subseteq Services
    /\ runErr \in Errors \union {"nil"}
    /\ timedOut \subseteq Shutdown

Init ==
    /\ pc = IF MTLS THEN "bootstrap" ELSE "sync"
    /\ cancelled = FALSE
    /\ open = {}
    /\ loop = [l \in Listeners |-> "none"]
    /\ held = [l \in Listeners |-> None]
    /\ conn = [c \in Conns |-> "none"]
    /\ connectionWG = 0
    /\ background = [s \in Services |-> "none"]
    /\ errCh = {}
    /\ runErr = "nil"
    /\ timedOut = {}

Cancel ==
    /\ ~cancelled
    /\ cancelled' = TRUE
    /\ UNCHANGED <<pc, serving, services, runErr, timedOut>>

-----------------------------------------------------------------------------
(* Start *)

\* Run returns before it has served: nothing is left running but what it opened.
GiveUp(err) == pc' = "exited" /\ runErr' = err

\* The certificate is signed and loaded, or the first relist has come through:
\* each may fail, and does so once the context is done.
Prepare ==
    /\ pc \in {"bootstrap", "sync"}
    /\ \/ /\ pc' = IF pc = "bootstrap" THEN "sync" ELSE "listen"
          /\ UNCHANGED runErr
       \/ GiveUp(pc)
    /\ UNCHANGED <<cancelled, serving, services, timedOut>>

\* What is still open when a listener could not be built.
LeftOpen == {}

\* buildListeners, one listener after the other.
Listen ==
    /\ pc = "listen"
    /\ \E n \in DOMAIN Profiles :
          /\ open = {Profiles[i] : i \in 1..(n - 1)}
          /\ \/ /\ open' = open \union {Profiles[n]}
                /\ pc' = IF n = Len(Profiles) THEN "start" ELSE "listen"
                /\ UNCHANGED runErr
             \/ /\ open' = LeftOpen
                /\ GiveUp("listen")
    /\ UNCHANGED <<cancelled, loop, held, conn, connectionWG, services, timedOut>>

\* The go statements of Run.
Start ==
    /\ pc = "start"
    /\ background' = [s \in Services |->
           IF s = "discovery" \/ Monitoring THEN "running" ELSE "none"]
    /\ loop' = [l \in Listeners |-> "accepting"]
    /\ pc' = "serve"
    /\ UNCHANGED <<cancelled, open, held, conn, connectionWG, errCh, runErr, timedOut>>

-----------------------------------------------------------------------------
(* runListener and the connections *)

\* A client has connected.  Accept also returns it if the socket is closed
\* right after: the loop holds it until it has been spawned.
Accept(l, c) ==
    /\ loop[l] = "accepting"
    /\ held[l] = None
    /\ l \in open
    /\ conn[c] = "none"
    /\ held' = [held EXCEPT ![l] = c]
    /\ conn' = [conn EXCEPT ![c] = "accepted"]
    /\ UNCHANGED <<pc, cancelled, open, loop, connectionWG, services, runErr, timedOut>>

\* Accept fails.  While the socket is open and Run has not cancelled its own
\* context the loop goes on; that step changes nothing.
AcceptFails(l) ==
    /\ loop[l] = "accepting"
    /\ held[l] = None
    /\ l \notin open \/ pc \in Shutdown \/ cancelled
    /\ loop' = [loop EXCEPT ![l] = "ended"]
    /\ UNCHANGED <<pc, cancelled, open, held, conn, connectionWG, services, runErr, timedOut>>

AddedLater == connectionWG
\* connectionWG.Add, before the goroutine of the connection exists.
Added == connectionWG + 1

Spawn(l) ==
    /\ held[l] # None
    /\ connectionWG' = Added
    /\ conn' = [conn EXCEPT ![held[l]] = "active"]
    /\ held' = [held EXCEPT ![l] = None]
    /\ UNCHANGED <<pc, cancelled, open, loop, services, runErr, timedOut>>

\* The chain returns (module Chain): the deferred calls close and count down.
Done(c) ==
    /\ conn[c] = "active"
    /\ conn' = [conn EXCEPT ![c] = "finished"]
    /\ connectionWG' = connectionWG - 1
    /\ UNCHANGED <<pc, cancelled, open, loop, held, services, runErr, timedOut>>

-----------------------------------------------------------------------------
(* The controller and the metrics server *)

\* It fails, also while Run is shutting it down; errCh has room for both.
ServiceFails(s) ==
    /\ background[s] = "running"
    /\ background' = [background EXCEPT ![s] = "ended"]
    /\ errCh' = errCh \union {s}
    /\ UNCHANGED <<pc, cancelled, serving, runErr, timedOut>>

\* It ends quietly, because its context is done or its server was shut down.
ServiceEnds(s) ==
    /\ background[s] = "running"
    /\ cancelled \/ pc \in Shutdown
    /\ s = "metrics" => pc \in Shutdown \ {"close"}
    /\ background' = [background EXCEPT ![s] = "ended"]
    /\ UNCHANGED <<pc, cancelled, serving, errCh, runErr, timedOut>>

-----------------------------------------------------------------------------
(* Stop *)

\* The select of Run: both cases may be ready.
Select ==
    /\ pc = "serve"
    /\ \/ cancelled /\ runErr' = "canceled" /\ UNCHANGED errCh
       \/ \E s \in errCh : runErr' = s /\ errCh' = errCh \ {s}
    /\ pc' = "close"
    /\ UNCHANGED <<cancelled, serving, background, timedOut>>

CloseListeners ==
    /\ pc = "close"
    /\ open' = {}
    /\ pc' = IF Monitoring THEN "metrics" ELSE "acceptLoops"
    /\ UNCHANGED <<cancelled, loop, held, conn, connectionWG, services, runErr, timedOut>>

KeptLast(err) == err
\* Run's error after a step of the shutdown has failed with err.
Kept(err) == IF runErr = "nil" THEN err ELSE runErr

\* A wait of the shutdown ends because it is over, or at its timeout.
Over(next) == pc' = next /\ UNCHANGED <<runErr, timedOut>>
TimesOut(next) == pc' = next /\ timedOut' = timedOut \union {pc}

ShutdownMetrics ==
    /\ pc = "metrics"
    /\ \/ Over("acceptLoops")
       \/ TimesOut("acceptLoops") /\ runErr' = Kept("shutdown")
    /\ UNCHANGED <<cancelled, serving, services>>

AcceptLoopsUncounted == TRUE
\* acceptWG has come down to zero.
AcceptLoopsEnded == \A l \in Listeners : loop[l] = "ended"

WaitForAcceptLoops ==
    /\ pc = "acceptLoops"
    /\ \/ AcceptLoopsEnded /\ Over("connections")
       \/ TimesOut("connections") /\ UNCHANGED runErr
    /\ UNCHANGED <<cancelled, serving, services>>

NeverTimesOut(next) == FALSE
\* time.After in waitForConnections.
DrainTimesOut(next) == TimesOut(next)

WaitForConnections ==
    /\ pc = "connections"
    /\ \/ connectionWG = 0 /\ Over("exited")
       \/ DrainTimesOut("exited") /\ runErr' = Kept("drain")
    /\ UNCHANGED <<cancelled, serving, services>>

-----------------------------------------------------------------------------
Run ==
    \/ Prepare \/ Listen \/ Start \/ Select \/ CloseListeners
    \/ ShutdownMetrics \/ WaitForAcceptLoops \/ WaitForConnections

Next ==
    \/ Cancel
    \/ Run
    \/ \E l \in Listeners : AcceptFails(l) \/ Spawn(l) \/ \E c \in Conns : Accept(l, c)
    \/ \E c \in Conns : Done(c)
    \/ \E s \in Services : ServiceFails(s) \/ ServiceEnds(s)

Spec == Init /\ [][Next]_vars

\* Run's goroutine runs, its timers fire, and the calls it makes before it
\* serves return; nothing is assumed of the other goroutines.
FairSpec == Spec /\ WF_vars(Run)

-----------------------------------------------------------------------------
(***************************************************************************)
(* Properties                                                              *)
(***************************************************************************)

\* When Run returns and neither wait was cut short, no connection is left:
\* none that is handled, and none that a loop accepted just before the
\* listeners were closed (waitForAcceptLoops comes before waitForConnections).
DrainedUnlessTimeout ==
    pc = "exited" /\ timedOut \intersect {"acceptLoops", "connections"} = {} =>
        \A c \in Conns : conn[c] \in {"none", "finished"}

\* Run returns what made it stop, and never a later failure of the shutdown: a
\* cancelled sidecar exits as cancelled, a failed one names what failed.
RootCauseReturned ==
    /\ runErr \in Services => background[runErr] = "ended"
    /\ runErr = "canceled" => cancelled
    /\ pc \in Shutdown \union {"exited"} => runErr \notin {"nil", "drain", "shutdown"}

\* Once the context is done or a background goroutine has failed, Run returns,
\* even if no client and no accept loop ever lets go.
ShutdownEnds == (cancelled \/ errCh # {}) ~> pc = "exited"

\* The inductive invariant: a loop holds what it has accepted and nothing once
\* it has ended, the wait group counts what is handled, nothing runs before
\* Run has started it, and what the waits of the shutdown have seen stays so.
HeldAccepted ==
    /\ \A l \in Listeners : held[l] # None => loop[l] = "accepting" /\ conn[held[l]] = "accepted"
    /\ \A l, m \in Listeners : held[l] = held[m] /\ held[l] # None => l = m
    /\ \A c \in Conns : conn[c] = "accepted" => \E l \in Listeners : held[l] = c
Active == {c \in Conns : conn[c] = "active"}
CountsActive == connectionWG = Cardinality(Active)
QuietBeforeStart ==
    pc \in {"bootstrap", "sync", "listen", "start"} =>
        /\ loop = [l \in Listeners |-> "none"]
        /\ connectionWG = 0
        /\ timedOut = {}
LoopsOver ==
    pc \in {"connections", "exited"} /\ "acceptLoops" \notin timedOut =>
        \A l \in Listeners : loop[l] # "accepting"
DrainOver ==
    pc = "exited" /\ timedOut \intersect {"acceptLoops", "connections"} = {} =>
        connectionWG = 0
IInv ==
    /\ TypeOK /\ HeldAccepted /\ CountsActive
    /\ QuietBeforeStart /\ LoopsOver /\ DrainOver

\* What RootCauseReturned rests on: Run has no error until it stops, and only
\* what has ended has reported one.
RootInv ==
    /\ RootCauseReturned
    /\ \A s \in errCh : background[s] = "ended"
    /\ pc \notin Shutdown \union {"exited"} => runErr = "nil"
    /\ pc \in {"bootstrap", "sync", "listen", "start"} =>
          \A s \in Services : background[s] = "none"
=============================================================================
