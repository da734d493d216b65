------------------------------ MODULE Platform ------------------------------
(***************************************************************************)
(* The Docker mesh: cdocker (src/docker/cdocker/), the orchestrator behind *)
(* meshctl, with its health monitor, the Docker engine it drives, the      *)
(* control plane its deployments register with, the probers that report    *)
(* to it, and the meshctl commands that start and destroy it all.          *)
(*                                                                         *)
(* cdocker keeps two maps in memory, `containers` (instance -> what was    *)
(* created for it) and `services` (service -> its instances), and no lock  *)
(* over them: every HTTP handler runs in a goroutine of its own and the    *)
(* monitor reads the same maps.  A handler is modelled as a process whose  *)
(* steps are separated at the calls to Docker and to the control plane; a  *)
(* crash of the process (Crash) covers what the Go runtime does when two   *)
(* unsynchronised map accesses meet.                                       *)
(*                                                                         *)
(* Docker is external: a container is addressed by name or by the id of    *)
(* one incarnation of that name, two containers never share a name, and    *)
(* any call may be refused (at most MaxFaults times).  Time is abstract: a *)
(* probe report is fresh until the three minutes of probeTimeout pass.     *)
(* Left out: the status shown by GET /containers and the restart counter,  *)
(* which no step reads, and the environment of the containers.             *)
(*                                                                         *)
(* An operator whose name says what it gets wrong is a mutant of the one   *)
(* below it, used only to check that a property notices.                   *)
(***************************************************************************)
EXTENDS ControlPlane, FiniteSets, SequencesExt

CONSTANTS
  Callers,       \* HTTP requests of meshctl that can be in progress at once
  MaxReplicas,   \* bound: replicas of a manifest
  Probes,        \* which of "liveness", "readiness" the manifests enable
  Threshold,     \* livenessThreshold and readinessThreshold
  MaxCalls,      \* bound: API calls per behaviour
  MaxFaults,     \* bound: refusals of the Docker engine
  MaxCrashes,    \* bound: crashes of cdocker
  NoInfo         \* an instance that is not a key of `containers`

ASSUME PlatformAssumption ==
  /\ MaxReplicas \in Nat \ {0}
  /\ Probes \subseteq {"liveness", "readiness"}
  /\ Threshold \in Nat \ {0}
  /\ MaxCalls \in Nat /\ MaxFaults \in Nat /\ MaxCrashes \in Nat
  /\ NoInfo \notin [app : Nat, side : Nat]

VARIABLES
  cdocker,      \* the cdocker container: absent, up, draining or exited
  engine,       \* Docker: what exists under each container name
  containers,   \* CDocker.containers: the ids created for an instance
  services,     \* CDocker.services, << >> for an absent key
  health,       \* HealthMonitor.states
  call,         \* the API calls in progress
  destroy,      \* progress of `meshctl destroy`
  used,         \* calls, faults and crashes so far, for the bounds
  seen          \* history: what has happened that can upset the books

memory == <<containers, services, health>>
vars == <<planeVars, memory, call, cdocker, engine, destroy, used, seen>>

-----------------------------------------------------------------------------
(* The Docker engine. *)

Replicas == 1 .. MaxReplicas
Instances == Services \X Replicas
App(n) == <<"app", n>>
Side(n) == <<"side", n>>
Control == <<"controlPlane", 0>>
Prometheus == <<"prometheus", 0>>
Grafana == <<"grafana", 0>>
Names == {App(n) : n \in Instances} \cup {Side(n) : n \in Instances}
           \cup {Control, Prometheus, Grafana}

Exists(c) == engine[c].st # "none"
Running(c) == engine[c].st = "running"
HasId(c, id) == Exists(c) /\ engine[c].id = id

New(c, st) == [engine EXCEPT ![c] = [st |-> st, id |-> @.id + 1]]
With(c, st) == [engine EXCEPT ![c].st = st]

\* A Docker call as the set of its outcomes: what it leaves, whether it
\* succeeded, and whether the daemon refused what it could have done.  It
\* fails at once when the caller's context is cancelled or when its
\* precondition (the name is free, the container exists) does not hold.
Docker(able, done, torn) ==
  IF ~able THEN {[eng |-> engine, ok |-> FALSE, fault |-> 0]}
  ELSE {[eng |-> done, ok |-> TRUE, fault |-> 0]}
       \cup IF used.faults = MaxFaults THEN {}
            ELSE {[eng |-> e, ok |-> FALSE, fault |-> 1] : e \in torn}

\* CreateAndStartContainer: a refused start leaves the created container.
Creates(c, live) ==
  Docker(live /\ ~Exists(c), New(c, "running"), {engine, New(c, "created")})

\* StopContainer and RemoveContainer, by id; rollback removes by name.
Stops(c, id, live) == Docker(live /\ HasId(c, id), With(c, "exited"), {engine})
Removes(c, id, live) == Docker(live /\ HasId(c, id), With(c, "none"), {engine})
RemovesName(c, live) == Docker(live /\ Exists(c), With(c, "none"), {engine})
Restarts(c) == Docker(Exists(c), With(c, "running"), {engine})

\* The outcome o is what the step leaves.
Leaves(o) ==
  /\ engine' = o.eng
  /\ used' = [used EXCEPT !.faults = @ + o.fault]

-----------------------------------------------------------------------------
(* The cdocker process. *)

Idle == [op |-> "none"]
Busy(c) == call[c] # Idle
Calls(s) == {c \in Callers : Busy(c) /\ call[c].op # "monitoring"
                             /\ call[c].svc = s}

\* New: empty maps; what is in Docker is not looked at.
Forgotten ==
  /\ containers' = [n \in Instances |-> NoInfo]
  /\ services' = [s \in Services |-> << >>]
  /\ health' = [n \in Instances |-> NoInfo]
  /\ call' = [c \in Callers |-> Idle]

Init ==
  /\ EmptyPlane
  /\ cdocker = "absent"
  /\ engine = [c \in Names |-> [st |-> "none", id |-> 0]]
  /\ containers = [n \in Instances |-> NoInfo]
  /\ services = [s \in Services |-> << >>]
  /\ health = [n \in Instances |-> NoInfo]
  /\ call = [c \in Callers |-> Idle]
  /\ destroy = [at |-> "idle"]
  /\ used = [calls |-> 0, faults |-> 0, crashes |-> 0]
  /\ seen = {}

\* meshctl init when no cdocker container exists: start() refuses to run
\* beside a control plane that is already there.
Boot ==
  /\ cdocker = "absent" /\ destroy.at \in {"idle", "done"}
  /\ destroy' = [at |-> "idle"]
  /\ \E o \in Creates(Control, TRUE) :
       /\ Leaves(o)
       /\ cdocker' = IF o.ok THEN "up" ELSE "exited"
       /\ IF o.ok THEN FreshPlane ELSE UNCHANGED planeVars
  /\ UNCHANGED <<memory, call, seen>>

\* SIGTERM: the monitor ends and the control plane is removed, its registry
\* with it; the services stay.  Requests are accepted until then; those in
\* progress go on, without a control plane.
Halted(o) ==
  /\ Leaves(o)
  /\ cdocker' = "draining"
  /\ seen' = seen \cup {"restart"}
  /\ UNCHANGED <<memory, call>>

\* meshctl init --force on a running cdocker: docker stop, docker rm.
ForceRestart ==
  /\ cdocker = "up" /\ destroy.at = "idle"
  /\ "restart" \notin seen
  /\ \E o \in RemovesName(Control, TRUE) : Halted(o)
  /\ UNCHANGED <<planeVars, destroy>>

\* The server has drained, or ShutdownTimeout has passed, or docker stop has
\* lost its patience: what is still in progress is cut off.
Exits ==
  /\ cdocker = "draining"
  /\ Forgotten
  /\ cdocker' = "absent"
  /\ UNCHANGED <<planeVars, engine, destroy, used, seen>>

\* The process dies: killed, out of memory, or thrown down by the Go runtime
\* when two handlers touch the unsynchronised maps at once.
Died ==
  /\ Forgotten
  /\ cdocker' = "exited"

Crash ==
  /\ cdocker = "up"
  /\ used.crashes < MaxCrashes
  /\ Died
  /\ used' = [used EXCEPT !.crashes = @ + 1]
  /\ UNCHANGED <<planeVars, engine, destroy, seen>>

-----------------------------------------------------------------------------
(* API calls: POST /apply. *)

\* The slot `meshctl destroy` makes its calls from.
Cli == CHOOSE c \in Callers : TRUE
Free(c) == ~Busy(c) /\ (c = Cli => destroy.at = "idle")

Begins(c, rec) ==
  /\ call' = [call EXCEPT ![c] = rec]
  /\ used' = [used EXCEPT !.calls = @ + 1]
  /\ seen' = IF rec.op = "monitoring" \/ Calls(rec.svc) = {} THEN seen
             ELSE seen \cup {"overlap"}
  /\ UNCHANGED <<planeVars, memory, cdocker, engine>>

Proceeds(c, rec) == call' = [call EXCEPT ![c] = rec]
Returns(c) == Proceeds(c, Idle)

\* applyManifest and the checks of deployServiceInternal that let it start:
\* both images are there or could be pulled.
Deploy(c, s, n) ==
  /\ cdocker = "up" /\ Free(c) /\ used.calls < MaxCalls
  /\ Begins(c, [op |-> "deploy", svc |-> s, n |-> n, k |-> 1, at |-> "side",
                live |-> TRUE, ids |-> [app |-> 0, side |-> 0], made |-> {}])
  /\ UNCHANGED destroy

Instance(c) == <<call[c].svc, call[c].k>>
At(c, op, at) == call[c].op = op /\ call[c].at = at

RollsBackThisToo(c) ==
  Proceeds(c, [call[c] EXCEPT !.at = "cleanApp", !.n = call[c].k, !.k = 1])

\* clean(k - 1), after replica k failed: replicas 1 .. k-1, and not k itself.
RollsBack(c) ==
  IF call[c].k = 1 THEN Returns(c)
  ELSE Proceeds(c, [call[c] EXCEPT !.at = "cleanApp", !.n = call[c].k - 1,
                                   !.k = 1])

\* One container of replica k, whose id is kept; then the step `next`.
Provision(c, name, kind, next) ==
  /\ \E o \in Creates(name, call[c].live) :
       /\ Leaves(o)
       /\ IF o.ok
          THEN Proceeds(c, [call[c] EXCEPT !.at = next,
                              !.ids[kind] = engine'[name].id,
                              !.made = @ \cup {<<name, engine'[name].id>>}])
          ELSE RollsBack(c)
  /\ UNCHANGED <<planeVars, memory, cdocker, destroy, seen>>

CreateSidecar(c) ==
  At(c, "deploy", "side") /\ Provision(c, Side(Instance(c)), "side", "app")

CreateApp(c) ==
  At(c, "deploy", "app") /\ Provision(c, App(Instance(c)), "app", "register")

\* The end of an iteration of the loop: the two maps, then the next replica.
Records(c) ==
  LET n == Instance(c)
  IN /\ containers' = [containers EXCEPT ![n] = call[c].ids]
     /\ services' = [services EXCEPT ![call[c].svc] = Append(@, n)]
     /\ IF call[c].k = call[c].n THEN Returns(c)
        ELSE Proceeds(c, [call[c] EXCEPT !.at = "side", !.k = @ + 1])

\* registerService: no context and no timeout, so it waits for as long as
\* the control plane does not answer; an error, as when the control plane is
\* gone already, is only logged.
RegisterReplica(c) ==
  /\ At(c, "deploy", "register")
  /\ \/ Running(Control) /\ Register(call[c].svc, Instance(c)) /\ UNCHANGED used
     \/ ~Running(Control) /\ UNCHANGED <<planeVars, used>>
     \/ /\ used.faults < MaxFaults
        /\ used' = [used EXCEPT !.faults = @ + 1]
        /\ UNCHANGED planeVars
  /\ Records(c)
  /\ UNCHANGED <<health, cdocker, engine, destroy, seen>>

\* The rollback, by name and with the context of the request; it goes on
\* whatever RemoveContainer returned.
Clean(c) ==
  /\ call[c].op = "deploy" /\ call[c].at \in {"cleanApp", "cleanSide"}
  /\ LET app == call[c].at = "cleanApp"
         name == IF app THEN App(Instance(c)) ELSE Side(Instance(c))
     IN \E o \in RemovesName(name, call[c].live) :
          /\ Leaves(o)
          /\ IF app THEN Proceeds(c, [call[c] EXCEPT !.at = "cleanSide"])
             ELSE IF call[c].k = call[c].n THEN Returns(c)
             ELSE Proceeds(c, [call[c] EXCEPT !.at = "cleanApp", !.k = @ + 1])
  /\ UNCHANGED <<planeVars, memory, cdocker, destroy, seen>>

-----------------------------------------------------------------------------
(* API calls: POST /containers/stop, /containers/remove and /monitoring. *)

\* The handler walks the slice it read; an unknown service is answered 404.
Walk(c, op, s) ==
  /\ services[s] # << >>
  /\ Begins(c, [op |-> op, svc |-> s, list |-> services[s], at |-> "app",
                side |-> 0, live |-> TRUE])

StopOrRemove(c, op, s) ==
  /\ cdocker = "up" /\ Free(c) /\ used.calls < MaxCalls
  /\ Walk(c, op, s)
  /\ UNCHANGED destroy

Effect(c, name, id) ==
  IF call[c].op = "stop" THEN Stops(name, id, call[c].live)
  ELSE Removes(name, id, call[c].live)

AbortRetries(c) == UNCHANGED call
\* The first Docker error ends the handler.
Aborts(c) == Returns(c)

\* The application container of the next instance.  An instance that is no
\* longer a key of the map is a nil pointer: net/http recovers the panic.
WalkApp(c) ==
  /\ call[c].op \in {"stop", "remove"} /\ call[c].at = "app"
  /\ LET n == Head(call[c].list)
     IN IF containers[n] = NoInfo
        THEN Returns(c) /\ UNCHANGED <<engine, used>>
        ELSE \E o \in Effect(c, App(n), containers[n].app) :
               /\ Leaves(o)
               /\ IF o.ok THEN Proceeds(c, [call[c] EXCEPT !.at = "side",
                                                !.side = containers[n].side])
                  ELSE Aborts(c)
  /\ UNCHANGED <<planeVars, memory, cdocker, destroy, seen>>

AlwaysDeletes(c) == TRUE
Deletes(c) == call[c].op = "remove"

KeepsService(c) == FALSE
DeletesService(c) == Deletes(c) /\ Len(call[c].list) = 1

\* Its sidecar; a removal then deletes the instance, and after the last one
\* the service.  Neither the control plane nor the monitor is told.
WalkSide(c) ==
  /\ call[c].op \in {"stop", "remove"} /\ call[c].at = "side"
  /\ LET n == Head(call[c].list)
     IN \E o \in Effect(c, Side(n), call[c].side) :
          /\ Leaves(o)
          /\ containers' = IF o.ok /\ Deletes(c)
                           THEN [containers EXCEPT ![n] = NoInfo] ELSE containers
          /\ services' = IF o.ok /\ DeletesService(c)
                         THEN [services EXCEPT ![call[c].svc] = << >>] ELSE services
          /\ seen' = IF o.ok /\ call[c].op = "remove" THEN seen \cup {"removal"} ELSE seen
          /\ IF ~o.ok THEN Aborts(c)
             ELSE IF Len(call[c].list) = 1 THEN Returns(c)
             ELSE Proceeds(c, [call[c] EXCEPT !.at = "app", !.list = Tail(@)])
  /\ UNCHANGED <<planeVars, health, cdocker, destroy>>

\* deployMonitoringInternal: Prometheus, then Grafana; no rollback.
DeployMonitoring(c) ==
  /\ cdocker = "up" /\ Free(c) /\ used.calls < MaxCalls
  /\ Begins(c, [op |-> "monitoring", at |-> "prometheus", live |-> TRUE])
  /\ UNCHANGED destroy

CreateMonitoring(c) ==
  /\ call[c].op = "monitoring"
  /\ LET first == call[c].at = "prometheus"
     IN \E o \in Creates(IF first THEN Prometheus ELSE Grafana, call[c].live) :
          /\ Leaves(o)
          /\ IF o.ok /\ first THEN Proceeds(c, [call[c] EXCEPT !.at = "grafana"])
             ELSE Returns(c)
  /\ UNCHANGED <<planeVars, memory, cdocker, destroy, seen>>

\* The client of a call gives up: the context of the request is cancelled,
\* and every Docker call the handler still makes fails, rollback included.
ClientGone(c) ==
  /\ Busy(c) /\ call[c].live
  /\ Proceeds(c, [call[c] EXCEPT !.live = FALSE])
  /\ seen' = seen \cup {"cancel"}
  /\ UNCHANGED <<planeVars, memory, cdocker, engine, destroy, used>>

-----------------------------------------------------------------------------
(* The health monitor and the probers that report to it. *)

NewState == [fails |-> [p \in Probes |-> 0], last |-> [p \in Probes |-> "never"]]
StateOf(n) == IF health[n] = NoInfo THEN NewState ELSE health[n]

\* HandleProbeReport.  The state is created, and its time set, before the
\* instance is looked up: for one that is not tracked the handler panics,
\* and net/http recovers it.
Report(n, p, healthy) ==
  /\ LET timed == [StateOf(n) EXCEPT !.last[p] = "fresh"]
         more == IF timed.fails[p] < Threshold THEN timed.fails[p] + 1 ELSE Threshold
     IN IF containers[n] = NoInfo
        THEN /\ health' = [health EXCEPT ![n] = timed]
             /\ seen' = seen \cup {"stray"}
        ELSE /\ health' = [health EXCEPT ![n] =
                  [timed EXCEPT !.fails[p] = IF healthy THEN 0 ELSE more]]
             /\ UNCHANGED seen
  /\ UNCHANGED <<planeVars, containers, services, call, cdocker, engine,
                 destroy, used>>

\* executeProbes: an application that does not run cannot answer, one that
\* runs may still answer with an error or not in time.
Probed(n) == IF Running(App(n)) THEN BOOLEAN ELSE {FALSE}

\* A tick of the prober in the sidecar of instance n, whose report arrives.
ProbeTick(n, p) ==
  /\ cdocker = "up" /\ Running(Side(n))
  /\ \E healthy \in Probed(n) : Report(n, p, healthy)

\* probeTimeout passes without a report.
Silence(n, p) ==
  /\ cdocker = "up" /\ health[n] # NoInfo /\ health[n].last[p] = "fresh"
  /\ health' = [health EXCEPT ![n].last[p] = "stale"]
  /\ UNCHANGED <<planeVars, containers, services, call, cdocker, engine,
                 destroy, used, seen>>

\* The iteration of checkStates for instance n, when it has something to do.
\* The map lookup in restartContainer runs in the monitor's own goroutine:
\* nobody recovers its panic.  A failed restart is only logged.
Counted(h) ==
  [h EXCEPT !.fails = [p \in Probes |->
     IF h.last[p] = "stale" THEN Threshold ELSE h.fails[p]]]
Due(n) ==
  IF health[n] = NoInfo THEN {}
  ELSE {p \in Probes : Counted(health[n]).fails[p] >= Threshold}

CheckStateOnce(n) ==
  /\ cdocker = "up" /\ Due(n) # {}
  /\ IF containers[n] = NoInfo
     THEN Died /\ UNCHANGED <<engine, used>>
     ELSE /\ \E o \in Restarts(App(n)) : Leaves(o)
          /\ health' = [health EXCEPT ![n] = NewState]
          /\ UNCHANGED <<containers, services, call, cdocker>>
  /\ UNCHANGED <<planeVars, destroy, seen>>
CheckState(n) ==
  /\ cdocker = "up" /\ Due(n) # {}
  /\ LET p == IF "liveness" \in Due(n) THEN "liveness" ELSE "readiness"
     IN IF containers[n] = NoInfo
        THEN Died /\ UNCHANGED <<engine, used>>
        ELSE /\ \E o \in Restarts(App(n)) : Leaves(o)
             /\ health' = [health EXCEPT ![n] = [Counted(@) EXCEPT !.fails[p] = 0]]
             /\ UNCHANGED <<containers, services, call, cdocker>>
  /\ UNCHANGED <<planeVars, destroy, seen>>

\* An application ends by itself.
AppExits(n) ==
  /\ Running(App(n))
  /\ engine' = With(App(n), "exited")
  /\ UNCHANGED <<planeVars, memory, call, cdocker, destroy, used, seen>>

-----------------------------------------------------------------------------
(* The requests of the applications. *)

\* The sidecar of a running instance asks for service s (discover, called by
\* externalProxyHandler and addressHandler); it stops waiting for a wedged
\* control plane when its HTTP client times out, and answers 502.
SidecarDiscovers(s) ==
  /\ Running(Control)
  /\ \E n \in Instances : Running(Side(n))
  /\ Pick(s) \/ DiscoverUnknown(s)
  /\ UNCHANGED <<memory, call, cdocker, engine, destroy, used, seen>>

\* A request sent to the control plane itself (/api/, proxyHandler).
ProxyThroughPlane(s) ==
  /\ Running(Control) /\ Pick(s)
  /\ UNCHANGED <<memory, call, cdocker, engine, destroy, used, seen>>

-----------------------------------------------------------------------------
(* meshctl destroy. *)

\* HealthCheck and GET /containers, once; nobody answers a cdocker that is
\* not up.
DestroyStarts ==
  /\ destroy.at = "idle" /\ ~Busy(Cli) /\ used.calls < MaxCalls
  /\ destroy' = [at |-> "next",
                 todo |-> {s \in Services : cdocker = "up" /\ \E n \in Instances :
                             n[1] = s /\ containers[n] # NoInfo}]
  /\ used' = [used EXCEPT !.calls = @ + 1]
  /\ UNCHANGED <<planeVars, memory, call, cdocker, engine, seen>>

\* For each service listed: stop it, then remove it; errors are ignored.
DestroyCalls ==
  /\ destroy.at \in {"next", "stopped"} /\ ~Busy(Cli)
  /\ \E s \in destroy.todo :
       LET op == IF destroy.at = "next" THEN "stop" ELSE "remove"
       IN /\ IF cdocker = "up" /\ services[s] # << >> THEN Walk(Cli, op, s)
             ELSE UNCHANGED <<planeVars, memory, cdocker, engine, call,
                              used, seen>>
          /\ destroy' = IF op = "stop" THEN [at |-> "stopped", todo |-> {s},
                                             rest |-> destroy.todo \ {s}]
                        ELSE [at |-> "next", todo |-> destroy.rest]

\* docker stop of cdocker, which returns when the process has ended, and
\* docker rm.
ServicesGone == destroy.at = "next" /\ destroy.todo = {} /\ ~Busy(Cli)

DestroyHalts ==
  /\ ServicesGone /\ cdocker = "up"
  /\ \E o \in RemovesName(Control, TRUE) : Halted(o)
  /\ UNCHANGED <<planeVars, destroy>>

DestroyEnds ==
  /\ ServicesGone /\ cdocker \in {"absent", "exited"}
  /\ destroy' = [at |-> "done"]
  /\ cdocker' = "absent"
  /\ UNCHANGED <<planeVars, memory, call, engine, used, seen>>

-----------------------------------------------------------------------------
Handler(c) ==
  \/ CreateSidecar(c) \/ CreateApp(c) \/ RegisterReplica(c) \/ Clean(c)
  \/ WalkApp(c) \/ WalkSide(c) \/ CreateMonitoring(c)

Clients ==
  \E c \in Callers :
    \/ \E s \in Services, n \in Replicas : Deploy(c, s, n)
    \/ \E s \in Services, op \in {"stop", "remove"} : StopOrRemove(c, op, s)
    \/ DeployMonitoring(c)
    \/ ClientGone(c)

Monitor ==
  \E n \in Instances :
    \/ \E p \in Probes : ProbeTick(n, p) \/ Silence(n, p)
    \/ CheckState(n)
    \/ AppExits(n)

Requests == \E s \in Services : SidecarDiscovers(s) \/ ProxyThroughPlane(s)

Destroy == DestroyStarts \/ DestroyCalls \/ DestroyHalts \/ DestroyEnds

Next ==
  \/ Boot \/ ForceRestart \/ Exits \/ Crash
  \/ \E c \in Callers : Handler(c)
  \/ Clients \/ Monitor \/ Requests \/ Destroy

\* Goroutines run, Docker answers, the ticker ticks, a stopped process ends,
\* meshctl goes on.
Fairness ==
  /\ \A c \in Callers : WF_vars(Handler(c))
  /\ \A n \in Instances : WF_vars(CheckState(n))
  /\ WF_vars(Exits)
  /\ WF_vars(DestroyCalls \/ DestroyHalts \/ DestroyEnds)

Spec == Init /\ [][Next]_vars /\ Fairness

-----------------------------------------------------------------------------
(* What holds. *)

Info == [app : Nat, side : Nat]
ProbeStates ==
  [fails : [Probes -> 0 .. Threshold],
   last : [Probes -> {"never", "fresh", "stale"}]]
DeployCalls ==
  [op : {"deploy"}, svc : Services, n : Replicas, k : Replicas,
   at : {"side", "app", "register", "cleanApp", "cleanSide"},
   live : BOOLEAN, ids : Info, made : SUBSET (Names \X Nat)]
WalkCalls ==
  [op : {"stop", "remove"}, svc : Services, list : Seq(Instances) \ {<< >>},
   at : {"app", "side"}, side : Nat, live : BOOLEAN]
MonitoringCalls ==
  [op : {"monitoring"}, at : {"prometheus", "grafana"}, live : BOOLEAN]
DestroyStates ==
  [at : {"idle", "done"}]
    \cup [at : {"next"}, todo : SUBSET Services]
    \cup [at : {"stopped"}, todo : SUBSET Services, rest : SUBSET Services]
CallTypes == {Idle} \cup DeployCalls \cup WalkCalls \cup MonitoringCalls
TypeOK ==
  /\ registry \in [Services -> Seq(Instances)] /\ idx \in [Services -> Nat]
  /\ wedged \in BOOLEAN
  /\ cdocker \in {"absent", "up", "draining", "exited"}
  /\ engine \in [Names -> [st : {"none", "created", "running", "exited"}, id : Nat]]
  /\ containers \in [Instances -> {NoInfo} \cup Info]
  /\ health \in [Instances -> {NoInfo} \cup ProbeStates]
  /\ services \in [Services -> Seq(Instances)]
  /\ call \in [Callers -> CallTypes]
  /\ destroy \in DestroyStates
  /\ seen \subseteq {"restart", "overlap", "cancel", "removal", "stray"}

(***************************************************************************)
(* The books agree with Docker: while no Docker call was refused, no       *)
(* client gave up, cdocker was neither restarted nor crashed and no two    *)
(* calls for one service overlapped, a service nobody is working on has    *)
(* its instances listed once each, tracked under the ids that exist, and   *)
(* no container besides.  Redeployments that run into a name conflict are  *)
(* among the behaviours.                                                   *)
(***************************************************************************)
Undisturbed ==
  /\ used.faults = 0 /\ used.crashes = 0 /\ cdocker = "up"
  /\ seen \cap {"restart", "overlap", "cancel"} = {}

Agree(s) ==
  /\ IsInjective(services[s])
  /\ \A k \in Replicas :
       LET n == <<s, k>>
       IN /\ containers[n] # NoInfo <=> n \in ToSet(services[s])
          /\ IF containers[n] = NoInfo THEN ~Exists(App(n)) /\ ~Exists(Side(n))
             ELSE HasId(App(n), containers[n].app) /\ HasId(Side(n), containers[n].side)

BooksAgree ==
  Undisturbed => \A s \in Services : Calls(s) = {} => Agree(s)

(***************************************************************************)
(* The monitor only holds states of instances it can look up, as long as   *)
(* nothing was removed and no report came from an instance that was not    *)
(* tracked: a state without an instance is what kills the process once its *)
(* reports stop (CheckState).                                              *)
(***************************************************************************)
StatesTracked ==
  cdocker = "up" /\ seen \cap {"removal", "stray"} = {}
    => \A n \in Instances : health[n] # NoInfo => containers[n] # NoInfo

(***************************************************************************)
(* A rollback removes nothing but what its own deployment created, unless  *)
(* calls for the service overlapped: a redeployment refused because the    *)
(* service already runs leaves it running.                                 *)
(***************************************************************************)
RollbackOnlyOwn ==
  [][\A c \in Callers, name \in Names :
       Clean(c) /\ Exists(name) /\ engine'[name].st = "none"
         => "overlap" \in seen \/ <<name, engine[name].id>> \in call[c].made]_vars

(***************************************************************************)
(* The inductive invariant of PlatformProofs.  A name nobody registered    *)
(* has never been picked; a deployment stays within its replicas; calls    *)
(* for one service only meet where `seen` says so; a monitor that is down  *)
(* has forgotten its states; and what a deployment would remove if it      *)
(* failed now is gone or of its own making.                                *)
(***************************************************************************)
NeverPicked == \A s \in Services : registry[s] = << >> => idx[s] = 0

WithinReplicas == \A c \in Callers : call[c].op = "deploy" => call[c].k <= call[c].n

OneCallAtATime ==
  "overlap" \notin seen =>
    \A s \in Services : \A c, d \in Calls(s) : c = d

DownForgets ==
  cdocker \in {"absent", "exited"} => \A n \in Instances : health[n] = NoInfo

ToRemove(c, kind, j) ==
  LET k == call[c].k
  IN \/ call[c].at \in {"side", "app", "register"} /\ j < k
     \/ call[c].at \in {"app", "register"} /\ j = k /\ kind = "side"
     \/ call[c].at = "register" /\ j = k
     \/ call[c].at = "cleanApp" /\ j \in k .. call[c].n
     \/ call[c].at = "cleanSide" /\ j \in k .. call[c].n /\ ~(j = k /\ kind = "app")

RemovesOwn ==
  "overlap" \notin seen =>
    \A c \in Callers, kind \in {"app", "side"}, j \in Replicas :
      LET name == <<kind, <<call[c].svc, j>>>>
      IN call[c].op = "deploy" /\ ToRemove(c, kind, j) /\ Exists(name)
           => <<name, engine[name].id>> \in call[c].made

IInv ==
  /\ TypeOK /\ NeverPicked /\ RotationInRange /\ WithinReplicas
  /\ OneCallAtATime /\ RemovesOwn /\ DownForgets /\ StatesTracked

(***************************************************************************)
(* The inductive invariant behind BooksAgree, on top of IInv.  While       *)
(* nothing has disturbed the books, the replicas of a service are numbered *)
(* from 1 in the order of its list; those listed are Kept, the others are  *)
(* Absent, and a call for the service has one replica in its hands at most.*)
(***************************************************************************)
ControlStands ==
  /\ cdocker = "up" => Exists(Control)
  /\ cdocker = "draining" => "restart" \in seen
  /\ "restart" \notin seen /\ ~Exists(Control)
       => \A n \in Instances : ~Exists(App(n)) /\ ~Exists(Side(n))

DownIsEmpty ==
  cdocker \in {"absent", "exited"} =>
    /\ \A n \in Instances : containers[n] = NoInfo
    /\ \A s \in Services : services[s] = << >>
    /\ \A c \in Callers : ~Busy(c)

AllLive == "cancel" \notin seen => \A c \in Callers : Busy(c) => call[c].live

Kept(n) ==
  /\ containers[n] # NoInfo
  /\ HasId(App(n), containers[n].app) /\ HasId(Side(n), containers[n].side)
Absent(n) == containers[n] = NoInfo /\ ~Exists(App(n)) /\ ~Exists(Side(n))
Whole(s, listed, inHand) ==
  \A k \in Replicas \ inHand : IF k \in listed THEN Kept(<<s, k>>) ELSE Absent(<<s, k>>)

InOrder(s) ==
  /\ Len(services[s]) <= MaxReplicas
  /\ \A i \in 1 .. Len(services[s]) : services[s][i] = <<s, i>>

\* A deployment goes on after the last replica listed, or starts at one that
\* is listed already and will be refused; it never rolls anything back.
DeployBooks(s, r) ==
  LET m == Len(services[s])
      n == <<s, r.k>>
  IN \/ r.at = "side" /\ r.k \in {1, m + 1} /\ Whole(s, 1 .. m, {})
     \/ /\ r.at \in {"app", "register"} /\ r.k = m + 1 /\ Whole(s, 1 .. m, {r.k})
        /\ containers[n] = NoInfo /\ HasId(Side(n), r.ids.side)
        /\ IF r.at = "app" THEN ~Exists(App(n)) ELSE HasId(App(n), r.ids.app)

\* A walk has the last instances of the list before it, the first of them in
\* hand: a removal has removed those behind it, the service goes with the last.
HeadIndex(s, r) == Len(services[s]) + 1 - Len(r.list)
WalkBooks(s, r) ==
  LET m == Len(services[s])
      p == HeadIndex(s, r)
      n == <<s, p>>
  IN /\ p >= 1 /\ \A i \in 1 .. Len(r.list) : r.list[i] = <<s, p - 1 + i>>
     /\ r.at = "side" => r.side = containers[n].side
     /\ \/ r.op = "stop" /\ Whole(s, 1 .. m, {})
        \/ r.op = "remove" /\ r.at = "app" /\ Whole(s, p .. m, {})
        \/ /\ r.op = "remove" /\ r.at = "side" /\ Whole(s, p .. m, {p})
           /\ containers[n] # NoInfo /\ ~Exists(App(n)) /\ HasId(Side(n), r.side)

BooksOf(s) ==
  /\ InOrder(s)
  /\ Calls(s) = {} => Whole(s, 1 .. Len(services[s]), {})
  /\ \A c \in Calls(s) : IF call[c].op = "deploy" THEN DeployBooks(s, call[c])
                         ELSE WalkBooks(s, call[c])

BooksInv ==
  /\ used \in [calls : Nat, faults : Nat, crashes : Nat]
  /\ ControlStands /\ DownIsEmpty /\ AllLive
  /\ Undisturbed => \A s \in Services : BooksOf(s)

(***************************************************************************)
(* Every API call is answered, unless the control plane's mutex stays      *)
(* locked (registerService waits without a timeout).                       *)
(***************************************************************************)
CallsAnswered == \A c \in Callers : Busy(c) ~> (~Busy(c) \/ wedged)

(***************************************************************************)
(* An instance whose probes fell silent is brought back to life, through   *)
(* refused restarts: the state keeps its age, so every tick tries again,   *)
(* until the application runs or is gone, a report comes in or cdocker     *)
(* ends.  A monitor that took a refused restart for a fresh start would    *)
(* wait for reports that never come.                                       *)
(***************************************************************************)
StalledIsRevived ==
  \A n \in Instances, p \in Probes :
    (cdocker = "up" /\ health[n] # NoInfo /\ health[n].last[p] = "stale")
      ~> \/ Running(App(n)) \/ ~Exists(App(n))
         \/ cdocker # "up" \/ (health[n] # NoInfo /\ health[n].last[p] = "fresh")

(***************************************************************************)
(* What `meshctl destroy` says of itself: it stops and removes all         *)
(* containers in the mesh.                                                 *)
(***************************************************************************)
DestroyLeavesNothing == destroy.at = "done" => \A c \in Names : ~Exists(c)
=============================================================================
