--------------------------- MODULE PlatformProofs ---------------------------
(***************************************************************************)
(* Proofs about the Docker mesh, for any services, replicas, clients and   *)
(* probes, and however many calls, refusals and crashes there are.         *)
(***************************************************************************)
EXTENDS Platform, SequenceTheorems, TLAPS

-----------------------------------------------------------------------------
(* The control plane: its registry and its rotation. *)

PlaneInv ==
  /\ registry \in [Services -> Seq(Instances)]
  /\ idx \in [Services -> Nat]
  /\ wedged \in BOOLEAN
  /\ NeverPicked
  /\ RotationInRange

LEMMA PlaneUnchanged == ASSUME PlaneInv, UNCHANGED planeVars PROVE PlaneInv'
  BY DEF planeVars, PlaneInv, NeverPicked, RotationInRange

LEMMA FreshPlaneKeeps == ASSUME FreshPlane PROVE PlaneInv'
  <1>1. << >> \in Seq(Instances) /\ 0 \in Nat
    OBVIOUS
  <1>2. \A s \in Services : registry'[s] = << >> /\ idx'[s] = 0
    BY DEF FreshPlane
  <1>3. registry' \in [Services -> Seq(Instances)] /\ idx' \in [Services -> Nat]
    BY <1>1 DEF FreshPlane
  <1> QED
    BY <1>2, <1>3 DEF FreshPlane, PlaneInv, NeverPicked, RotationInRange

\* Appending makes no list shorter; a list that had no name starts at 0.
LEMMA RegisterKeeps ==
  ASSUME PlaneInv, NEW s \in Services, NEW n \in Instances, Register(s, n)
  PROVE  PlaneInv'
  <1>1. registry' = [registry EXCEPT ![s] = Append(registry[s], n)]
        /\ idx' = idx /\ wedged' = wedged
    BY DEF Register
  <1>2. registry \in [Services -> Seq(Instances)] /\ idx \in [Services -> Nat]
    BY DEF PlaneInv
  <1>3. registry[s] \in Seq(Instances) /\ Append(registry[s], n) \in Seq(Instances)
    BY <1>2
  <1>4. Len(registry'[s]) = Len(registry[s]) + 1 /\ Len(registry[s]) \in Nat
    BY <1>1, <1>2, <1>3
  <1>5. registry'[s] # << >>
    BY <1>1, <1>2, <1>3, <1>4
  <1>6. registry' \in [Services -> Seq(Instances)]
    BY <1>1, <1>2, <1>3
  <1>7. NeverPicked'
    BY <1>1, <1>2, <1>5 DEF NeverPicked, PlaneInv
  <1>8. ASSUME NEW t \in Services, registry'[t] # << >>
        PROVE  idx'[t] < Len(registry'[t])
    <2>1. CASE t # s
      BY <1>1, <1>2, <1>8, <2>1 DEF PlaneInv, RotationInRange
    <2>2. CASE t = s /\ registry[s] = << >>
      BY <1>1, <1>2, <1>4, <2>2 DEF PlaneInv, NeverPicked
    <2>3. CASE t = s /\ registry[s] # << >>
      <3>1. idx[s] < Len(registry[s]) /\ idx[s] \in Nat
        BY <1>2, <2>3 DEF PlaneInv, RotationInRange
      <3> QED
        BY <1>1, <1>4, <2>3, <3>1
    <2> QED
      BY <2>1, <2>2, <2>3
  <1> QED
    BY <1>1, <1>2, <1>6, <1>7, <1>8 DEF PlaneInv, RotationInRange

\* The index wraps before it leaves the list.
LEMMA PickKeeps == ASSUME PlaneInv, NEW s \in Services, Pick(s) PROVE PlaneInv'
  <1>1. /\ registry[s] # << >> /\ registry' = registry /\ wedged' = wedged
        /\ idx' = [idx EXCEPT ![s] = Rotated(idx[s], Len(registry[s]))]
    BY DEF Pick
  <1>2. registry \in [Services -> Seq(Instances)] /\ idx \in [Services -> Nat]
    BY DEF PlaneInv
  <1>3. Len(registry[s]) \in Nat /\ idx[s] < Len(registry[s])
    BY <1>1, <1>2 DEF PlaneInv, RotationInRange
  <1>4. Rotated(idx[s], Len(registry[s])) \in Nat
        /\ Rotated(idx[s], Len(registry[s])) < Len(registry[s])
    BY <1>2, <1>3 DEF Rotated
  <1> QED
    BY <1>1, <1>2, <1>4 DEF PlaneInv, NeverPicked, RotationInRange

LEMMA DiscoverUnknownKeeps ==
  ASSUME PlaneInv, NEW s \in Services, DiscoverUnknown(s) PROVE PlaneInv'
  BY DEF DiscoverUnknown, PlaneInv, NeverPicked, RotationInRange

-----------------------------------------------------------------------------
(* The Docker engine. *)

States == {"none", "created", "running", "exited"}
EngineInv == engine \in [Names -> [st : States, id : Nat]]

\* A container is another one of the same name only if it was created anew.
SameOrGone(e, name) ==
  e[name].st # "none" => Exists(name) /\ e[name].id = engine[name].id

LEMMA NewIs ==
  ASSUME EngineInv, NEW c \in Names, NEW st \in States
  PROVE  /\ New(c, st) \in [Names -> [st : States, id : Nat]]
         /\ New(c, st)[c].st = st
         /\ \A d \in Names : d # c => New(c, st)[d] = engine[d]
  <1>1. engine[c].id + 1 \in Nat
    BY DEF EngineInv
  <1> QED
    BY <1>1 DEF New, EngineInv

LEMMA WithIs ==
  ASSUME EngineInv, NEW c \in Names, NEW st \in States, Exists(c)
  PROVE  /\ With(c, st) \in [Names -> [st : States, id : Nat]]
         /\ With(c, st)[c].st = st
         /\ \A d \in Names : d # c => With(c, st)[d] = engine[d]
         /\ \A d \in Names : SameOrGone(With(c, st), d)
  <1> DEFINE e == engine[c]
  <1>0. e \in [st : States, id : Nat]
    BY DEF EngineInv
  <1>1. [e EXCEPT !.st = st] = [st |-> st, id |-> e.id]
    BY <1>0
  <1>2. With(c, st) = [engine EXCEPT ![c] = [e EXCEPT !.st = st]]
    BY DEF With
  <1>3. With(c, st) = [engine EXCEPT ![c] = [st |-> st, id |-> e.id]]
    BY <1>1, <1>2
  <1> QED
    BY <1>0, <1>3 DEF EngineInv, SameOrGone, Exists

\* What Docker answers: the state before the call, the state it asked for, or
\* what a refusal can leave.
LEMMA DockerIs ==
  ASSUME NEW able \in BOOLEAN, NEW done, NEW torn, NEW o \in Docker(able, done, torn)
  PROVE  /\ o.ok \in BOOLEAN
         /\ o.eng = engine \/ (able /\ (o.eng = done \/ o.eng \in torn))
         /\ o.ok => able /\ o.eng = done
  <1>1. CASE o.ok = FALSE /\ (o.eng = engine \/ (able /\ o.eng \in torn))
    BY <1>1
  <1>2. CASE o.ok = TRUE /\ able /\ o.eng = done
    BY <1>2
  <1>3. CASE o = [eng |-> engine, ok |-> FALSE, fault |-> 0]
    <2>1. o.eng = engine /\ o.ok = FALSE
      BY <1>3
    <2> QED
      BY <2>1, <1>1
  <1>4. CASE able /\ o = [eng |-> done, ok |-> TRUE, fault |-> 0]
    <2>1. o.eng = done /\ o.ok = TRUE
      BY <1>4
    <2> QED
      BY <1>4, <2>1, <1>2
  <1>5. CASE able /\ \E e \in torn : o = [eng |-> e, ok |-> FALSE, fault |-> 1]
    <2>1. PICK e \in torn : o = [eng |-> e, ok |-> FALSE, fault |-> 1]
      BY <1>5
    <2>2. o.eng = e /\ o.ok = FALSE
      BY <2>1
    <2> QED
      BY <1>5, <2>2, <1>1
  <1>6. \/ o = [eng |-> engine, ok |-> FALSE, fault |-> 0]
        \/ able /\ o = [eng |-> done, ok |-> TRUE, fault |-> 0]
        \/ able /\ \E e \in torn : o = [eng |-> e, ok |-> FALSE, fault |-> 1]
    BY DEF Docker
  <1> QED
    BY <1>3, <1>4, <1>5, <1>6

LEMMA CreatesIs ==
  ASSUME EngineInv, NEW c \in Names, NEW live \in BOOLEAN, NEW o \in Creates(c, live)
  PROVE  /\ o.ok \in BOOLEAN
         /\ o.eng \in [Names -> [st : States, id : Nat]]
         /\ \A d \in Names : d # c => o.eng[d] = engine[d]
         /\ o.eng[c] # engine[c] => ~Exists(c)
         /\ o.ok => ~Exists(c) /\ o.eng = New(c, "running")
  <1> DEFINE able == live /\ ~Exists(c)
  <1>1. able \in BOOLEAN /\ o \in Docker(able, New(c, "running"), {engine, New(c, "created")})
    BY DEF Creates
  <1> HIDE DEF able
  <1>2. /\ o.ok \in BOOLEAN
        /\ o.eng = engine \/ (able /\ o.eng \in {New(c, "running"), New(c, "created")})
        /\ o.ok => able /\ o.eng = New(c, "running")
    BY <1>1, DockerIs
  <1>3. "running" \in States /\ "created" \in States
    BY DEF States
  <1> QED
    <2>1. CASE o.eng = engine
      BY <1>2, <1>3, <2>1, NewIs DEF EngineInv, able
    <2>2. CASE able /\ o.eng \in {New(c, "running"), New(c, "created")}
      <3>1. PICK st \in States : o.eng = New(c, st)
        BY <1>3, <2>2
      <3>2. ~Exists(c)
        BY <2>2 DEF able
      <3>3. o.eng \in [Names -> [st : States, id : Nat]] /\ \A d \in Names : d # c => o.eng[d] = engine[d]
        BY <3>1, NewIs
      <3> QED
        BY <1>2, <3>2, <3>3
    <2> QED
      BY <1>2, <2>1, <2>2

\* Stopping, removing and restarting create nothing.
LEMMA ChangesIs ==
  ASSUME EngineInv, NEW c \in Names, NEW id, NEW live \in BOOLEAN,
         NEW o \in Stops(c, id, live) \cup Removes(c, id, live)
                     \cup RemovesName(c, live) \cup Restarts(c)
  PROVE  /\ o.ok \in BOOLEAN
         /\ o.eng \in [Names -> [st : States, id : Nat]]
         /\ \A d \in Names : d # c => o.eng[d] = engine[d]
         /\ \A d \in Names : SameOrGone(o.eng, d)
  <1>1. PICK able \in BOOLEAN, st \in States :
          /\ able => Exists(c)
          /\ o \in Docker(able, With(c, st), {engine})
    <2>1. CASE o \in Stops(c, id, live)
      <3>1. (live /\ HasId(c, id)) \in BOOLEAN /\ "exited" \in States
        BY DEF States
      <3> QED
        BY <2>1, <3>1 DEF Stops, HasId
    <2>2. CASE o \in Removes(c, id, live)
      <3>1. (live /\ HasId(c, id)) \in BOOLEAN /\ "none" \in States
        BY DEF States
      <3> QED
        BY <2>2, <3>1 DEF Removes, HasId
    <2>3. CASE o \in RemovesName(c, live)
      <3>1. (live /\ Exists(c)) \in BOOLEAN /\ "none" \in States
        BY DEF States
      <3> QED
        BY <2>3, <3>1 DEF RemovesName
    <2>4. CASE o \in Restarts(c)
      <3>1. Exists(c) \in BOOLEAN /\ "running" \in States
        BY DEF States, Exists
      <3> QED
        BY <2>4, <3>1 DEF Restarts
    <2> QED
      BY <2>1, <2>2, <2>3, <2>4
  <1>3. o.ok \in BOOLEAN /\ (o.eng = engine \/ (Exists(c) /\ o.eng = With(c, st)))
    BY <1>1, DockerIs
  <1>2. \A d \in Names : SameOrGone(engine, d)
    BY DEF SameOrGone, Exists
  <1> QED
    BY <1>2, <1>3, WithIs DEF EngineInv

-----------------------------------------------------------------------------
(* The parts of the invariant, and steps that leave a part alone. *)

CallsInv == call \in [Callers -> CallTypes] /\ WithinReplicas

MemoryInv ==
  /\ containers \in [Instances -> {NoInfo} \cup Info]
  /\ services \in [Services -> Seq(Instances)]
  /\ health \in [Instances -> {NoInfo} \cup ProbeStates]

Events == {"restart", "overlap", "cancel", "removal", "stray"}
StageInv ==
  /\ cdocker \in {"absent", "up", "draining", "exited"}
  /\ destroy \in DestroyStates
  /\ seen \subseteq Events

MonitorInv == DownForgets /\ StatesTracked

LEMMA Parts ==
  IInv <=> /\ PlaneInv /\ EngineInv /\ CallsInv /\ MemoryInv /\ StageInv
           /\ OneCallAtATime /\ RemovesOwn /\ MonitorInv
  BY DEF IInv, TypeOK, MonitorInv, PlaneInv, EngineInv, CallsInv, MemoryInv, StageInv, States, Events

LEMMA PartsNext ==
  ASSUME PlaneInv', EngineInv', CallsInv', MemoryInv', StageInv',
         OneCallAtATime', RemovesOwn', MonitorInv'
  PROVE  IInv'
  BY DEF IInv, TypeOK, MonitorInv, PlaneInv, EngineInv, CallsInv, MemoryInv, StageInv, States, Events

\* A call is what its operation says.
LEMMA CallIs ==
  ASSUME CallsInv, NEW c \in Callers
  PROVE  /\ call[c] \in CallTypes
         /\ call[c].op = "deploy" => call[c] \in DeployCalls
         /\ call[c].op \in {"stop", "remove"} => call[c] \in WalkCalls
         /\ call[c].op = "monitoring" => call[c] \in MonitoringCalls
         /\ Busy(c) => call[c] \in DeployCalls \cup WalkCalls \cup MonitoringCalls
  <1>1. call[c] \in CallTypes
    BY DEF CallsInv
  <1>2. Idle.op = "none"
    BY DEF Idle
  <1>3. \A r \in DeployCalls : r.op = "deploy"
    BY DEF DeployCalls
  <1>4. \A r \in WalkCalls : r.op \in {"stop", "remove"}
    BY DEF WalkCalls
  <1>5. \A r \in MonitoringCalls : r.op = "monitoring"
    BY DEF MonitoringCalls
  <1> QED
    BY <1>1, <1>2, <1>3, <1>4, <1>5 DEF CallTypes, Busy

\* One call moves on to r.
LEMMA ProceedsKeepsCalls ==
  ASSUME CallsInv, NEW c \in Callers, NEW r \in CallTypes,
         r.op = "deploy" => r.k <= r.n, Proceeds(c, r)
  PROVE  CallsInv' /\ call'[c] = r /\ \A d \in Callers : d # c => call'[d] = call[d]
  BY DEF CallsInv, Proceeds, WithinReplicas

LEMMA ReturnsIsProceeds ==
  ASSUME NEW c, Returns(c)
  PROVE  Proceeds(c, Idle) /\ Idle \in CallTypes /\ Idle.op = "none"
  BY DEF Returns, Idle, CallTypes

LEMMA CallsUnchanged == ASSUME CallsInv, UNCHANGED call PROVE CallsInv'
  BY DEF CallsInv, WithinReplicas

LEMMA MemoryUnchanged == ASSUME MemoryInv, UNCHANGED memory PROVE MemoryInv'
  BY DEF MemoryInv, memory

LEMMA EngineUnchanged ==
  ASSUME EngineInv, UNCHANGED engine
  PROVE  EngineInv' /\ \A name \in Names : SameOrGone(engine', name)
  BY DEF EngineInv, SameOrGone, Exists

\* No call becomes busy.
LEMMA NoNewCall ==
  ASSUME CallsInv, OneCallAtATime, seen \subseteq seen',
         \A c \in Callers : \/ call'[c] = Idle
                            \/ /\ Busy(c) /\ call'[c].op = call[c].op
                               /\ call[c].op # "monitoring" => call'[c].svc = call[c].svc
  PROVE  OneCallAtATime'
  <1> SUFFICES ASSUME "overlap" \notin seen', NEW s \in Services,
                      NEW c \in Calls(s)', NEW d \in Calls(s)'
               PROVE  c = d
    BY DEF OneCallAtATime
  <1>1. ASSUME NEW e \in Calls(s)' PROVE e \in Calls(s)
    <2>1. e \in Callers /\ call'[e] # Idle /\ call'[e].op # "monitoring" /\ call'[e].svc = s
      BY <1>1 DEF Calls, Busy
    <2>2. /\ Busy(e) /\ call'[e].op = call[e].op
          /\ call[e].op # "monitoring" => call'[e].svc = call[e].svc
      BY <2>1
    <2> QED
      BY <2>1, <2>2 DEF Calls
  <1> QED
    BY <1>1 DEF OneCallAtATime

\* What caller c would remove is its own.
Own(c) ==
  \A kind \in {"app", "side"}, j \in Replicas :
    LET name == <<kind, <<call[c].svc, j>>>>
    IN call[c].op = "deploy" /\ ToRemove(c, kind, j) /\ Exists(name)
         => <<name, engine[name].id>> \in call[c].made

\* The containers of the instances, as against those of the platform.
ReplicaNames == {App(n) : n \in Instances} \cup {Side(n) : n \in Instances}
PlatformNames == {Control, Prometheus, Grafana}

LEMMA NamesDiffer ==
  /\ Names = ReplicaNames \cup PlatformNames
  /\ ReplicaNames \cap PlatformNames = {}
  /\ \A m, n \in Instances : App(m) # Side(n)
  /\ \A m, n \in Instances : (App(m) = App(n) \/ Side(m) = Side(n)) => m = n
  BY DEF Names, ReplicaNames, PlatformNames, App, Side, Control, Prometheus, Grafana

LEMMA OwnNames ==
  ASSUME CallsInv, NEW c \in Callers, call[c].op = "deploy",
         NEW kind \in {"app", "side"}, NEW j \in Replicas
  PROVE  <<kind, <<call[c].svc, j>>>> \in ReplicaNames
  <1>1. call[c].svc \in Services
    BY CallIs DEF DeployCalls
  <1> QED
    BY <1>1 DEF ReplicaNames, App, Side, Instances

LEMMA OwnUnchanged ==
  ASSUME CallsInv, NEW c \in Callers, Own(c), call'[c] = call[c],
         \A kind \in {"app", "side"}, j \in Replicas :
           call[c].op = "deploy" => SameOrGone(engine', <<kind, <<call[c].svc, j>>>>)
  PROVE  Own(c)'
  <1> SUFFICES ASSUME NEW kind \in {"app", "side"}, NEW j \in Replicas,
                      call[c].op = "deploy", ToRemove(c, kind, j),
                      engine'[<<kind, <<call[c].svc, j>>>>].st # "none"
               PROVE  <<<<kind, <<call[c].svc, j>>>>,
                        engine'[<<kind, <<call[c].svc, j>>>>].id>> \in call[c].made
    BY DEF Own, ToRemove, Exists
  <1> DEFINE name == <<kind, <<call[c].svc, j>>>>
  <1>1. Exists(name) /\ engine'[name].id = engine[name].id
    BY DEF SameOrGone
  <1> QED
    BY <1>1 DEF Own

LEMMA RemovesOwnUnchanged ==
  ASSUME CallsInv, RemovesOwn, seen \subseteq seen',
         \A c \in Callers : call'[c] = call[c] \/ call'[c].op # "deploy",
         \A name \in ReplicaNames : SameOrGone(engine', name)
  PROVE  RemovesOwn'
  <1> SUFFICES ASSUME "overlap" \notin seen', NEW c \in Callers PROVE Own(c)'
    BY DEF RemovesOwn, Own
  <1>1. CASE call'[c].op # "deploy"
    BY <1>1 DEF Own
  <1>2. CASE call'[c] = call[c]
    <2>1. Own(c)
      BY DEF RemovesOwn, Own
    <2> QED
      BY <1>2, <2>1, OwnNames, OwnUnchanged
  <1> QED
    BY <1>1, <1>2

LEMMA MonitorUnchanged ==
  ASSUME MonitorInv, UNCHANGED <<containers, health, cdocker>>, seen \subseteq seen'
  PROVE  MonitorInv'
  BY DEF MonitorInv, DownForgets, StatesTracked

-----------------------------------------------------------------------------
(* The process. *)

LEMMA InitIInv == Init => IInv
  <1> SUFFICES ASSUME Init PROVE IInv
    OBVIOUS
  <1>1. PlaneInv
    <2>1. << >> \in Seq(Instances) /\ 0 \in Nat
      OBVIOUS
    <2> QED
      BY <2>1 DEF Init, EmptyPlane, PlaneInv, NeverPicked, RotationInRange
  <1>2. EngineInv
    BY DEF Init, EngineInv, States
  <1>3. call \in [Callers -> CallTypes] /\ \A c \in Callers : call[c] = Idle
    BY DEF Init, CallTypes
  <1>4. Idle.op = "none"
    BY DEF Idle
  <1>5. CallsInv /\ OneCallAtATime /\ RemovesOwn
    BY <1>3, <1>4 DEF CallsInv, WithinReplicas, OneCallAtATime, Calls, Busy, RemovesOwn
  <1>6. MemoryInv
    <2>1. << >> \in Seq(Instances)
      OBVIOUS
    <2> QED
      BY <2>1 DEF Init, MemoryInv
  <1>7. StageInv /\ MonitorInv
    BY DEF Init, StageInv, DestroyStates, Events, MonitorInv, DownForgets, StatesTracked
  <1> QED
    BY <1>1, <1>2, <1>5, <1>6, <1>7, Parts

\* A process that ends takes its maps and its calls with it.
LEMMA ForgottenKeeps ==
  ASSUME Forgotten, cdocker' # "up"
  PROVE  CallsInv' /\ MemoryInv' /\ OneCallAtATime' /\ RemovesOwn' /\ MonitorInv'
  <1>1. call' \in [Callers -> CallTypes] /\ \A c \in Callers : call'[c] = Idle
    BY DEF Forgotten, CallTypes
  <1>2. Idle.op = "none"
    BY DEF Idle
  <1>3. << >> \in Seq(Instances)
    OBVIOUS
  <1>4. CallsInv' /\ OneCallAtATime' /\ RemovesOwn'
    BY <1>1, <1>2 DEF CallsInv, WithinReplicas, OneCallAtATime, Calls, Busy, RemovesOwn
  <1>5. MemoryInv'
    BY <1>3 DEF Forgotten, MemoryInv
  <1>6. MonitorInv'
    BY DEF Forgotten, MonitorInv, DownForgets, StatesTracked
  <1> QED
    BY <1>4, <1>5, <1>6

LEMMA BootKeeps == ASSUME IInv, Boot PROVE IInv'
  <1>0. /\ PlaneInv /\ EngineInv /\ CallsInv /\ MemoryInv /\ StageInv
        /\ OneCallAtATime /\ RemovesOwn /\ MonitorInv
    BY Parts
  <1>1. PICK o \in Creates(Control, TRUE) :
          /\ engine' = o.eng
          /\ cdocker' = IF o.ok THEN "up" ELSE "exited"
          /\ IF o.ok THEN FreshPlane ELSE UNCHANGED planeVars
    BY DEF Boot, Leaves
  <1>2. UNCHANGED <<containers, services, health, call, seen>> /\ destroy' \in DestroyStates
    BY DEF Boot, memory, DestroyStates
  <1>3. Control \in Names /\ Control \notin ReplicaNames
    BY NamesDiffer DEF PlatformNames
  <1>4. EngineInv' /\ \A name \in ReplicaNames : SameOrGone(engine', name)
    <2>1. o.eng \in [Names -> [st : States, id : Nat]] /\ \A d \in Names : d # Control => o.eng[d] = engine[d]
      BY <1>0, <1>3, CreatesIs
    <2>2. ReplicaNames \subseteq Names
      BY NamesDiffer
    <2>3. \A name \in ReplicaNames : SameOrGone(engine', name)
      BY <1>1, <1>3, <2>1, <2>2 DEF SameOrGone, Exists
    <2> QED
      BY <1>1, <2>1, <2>3 DEF EngineInv
  <1>5. PlaneInv'
    BY <1>0, <1>1, FreshPlaneKeeps, PlaneUnchanged
  <1>6. CallsInv' /\ MemoryInv' /\ RemovesOwn' /\ OneCallAtATime'
    BY <1>0, <1>2, <1>4, CallsUnchanged, MemoryUnchanged, RemovesOwnUnchanged
       DEF memory, OneCallAtATime, Calls, Busy
  <1>7. StageInv'
    BY <1>0, <1>1, <1>2 DEF StageInv
  <1>8. MonitorInv'
    BY <1>0, <1>2 DEF Boot, MonitorInv, DownForgets, StatesTracked
  <1> QED
    BY <1>4, <1>5, <1>6, <1>7, <1>8, PartsNext

\* docker stop of cdocker: the control plane's container goes, no other.
LEMMA HaltedKeeps ==
  ASSUME IInv, NEW o \in RemovesName(Control, TRUE), Halted(o), UNCHANGED planeVars,
         destroy' \in DestroyStates
  PROVE  IInv'
  <1>0. /\ PlaneInv /\ EngineInv /\ CallsInv /\ MemoryInv /\ StageInv
        /\ OneCallAtATime /\ RemovesOwn /\ MonitorInv
    BY Parts
  <1>1. /\ engine' = o.eng /\ cdocker' = "draining" /\ seen' = seen \cup {"restart"}
        /\ UNCHANGED <<memory, call>>
    BY DEF Halted, Leaves
  <1>2. Control \in Names
    BY NamesDiffer DEF PlatformNames
  <1>3. EngineInv' /\ \A name \in ReplicaNames : SameOrGone(engine', name)
    BY <1>0, <1>1, <1>2, ChangesIs, NamesDiffer DEF EngineInv
  <1>4. StageInv' /\ MonitorInv'
    BY <1>0, <1>1 DEF StageInv, Events, MonitorInv, DownForgets, StatesTracked
  <1>5. CallsInv' /\ MemoryInv' /\ OneCallAtATime' /\ RemovesOwn'
    BY <1>0, <1>1, <1>3, CallsUnchanged, MemoryUnchanged, RemovesOwnUnchanged
       DEF OneCallAtATime, Calls, Busy
  <1> QED
    BY <1>0, <1>3, <1>4, <1>5, PlaneUnchanged, PartsNext

LEMMA ForceRestartKeeps == ASSUME IInv, ForceRestart PROVE IInv'
  <1>1. PICK o \in RemovesName(Control, TRUE) : Halted(o)
    BY DEF ForceRestart
  <1>2. UNCHANGED planeVars /\ destroy' \in DestroyStates
    BY DEF ForceRestart, IInv, TypeOK
  <1> QED
    BY <1>1, <1>2, HaltedKeeps

LEMMA DestroyHaltsKeeps == ASSUME IInv, DestroyHalts PROVE IInv'
  <1>1. PICK o \in RemovesName(Control, TRUE) : Halted(o)
    BY DEF DestroyHalts
  <1>2. UNCHANGED planeVars /\ destroy' \in DestroyStates
    BY DEF DestroyHalts, IInv, TypeOK
  <1> QED
    BY <1>1, <1>2, HaltedKeeps

LEMMA ExitsKeeps == ASSUME IInv, Exits PROVE IInv'
  <1>0. /\ PlaneInv /\ EngineInv /\ CallsInv /\ MemoryInv /\ StageInv
        /\ OneCallAtATime /\ RemovesOwn /\ MonitorInv
    BY Parts
  <1>1. Forgotten /\ cdocker' = "absent" /\ UNCHANGED <<planeVars, engine, destroy, seen>>
    BY DEF Exits
  <1>2. StageInv'
    BY <1>0, <1>1 DEF StageInv
  <1> QED
    BY <1>0, <1>1, <1>2, PlaneUnchanged, EngineUnchanged, ForgottenKeeps, PartsNext

LEMMA DiedKeeps ==
  ASSUME IInv, Died, UNCHANGED <<planeVars, engine, destroy, seen>> PROVE IInv'
  <1>0. /\ PlaneInv /\ EngineInv /\ CallsInv /\ MemoryInv /\ StageInv
        /\ OneCallAtATime /\ RemovesOwn /\ MonitorInv
    BY Parts
  <1>1. Forgotten /\ cdocker' = "exited"
    BY DEF Died
  <1>2. StageInv'
    BY <1>0, <1>1 DEF StageInv
  <1> QED
    BY <1>0, <1>1, <1>2, PlaneUnchanged, EngineUnchanged, ForgottenKeeps, PartsNext

LEMMA CrashKeeps == ASSUME IInv, Crash PROVE IInv'
  BY DiedKeeps DEF Crash

\* A step that leaves cdocker alone, its calls included, and creates nothing.
LEMMA BesideKeeps ==
  ASSUME IInv, PlaneInv', EngineInv', \A name \in ReplicaNames : SameOrGone(engine', name),
         UNCHANGED <<memory, call, cdocker, seen>>,
         destroy' \in DestroyStates
  PROVE  IInv'
  <1>0. /\ PlaneInv /\ EngineInv /\ CallsInv /\ MemoryInv /\ StageInv
        /\ OneCallAtATime /\ RemovesOwn /\ MonitorInv
    BY Parts
  <1>1. StageInv' /\ OneCallAtATime'
    BY <1>0 DEF StageInv, OneCallAtATime, Calls, Busy
  <1>2. MemoryInv' /\ CallsInv'
    BY <1>0, MemoryUnchanged, CallsUnchanged
  <1>3. MonitorInv'
    BY <1>0, MonitorUnchanged DEF memory
  <1>4. RemovesOwn'
    BY <1>0, RemovesOwnUnchanged
  <1> QED
    BY <1>1, <1>2, <1>3, <1>4, PartsNext

LEMMA RequestsKeep == ASSUME IInv, Requests PROVE IInv'
  <1>0. /\ PlaneInv /\ EngineInv /\ CallsInv /\ MemoryInv /\ StageInv
        /\ OneCallAtATime /\ RemovesOwn /\ MonitorInv
    BY Parts
  <1>1. PICK s \in Services : SidecarDiscovers(s) \/ ProxyThroughPlane(s)
    BY DEF Requests
  <1>2. Pick(s) \/ DiscoverUnknown(s)
    BY <1>1 DEF SidecarDiscovers, ProxyThroughPlane
  <1>3. UNCHANGED <<memory, call, cdocker, engine, destroy, seen>>
    BY <1>1 DEF SidecarDiscovers, ProxyThroughPlane
  <1>4. PlaneInv'
    BY <1>0, <1>2, PickKeeps, DiscoverUnknownKeeps
  <1>5. EngineInv' /\ \A name \in ReplicaNames : SameOrGone(engine', name)
    BY <1>0, <1>3, EngineUnchanged, NamesDiffer
  <1>6. destroy' \in DestroyStates
    BY <1>0, <1>3 DEF StageInv
  <1> QED
    BY <1>3, <1>4, <1>5, <1>6, BesideKeeps

LEMMA AppExitsKeeps == ASSUME IInv, NEW n \in Instances, AppExits(n) PROVE IInv'
  <1>0. /\ PlaneInv /\ EngineInv /\ CallsInv /\ MemoryInv /\ StageInv
        /\ OneCallAtATime /\ RemovesOwn /\ MonitorInv
    BY Parts
  <1>1. App(n) \in Names /\ Exists(App(n)) /\ "exited" \in States
    BY DEF AppExits, Running, Exists, Names, States
  <1>2. EngineInv' /\ \A name \in Names : SameOrGone(engine', name)
    BY <1>0, <1>1, WithIs DEF AppExits, EngineInv
  <1>3. UNCHANGED <<memory, call, cdocker, seen>> /\ PlaneInv'
    BY <1>0, PlaneUnchanged DEF AppExits
  <1>4. destroy' \in DestroyStates
    BY <1>0 DEF AppExits, StageInv
  <1> QED
    BY <1>2, <1>3, <1>4, BesideKeeps, NamesDiffer

LEMMA DestroyStartsKeeps == ASSUME IInv, DestroyStarts PROVE IInv'
  <1>0. /\ PlaneInv /\ EngineInv /\ CallsInv /\ MemoryInv /\ StageInv
        /\ OneCallAtATime /\ RemovesOwn /\ MonitorInv
    BY Parts
  <1>1. UNCHANGED <<memory, call, cdocker, engine, seen>> /\ destroy' \in DestroyStates
    BY DEF DestroyStarts, DestroyStates
  <1>2. PlaneInv'
    BY <1>0, PlaneUnchanged DEF DestroyStarts
  <1>3. EngineInv' /\ \A name \in ReplicaNames : SameOrGone(engine', name)
    BY <1>0, <1>1, EngineUnchanged, NamesDiffer
  <1> QED
    BY <1>1, <1>2, <1>3, BesideKeeps

LEMMA DestroyEndsKeeps == ASSUME IInv, DestroyEnds PROVE IInv'
  <1>0. /\ PlaneInv /\ EngineInv /\ CallsInv /\ MemoryInv /\ StageInv
        /\ OneCallAtATime /\ RemovesOwn /\ MonitorInv
    BY Parts
  <1>1. /\ cdocker \in {"absent", "exited"} /\ cdocker' = "absent"
        /\ UNCHANGED <<planeVars, memory, call, engine, seen>> /\ destroy' \in DestroyStates
    BY DEF DestroyEnds, DestroyStates
  <1>2. PlaneInv' /\ EngineInv' /\ CallsInv' /\ MemoryInv'
    BY <1>0, <1>1, PlaneUnchanged, EngineUnchanged, CallsUnchanged, MemoryUnchanged
  <1>3. StageInv' /\ OneCallAtATime'
    BY <1>0, <1>1 DEF StageInv, OneCallAtATime, Calls, Busy
  <1>4. RemovesOwn'
    BY <1>0, <1>1, RemovesOwnUnchanged, EngineUnchanged, NamesDiffer
  <1>5. MonitorInv'
    BY <1>0, <1>1 DEF MonitorInv, DownForgets, StatesTracked, memory
  <1> QED
    BY <1>2, <1>3, <1>4, <1>5, PartsNext

-----------------------------------------------------------------------------
(* The steps of the handlers. *)

\* A handler moves on to r, having created at most containers of its own
\* instance and, if it deploys, knowing what of it it would have to remove.
LEMMA HandlerStep ==
  ASSUME CallsInv, OneCallAtATime, RemovesOwn, seen \subseteq seen',
         NEW c \in Callers, Busy(c), NEW r \in CallTypes, Proceeds(c, r),
         \/ r = Idle
         \/ r.op = call[c].op /\ (call[c].op # "monitoring" => r.svc = call[c].svc),
         r.op = "deploy" => r.k <= r.n,
         \A name \in ReplicaNames :
           \/ SameOrGone(engine', name)
           \/ call[c].op = "deploy" /\ name \in {App(Instance(c)), Side(Instance(c))},
         r.op = "deploy" /\ Own(c) => Own(c)'
  PROVE  CallsInv' /\ OneCallAtATime' /\ RemovesOwn'
  <1>1. CallsInv' /\ call'[c] = r /\ \A d \in Callers : d # c => call'[d] = call[d]
    BY ProceedsKeepsCalls
  <1>2. OneCallAtATime'
    <2>1. ASSUME NEW d \in Callers
          PROVE \/ call'[d] = Idle
                \/ /\ Busy(d) /\ call'[d].op = call[d].op
                   /\ call[d].op # "monitoring" => call'[d].svc = call[d].svc
      <3>1. CASE d = c
        BY <1>1, <3>1
      <3>2. CASE d # c
        BY <1>1, <3>2 DEF Busy
      <3> QED
        BY <3>1, <3>2
    <2> QED
      BY <2>1, NoNewCall
  <1>3. RemovesOwn'
    <2> SUFFICES ASSUME "overlap" \notin seen', NEW d \in Callers PROVE Own(d)'
      BY DEF RemovesOwn, Own
    <2>1. Own(d) /\ Own(c) /\ "overlap" \notin seen
      BY DEF RemovesOwn, Own
    <2>2. CASE d = c
      <3>1. CASE r.op = "deploy"
        BY <2>1, <2>2, <3>1
      <3>2. CASE r.op # "deploy"
        BY <1>1, <2>2, <3>2 DEF Own
      <3> QED
        BY <3>1, <3>2
    <2>3. CASE d # c
      <3>1. ASSUME NEW kind \in {"app", "side"}, NEW j \in Replicas, call[d].op = "deploy"
            PROVE  SameOrGone(engine', <<kind, <<call[d].svc, j>>>>)
        <4>1. <<kind, <<call[d].svc, j>>>> \in ReplicaNames
          BY <3>1, OwnNames
        <4>2. CASE call[c].op = "deploy" /\ call[c].svc = call[d].svc
          <5>1. call[d].svc \in Services /\ Busy(d)
            BY <3>1, CallIs DEF DeployCalls, Busy, Idle
          <5>2. c \in Calls(call[d].svc) /\ d \in Calls(call[d].svc)
            BY <3>1, <4>2, <5>1 DEF Calls
          <5> QED
            BY <2>1, <2>3, <5>1, <5>2 DEF OneCallAtATime
        <4>3. CASE ~(call[c].op = "deploy" /\ call[c].svc = call[d].svc)
          BY <4>1, <4>3 DEF App, Side, Instance
        <4> QED
          BY <4>2, <4>3
      <3> QED
        BY <1>1, <2>1, <2>3, <3>1, OwnUnchanged
    <2> QED
      BY <2>2, <2>3
  <1> QED
    BY <1>1, <1>2, <1>3

\* What a deployment looks like, and what its next steps look like.
LEMMA DeployIs ==
  ASSUME CallsInv, NEW c \in Callers, call[c].op = "deploy"
  PROVE  /\ call[c] \in DeployCalls /\ Busy(c)
         /\ call[c].svc \in Services /\ call[c].n \in Replicas /\ call[c].k \in Replicas
         /\ call[c].k <= call[c].n /\ call[c].live \in BOOLEAN /\ call[c].ids \in Info
         /\ call[c].made \subseteq Names \X Nat
         /\ Instance(c) \in Instances
         /\ App(Instance(c)) \in ReplicaNames /\ Side(Instance(c)) \in ReplicaNames
  <1>1. call[c] \in DeployCalls
    BY CallIs
  <1>2. Busy(c)
    BY DEF Busy, Idle
  <1>3. call[c].svc \in Services /\ call[c].k \in Replicas
    BY <1>1 DEF DeployCalls
  <1>4. Instance(c) \in Instances
    BY <1>3 DEF Instance, Instances
  <1>5. call[c].k <= call[c].n
    BY DEF CallsInv, WithinReplicas
  <1> QED
    BY <1>1, <1>2, <1>4, <1>5 DEF DeployCalls, ReplicaNames

LEMMA ReplicasAre == \A k : k \in Replicas <=> k \in Nat /\ 1 <= k /\ k <= MaxReplicas
  BY PlatformAssumption DEF Replicas

LEMMA IdKept ==
  ASSUME NEW ids \in Info, NEW kind \in {"app", "side"}, NEW id \in Nat
  PROVE  [ids EXCEPT ![kind] = id] \in Info
  <1>1. CASE kind = "app"
    BY <1>1 DEF Info
  <1>2. CASE kind = "side"
    BY <1>2 DEF Info
  <1> QED
    BY <1>1, <1>2

\* A replica that failed is not cleaned up: the rollback ends at the one before.
LEMMA RollsBackStep ==
  ASSUME CallsInv, OneCallAtATime, RemovesOwn, seen \subseteq seen',
         NEW c \in Callers, call[c].op = "deploy", call[c].at \in {"side", "app"}, RollsBack(c),
         \A name \in ReplicaNames :
           name \notin {App(Instance(c)), Side(Instance(c))} => SameOrGone(engine', name)
  PROVE  CallsInv' /\ OneCallAtATime' /\ RemovesOwn'
  <1>0. /\ call[c] \in DeployCalls /\ Busy(c) /\ call[c].n \in Replicas /\ call[c].k \in Replicas
        /\ call[c].k <= call[c].n
    BY DeployIs
  <1>1. CASE call[c].k = 1
    <2>1. Proceeds(c, Idle) /\ Idle \in CallTypes /\ Idle.op = "none"
      BY <1>1, ReturnsIsProceeds DEF RollsBack
    <2> QED
      BY <1>0, <2>1, HandlerStep
  <1>2. CASE call[c].k # 1
    <2> DEFINE r == [call[c] EXCEPT !.at = "cleanApp", !.n = call[c].k - 1, !.k = 1]
    <2>1. call[c].k - 1 \in Replicas /\ 1 \in Replicas
      BY <1>0, <1>2, PlatformAssumption DEF Replicas
    <2>2. /\ r \in DeployCalls /\ r.op = "deploy" /\ r.svc = call[c].svc /\ r.made = call[c].made
          /\ r.at = "cleanApp" /\ r.n = call[c].k - 1 /\ r.k = 1
      BY <1>0, <2>1 DEF DeployCalls
    <2>3. Proceeds(c, r)
      BY <1>2 DEF RollsBack
    <2> HIDE DEF r
    <2>4. r \in CallTypes /\ r.k <= r.n
      BY <2>1, <2>2, ReplicasAre DEF CallTypes
    <2>5. call'[c] = r
      BY <2>3, <2>4, ProceedsKeepsCalls
    <2>6. ASSUME Own(c) PROVE Own(c)'
      <3> SUFFICES ASSUME NEW kind \in {"app", "side"}, NEW j \in Replicas, ToRemove(c, kind, j)',
                          engine'[<<kind, <<r.svc, j>>>>].st # "none"
                   PROVE  <<<<kind, <<r.svc, j>>>>, engine'[<<kind, <<r.svc, j>>>>].id>> \in r.made
        BY <2>5 DEF Own, Exists
      <3> DEFINE name == <<kind, <<call[c].svc, j>>>>
      <3>1. j \in 1 .. (call[c].k - 1)
        BY <2>2, <2>5 DEF ToRemove
      <3>2. j < call[c].k /\ ToRemove(c, kind, j)
        BY <1>0, <3>1, ReplicasAre DEF ToRemove
      <3>3. name \in ReplicaNames /\ name \notin {App(Instance(c)), Side(Instance(c))}
        BY <1>0, <3>2, OwnNames, ReplicasAre DEF App, Side, Instance
      <3>4. Exists(name) /\ engine'[name].id = engine[name].id
        BY <2>2, <3>3 DEF SameOrGone
      <3> QED
        BY <2>2, <2>6, <3>2, <3>4 DEF Own
    <2> QED
      BY <1>0, <2>2, <2>3, <2>4, <2>6, HandlerStep
  <1> QED
    BY <1>1, <1>2

\* One container of the instance: made, or the deployment is rolled back.
LEMMA ProvisionKeeps ==
  ASSUME IInv, NEW c \in Callers, call[c].op = "deploy",
         NEW kind \in {"app", "side"}, NEW next,
         \/ call[c].at = "side" /\ kind = "side" /\ next = "app"
         \/ call[c].at = "app" /\ kind = "app" /\ next = "register",
         Provision(c, <<kind, Instance(c)>>, kind, next)
  PROVE  IInv'
  <1>0. /\ PlaneInv /\ EngineInv /\ CallsInv /\ MemoryInv /\ StageInv
        /\ OneCallAtATime /\ RemovesOwn /\ MonitorInv
    BY Parts
  <1> DEFINE name == <<kind, Instance(c)>>
  <1>1. /\ call[c] \in DeployCalls /\ Busy(c) /\ call[c].n \in Replicas /\ call[c].k \in Replicas
        /\ call[c].k <= call[c].n /\ call[c].live \in BOOLEAN /\ Instance(c) \in Instances
    BY <1>0, DeployIs
  <1>2. name \in Names /\ name \in ReplicaNames /\ name \in {App(Instance(c)), Side(Instance(c))}
    BY <1>1, NamesDiffer DEF App, Side, ReplicaNames
  <1>3. PICK o \in Creates(name, call[c].live) :
          /\ engine' = o.eng
          /\ IF o.ok THEN Proceeds(c, [call[c] EXCEPT !.at = next,
                                         !.ids[kind] = engine'[name].id,
                                         !.made = @ \cup {<<name, engine'[name].id>>}])
             ELSE RollsBack(c)
    BY DEF Provision, Leaves
  <1>4. UNCHANGED <<planeVars, memory, cdocker, destroy, seen>>
    BY DEF Provision
  <1> HIDE DEF name
  <1>5. /\ o.ok \in BOOLEAN /\ engine' \in [Names -> [st : States, id : Nat]]
        /\ \A d \in Names : d # name => engine'[d] = engine[d]
    BY <1>0, <1>1, <1>2, <1>3, CreatesIs
  <1>6. \A d \in ReplicaNames : d # name => SameOrGone(engine', d)
    BY <1>5, NamesDiffer DEF SameOrGone, Exists
  <1>7. CallsInv' /\ OneCallAtATime' /\ RemovesOwn'
    <2>1. CASE ~o.ok
      BY <1>0, <1>2, <1>3, <1>4, <1>6, <2>1, RollsBackStep
    <2>2. CASE o.ok
      <3> DEFINE id == engine'[name].id
                 r == [call[c] EXCEPT !.at = next, !.ids[kind] = id, !.made = @ \cup {<<name, id>>}]
      <3>1. id \in Nat /\ Proceeds(c, r)
        BY <1>2, <1>3, <1>5, <2>2
      <3> DEFINE ids == [call[c].ids EXCEPT ![kind] = id]
                 made == call[c].made \cup {<<name, id>>}
      <3>5. ids \in Info /\ made \in SUBSET (Names \X Nat)
        <4>1. call[c].ids \in Info /\ call[c].made \subseteq Names \X Nat
          BY <1>1 DEF DeployCalls
        <4> QED
          BY <1>2, <3>1, <4>1, IdKept
      <3>6. r = [call[c] EXCEPT !.at = next, !.ids = ids, !.made = made]
        OBVIOUS
      <3>7. next \in {"app", "register"}
        OBVIOUS
      <3> HIDE DEF r, ids, made
      <3>2. /\ r \in DeployCalls /\ r.op = "deploy" /\ r.svc = call[c].svc /\ r.made = made
            /\ r.at = next /\ r.n = call[c].n /\ r.k = call[c].k
        BY <1>1, <3>5, <3>6, <3>7 DEF DeployCalls
      <3> USE DEF made
      <3>3. r \in CallTypes /\ call'[c] = r
        BY <1>0, <1>1, <3>1, <3>2, ProceedsKeepsCalls DEF CallTypes
      <3>4. ASSUME Own(c) PROVE Own(c)'
        <4> SUFFICES ASSUME NEW kd \in {"app", "side"}, NEW j \in Replicas, ToRemove(c, kd, j)',
                            engine'[<<kd, <<r.svc, j>>>>].st # "none"
                     PROVE  <<<<kd, <<r.svc, j>>>>, engine'[<<kd, <<r.svc, j>>>>].id>> \in r.made
          BY <3>3 DEF Own, Exists
        <4> DEFINE d == <<kd, <<call[c].svc, j>>>>
        <4>1. CASE d = name
          BY <3>2, <4>1
        <4>2. CASE d # name
          <5>1. ~(kd = kind /\ j = call[c].k)
            BY <4>2 DEF name, Instance
          <5>2. ToRemove(c, kd, j)
            BY <1>1, <3>2, <3>3, <5>1, ReplicasAre DEF ToRemove
          <5>3. d \in ReplicaNames
            BY <1>0, OwnNames
          <5>4. Exists(d) /\ engine'[d].id = engine[d].id
            BY <1>6, <3>2, <4>2, <5>3 DEF SameOrGone
          <5> QED
            BY <3>2, <3>4, <5>2, <5>4 DEF Own
        <4> QED
          BY <4>1, <4>2
      <3> QED
        BY <1>0, <1>1, <1>2, <1>4, <1>6, <3>1, <3>2, <3>3, <3>4, HandlerStep
    <2> QED
      BY <1>5, <2>1, <2>2
  <1>8. PlaneInv' /\ MemoryInv' /\ MonitorInv'
    BY <1>0, <1>4, PlaneUnchanged, MemoryUnchanged, MonitorUnchanged DEF memory
  <1>9. StageInv' /\ EngineInv'
    BY <1>0, <1>4, <1>5 DEF StageInv, EngineInv
  <1> QED
    BY <1>7, <1>8, <1>9, PartsNext

LEMMA CreateSidecarKeeps == ASSUME IInv, NEW c \in Callers, CreateSidecar(c) PROVE IInv'
  <1>1. /\ call[c].op = "deploy" /\ call[c].at = "side"
        /\ Provision(c, <<"side", Instance(c)>>, "side", "app")
    BY DEF CreateSidecar, At, Side
  <1> QED
    BY <1>1, ProvisionKeeps

LEMMA CreateAppKeeps == ASSUME IInv, NEW c \in Callers, CreateApp(c) PROVE IInv'
  <1>1. /\ call[c].op = "deploy" /\ call[c].at = "app"
        /\ Provision(c, <<"app", Instance(c)>>, "app", "register")
    BY DEF CreateApp, At, App
  <1> QED
    BY <1>1, ProvisionKeeps

\* The books are written whatever the control plane answered.
LEMMA RegisterReplicaKeeps == ASSUME IInv, NEW c \in Callers, RegisterReplica(c) PROVE IInv'
  <1>0. /\ PlaneInv /\ EngineInv /\ CallsInv /\ MemoryInv /\ StageInv
        /\ OneCallAtATime /\ RemovesOwn /\ MonitorInv
    BY Parts
  <1> DEFINE n == Instance(c)
             r == [call[c] EXCEPT !.at = "side", !.k = call[c].k + 1]
  <1>1. call[c].op = "deploy" /\ call[c].at = "register" /\ UNCHANGED <<health, cdocker, engine, destroy, seen>>
    BY DEF RegisterReplica, At
  <1>2. /\ call[c] \in DeployCalls /\ Busy(c) /\ call[c].n \in Replicas /\ call[c].k \in Replicas
        /\ call[c].k <= call[c].n /\ call[c].ids \in Info /\ n \in Instances /\ call[c].svc \in Services
    BY <1>0, <1>1, DeployIs
  <1>3. PlaneInv'
    <2>1. Register(call[c].svc, n) \/ UNCHANGED planeVars
      BY DEF RegisterReplica
    <2> QED
      BY <1>0, <1>2, <2>1, RegisterKeeps, PlaneUnchanged
  <1>4. /\ containers' = [containers EXCEPT ![n] = call[c].ids]
        /\ services' = [services EXCEPT ![call[c].svc] = Append(services[call[c].svc], n)]
        /\ IF call[c].k = call[c].n THEN Returns(c) ELSE Proceeds(c, r)
    BY DEF RegisterReplica, Records
  <1> HIDE DEF n
  <1>5. MemoryInv'
    <2>1. services[call[c].svc] \in Seq(Instances)
      BY <1>0, <1>2 DEF MemoryInv
    <2>2. Append(services[call[c].svc], n) \in Seq(Instances)
      BY <1>2, <2>1
    <2> QED
      BY <1>0, <1>1, <1>2, <1>4, <2>2 DEF MemoryInv
  <1>6. MonitorInv'
    <2>1. NoInfo \notin Info
      BY PlatformAssumption DEF Info
    <2>2. \A m \in Instances : containers[m] # NoInfo => containers'[m] # NoInfo
      BY <1>0, <1>2, <1>4, <2>1 DEF MemoryInv
    <2> QED
      BY <1>0, <1>1, <2>2 DEF MonitorInv, DownForgets, StatesTracked
  <1>7. EngineInv' /\ StageInv' /\ \A name \in ReplicaNames : SameOrGone(engine', name)
    BY <1>0, <1>1, EngineUnchanged, NamesDiffer DEF StageInv
  <1>8. CallsInv' /\ OneCallAtATime' /\ RemovesOwn'
    <2>1. CASE call[c].k = call[c].n
      <3>1. Proceeds(c, Idle) /\ Idle \in CallTypes /\ Idle.op = "none"
        BY <1>4, <2>1, ReturnsIsProceeds
      <3> QED
        BY <1>0, <1>1, <1>2, <1>7, <3>1, HandlerStep
    <2>2. CASE call[c].k # call[c].n
      <3>1. call[c].k + 1 \in Replicas /\ call[c].k + 1 <= call[c].n
        BY <1>2, <2>2, PlatformAssumption DEF Replicas
      <3>2. /\ r \in DeployCalls /\ r.op = "deploy" /\ r.svc = call[c].svc /\ r.made = call[c].made
            /\ r.at = "side" /\ r.n = call[c].n /\ r.k = call[c].k + 1
        BY <1>2, <3>1 DEF DeployCalls
      <3>3. Proceeds(c, r)
        BY <1>4, <2>2
      <3> HIDE DEF r
      <3>4. r \in CallTypes /\ call'[c] = r
        BY <1>0, <3>1, <3>2, <3>3, ProceedsKeepsCalls DEF CallTypes
      <3>5. ASSUME Own(c) PROVE Own(c)'
        <4>1. ASSUME NEW kind \in {"app", "side"}, NEW j \in Replicas, ToRemove(c, kind, j)'
              PROVE  ToRemove(c, kind, j)
          BY <1>1, <1>2, <3>2, <3>4, <4>1, ReplicasAre DEF ToRemove
        <4> QED
          BY <1>1, <3>2, <3>4, <3>5, <4>1 DEF Own, Exists
      <3> QED
        BY <1>0, <1>1, <1>2, <1>7, <3>1, <3>2, <3>3, <3>4, <3>5, HandlerStep
    <2> QED
      BY <2>1, <2>2
  <1> QED
    BY <1>3, <1>5, <1>6, <1>7, <1>8, PartsNext

\* One container of a rollback goes, or is not there to go.
LEMMA CleanKeeps == ASSUME IInv, NEW c \in Callers, Clean(c) PROVE IInv'
  <1>0. /\ PlaneInv /\ EngineInv /\ CallsInv /\ MemoryInv /\ StageInv
        /\ OneCallAtATime /\ RemovesOwn /\ MonitorInv
    BY Parts
  <1> DEFINE app == call[c].at = "cleanApp"
             name == IF app THEN App(Instance(c)) ELSE Side(Instance(c))
  <1>1. /\ call[c].op = "deploy" /\ call[c].at \in {"cleanApp", "cleanSide"}
        /\ UNCHANGED <<planeVars, memory, cdocker, destroy, seen>>
    BY DEF Clean
  <1>2. /\ call[c] \in DeployCalls /\ Busy(c) /\ call[c].n \in Replicas /\ call[c].k \in Replicas
        /\ call[c].k <= call[c].n /\ name \in Names /\ call[c].live \in BOOLEAN
    BY <1>0, <1>1, DeployIs, NamesDiffer
  <1>3. PICK o \in RemovesName(name, call[c].live) :
          /\ engine' = o.eng
          /\ IF app THEN Proceeds(c, [call[c] EXCEPT !.at = "cleanSide"])
             ELSE IF call[c].k = call[c].n THEN Returns(c)
             ELSE Proceeds(c, [call[c] EXCEPT !.at = "cleanApp", !.k = call[c].k + 1])
    BY DEF Clean, Leaves
  <1>4. EngineInv' /\ \A d \in Names : SameOrGone(engine', d)
    <2> HIDE DEF name, app
    <2> QED
      BY <1>0, <1>2, <1>3, ChangesIs DEF EngineInv
  <1>5. CallsInv' /\ OneCallAtATime' /\ RemovesOwn'
    <2>1. ASSUME NEW r \in DeployCalls, Proceeds(c, r), r.svc = call[c].svc, r.made = call[c].made,
                 r.n = call[c].n, r.op = "deploy", r.k <= r.n,
                 \/ call[c].at = "cleanApp" /\ r.at = "cleanSide" /\ r.k = call[c].k
                 \/ call[c].at = "cleanSide" /\ r.at = "cleanApp" /\ r.k = call[c].k + 1
          PROVE  CallsInv' /\ OneCallAtATime' /\ RemovesOwn'
      <3>1. r \in CallTypes /\ call'[c] = r
        BY <1>0, <2>1, ProceedsKeepsCalls DEF CallTypes
      <3>2. ASSUME Own(c) PROVE Own(c)'
        <4> SUFFICES ASSUME NEW kind \in {"app", "side"}, NEW j \in Replicas, ToRemove(c, kind, j)',
                            engine'[<<kind, <<r.svc, j>>>>].st # "none"
                     PROVE  <<<<kind, <<r.svc, j>>>>, engine'[<<kind, <<r.svc, j>>>>].id>> \in r.made
          BY <3>1 DEF Own, Exists
        <4> DEFINE d == <<kind, <<call[c].svc, j>>>>
        <4>1. ToRemove(c, kind, j)
          BY <1>2, <2>1, <3>1, ReplicasAre DEF ToRemove
        <4>2. d \in Names
          BY <1>0, <1>1, OwnNames, NamesDiffer
        <4>3. Exists(d) /\ engine'[d].id = engine[d].id
          BY <1>4, <2>1, <4>2 DEF SameOrGone
        <4> QED
          BY <1>1, <2>1, <3>2, <4>1, <4>3 DEF Own
      <3> QED
        BY <1>0, <1>1, <1>2, <1>4, <2>1, <3>1, <3>2, NamesDiffer, HandlerStep
    <2>2. CASE app
      <3> DEFINE r == [call[c] EXCEPT !.at = "cleanSide"]
      <3>1. /\ r \in DeployCalls /\ r.op = "deploy" /\ r.svc = call[c].svc /\ r.made = call[c].made
            /\ r.at = "cleanSide" /\ r.n = call[c].n /\ r.k = call[c].k
        BY <1>2 DEF DeployCalls
      <3>2. Proceeds(c, r)
        BY <1>3, <2>2
      <3> HIDE DEF r
      <3> QED
        BY <1>2, <2>1, <2>2, <3>1, <3>2
    <2>3. CASE ~app /\ call[c].k = call[c].n
      <3>1. Proceeds(c, Idle) /\ Idle \in CallTypes /\ Idle.op = "none"
        BY <1>3, <2>3, ReturnsIsProceeds
      <3> QED
        BY <1>0, <1>1, <1>2, <1>4, <3>1, NamesDiffer, HandlerStep
    <2>4. CASE ~app /\ call[c].k # call[c].n
      <3> DEFINE r == [call[c] EXCEPT !.at = "cleanApp", !.k = call[c].k + 1]
      <3>1. call[c].k + 1 \in Replicas /\ call[c].k + 1 <= call[c].n
        BY <1>2, <2>4, PlatformAssumption DEF Replicas
      <3>2. /\ r \in DeployCalls /\ r.op = "deploy" /\ r.svc = call[c].svc /\ r.made = call[c].made
            /\ r.at = "cleanApp" /\ r.n = call[c].n /\ r.k = call[c].k + 1
        BY <1>2, <3>1 DEF DeployCalls
      <3>3. Proceeds(c, r)
        BY <1>3, <2>4
      <3> HIDE DEF r
      <3> QED
        BY <1>1, <1>2, <2>1, <2>4, <3>1, <3>2, <3>3
    <2> QED
      BY <2>2, <2>3, <2>4
  <1>6. PlaneInv' /\ MemoryInv' /\ MonitorInv'
    BY <1>0, <1>1, PlaneUnchanged, MemoryUnchanged, MonitorUnchanged DEF memory
  <1>7. StageInv'
    BY <1>0, <1>1 DEF StageInv
  <1> QED
    BY <1>4, <1>5, <1>6, <1>7, PartsNext

LEMMA LongerThanOne ==
  ASSUME NEW S, NEW list \in Seq(S), list # << >>, Len(list) # 1
  PROVE  Tail(list) \in Seq(S) /\ Tail(list) # << >>
  <1>1. Len(list) \in Nat /\ Len(list) # 0
    BY EmptySeq, LenProperties
  <1>2. Tail(list) \in Seq(S) /\ Len(Tail(list)) = Len(list) - 1
    BY HeadTailProperties
  <1>3. Len(Tail(list)) # 0
    BY <1>1, <1>2
  <1> QED
    BY <1>2, <1>3, EmptySeq

\* What a walk over the instances of a service looks like.
LEMMA WalkIs ==
  ASSUME CallsInv, NEW c \in Callers, call[c].op \in {"stop", "remove"}
  PROVE  /\ call[c] \in WalkCalls /\ Busy(c) /\ call[c].op # "deploy"
         /\ call[c].list \in Seq(Instances) /\ call[c].list # << >>
         /\ Head(call[c].list) \in Instances /\ call[c].live \in BOOLEAN
         /\ call[c].svc \in Services
  <1>1. call[c] \in WalkCalls
    BY CallIs
  <1>2. Busy(c)
    BY DEF Busy, Idle
  <1>3. call[c].list \in Seq(Instances) /\ call[c].list # << >>
    BY <1>1 DEF WalkCalls
  <1>4. Head(call[c].list) \in Instances
    BY <1>3
  <1> QED
    BY <1>1, <1>2, <1>3, <1>4 DEF WalkCalls

LEMMA EffectIs ==
  ASSUME EngineInv, NEW c \in Callers, NEW name \in Names, NEW id, call[c].live \in BOOLEAN,
         NEW o \in Effect(c, name, id)
  PROVE  /\ o.ok \in BOOLEAN /\ o.eng \in [Names -> [st : States, id : Nat]]
         /\ \A d \in Names : SameOrGone(o.eng, d)
  BY ChangesIs DEF Effect

\* A walk over a service, or the monitoring's deployment, that moves on to r.
LEMMA OtherStep ==
  ASSUME CallsInv, OneCallAtATime, RemovesOwn, seen \subseteq seen',
         NEW c \in Callers, call[c].op \in {"stop", "remove", "monitoring"},
         NEW r \in CallTypes, Proceeds(c, r),
         r = Idle \/ (r.op = call[c].op /\ (call[c].op # "monitoring" => r.svc = call[c].svc)),
         \A name \in ReplicaNames : SameOrGone(engine', name)
  PROVE  CallsInv' /\ OneCallAtATime' /\ RemovesOwn'
  <1>1. Busy(c)
    BY DEF Busy, Idle
  <1>2. r.op # "deploy"
    BY DEF Idle
  <1> QED
    BY <1>1, <1>2, HandlerStep

LEMMA WalkAppKeeps == ASSUME IInv, NEW c \in Callers, WalkApp(c) PROVE IInv'
  <1>0. /\ PlaneInv /\ EngineInv /\ CallsInv /\ MemoryInv /\ StageInv
        /\ OneCallAtATime /\ RemovesOwn /\ MonitorInv
    BY Parts
  <1> DEFINE n == Head(call[c].list)
             r == [call[c] EXCEPT !.at = "side", !.side = containers[n].side]
  <1>1. /\ call[c].op \in {"stop", "remove"}
        /\ UNCHANGED <<planeVars, memory, cdocker, destroy, seen>>
    BY DEF WalkApp
  <1>2. /\ call[c] \in WalkCalls /\ n \in Instances /\ call[c].live \in BOOLEAN
    BY <1>0, <1>1, WalkIs
  <1> USE <1>0, <1>1, <1>2
  <1>3. CASE containers[n] = NoInfo
    <2>1. Returns(c) /\ UNCHANGED engine
      BY <1>3 DEF WalkApp
    <2>2. EngineInv' /\ \A name \in ReplicaNames : SameOrGone(engine', name)
      BY <2>1, EngineUnchanged, NamesDiffer
    <2>3. CallsInv' /\ OneCallAtATime' /\ RemovesOwn'
      BY <2>1, <2>2, ReturnsIsProceeds, OtherStep
    <2> QED
      BY <2>2, <2>3, PlaneUnchanged, MemoryUnchanged, MonitorUnchanged, PartsNext DEF memory, StageInv
  <1>4. CASE containers[n] # NoInfo
    <2>1. PICK o \in Effect(c, App(n), containers[n].app) :
            /\ engine' = o.eng
            /\ IF o.ok THEN Proceeds(c, r) ELSE Returns(c)
      BY <1>4 DEF WalkApp, Leaves, Aborts
    <2>2. App(n) \in Names
      BY DEF Names
    <2>3. EngineInv' /\ o.ok \in BOOLEAN /\ \A name \in ReplicaNames : SameOrGone(engine', name)
      BY <2>1, <2>2, EffectIs, NamesDiffer DEF EngineInv
    <2>4. r \in WalkCalls /\ r.op = call[c].op /\ r.svc = call[c].svc
      <3>1. containers[n].side \in Nat
        BY <1>4 DEF MemoryInv, Info
      <3> QED
        BY <3>1 DEF WalkCalls
    <2> HIDE DEF r
    <2>5. CallsInv' /\ OneCallAtATime' /\ RemovesOwn'
      <3>1. CASE Proceeds(c, r)
        BY <2>3, <2>4, <3>1, OtherStep DEF CallTypes
      <3>2. CASE Returns(c)
        BY <2>3, <3>2, ReturnsIsProceeds, OtherStep
      <3> QED
        BY <2>1, <2>3, <3>1, <3>2
    <2> QED
      BY <2>3, <2>5, PlaneUnchanged, MemoryUnchanged, MonitorUnchanged, PartsNext DEF memory, StageInv
  <1> QED
    BY <1>3, <1>4

LEMMA WalkSideKeeps == ASSUME IInv, NEW c \in Callers, WalkSide(c) PROVE IInv'
  <1>0. /\ PlaneInv /\ EngineInv /\ CallsInv /\ MemoryInv /\ StageInv
        /\ OneCallAtATime /\ RemovesOwn /\ MonitorInv
    BY Parts
  <1> DEFINE n == Head(call[c].list)
             r == [call[c] EXCEPT !.at = "app", !.list = Tail(call[c].list)]
  <1>1. /\ call[c].op \in {"stop", "remove"}
        /\ UNCHANGED <<planeVars, health, cdocker, destroy>>
    BY DEF WalkSide
  <1>2. /\ call[c] \in WalkCalls /\ n \in Instances /\ call[c].live \in BOOLEAN
        /\ call[c].list \in Seq(Instances) /\ call[c].list # << >> /\ call[c].svc \in Services
    BY <1>0, <1>1, WalkIs
  <1>3. PICK o \in Effect(c, Side(n), call[c].side) :
          /\ engine' = o.eng
          /\ containers' = IF o.ok /\ Deletes(c) THEN [containers EXCEPT ![n] = NoInfo] ELSE containers
          /\ services' = IF o.ok /\ DeletesService(c)
                         THEN [services EXCEPT ![call[c].svc] = << >>] ELSE services
          /\ seen' = IF o.ok /\ call[c].op = "remove" THEN seen \cup {"removal"} ELSE seen
          /\ IF ~o.ok THEN Returns(c)
             ELSE IF Len(call[c].list) = 1 THEN Returns(c) ELSE Proceeds(c, r)
    BY DEF WalkSide, Leaves, Aborts
  <1> HIDE DEF n
  <1>4. Side(n) \in Names
    BY <1>2 DEF Names
  <1>5. EngineInv' /\ o.ok \in BOOLEAN /\ \A name \in ReplicaNames : SameOrGone(engine', name)
    BY <1>0, <1>2, <1>3, <1>4, EffectIs, NamesDiffer DEF EngineInv
  <1>6. seen \subseteq seen' /\ StageInv'
    BY <1>0, <1>1, <1>3 DEF StageInv, Events
  <1>7. CallsInv' /\ OneCallAtATime' /\ RemovesOwn'
    <2>1. CASE Returns(c)
      BY <1>0, <1>1, <1>5, <1>6, <2>1, ReturnsIsProceeds, OtherStep
    <2>2. CASE Len(call[c].list) # 1 /\ Proceeds(c, r)
      <3>1. Tail(call[c].list) \in Seq(Instances) /\ Tail(call[c].list) # << >>
        BY <1>2, <2>2, LongerThanOne
      <3>2. r \in WalkCalls /\ r.op = call[c].op /\ r.svc = call[c].svc
        BY <1>2, <3>1 DEF WalkCalls
      <3> HIDE DEF r
      <3> QED
        BY <1>0, <1>1, <1>5, <1>6, <2>2, <3>2, OtherStep DEF CallTypes
    <2> QED
      BY <1>3, <1>5, <2>1, <2>2
  <1>8. MemoryInv'
    <2>1. << >> \in Seq(Instances)
      OBVIOUS
    <2>2. containers' \in [Instances -> {NoInfo} \cup Info]
      BY <1>0, <1>2, <1>3 DEF MemoryInv
    <2>3. services' \in [Services -> Seq(Instances)]
      BY <1>0, <1>2, <1>3, <2>1 DEF MemoryInv
    <2> QED
      BY <1>0, <1>1, <2>2, <2>3 DEF MemoryInv
  <1>9. MonitorInv'
    <2>1. CASE "removal" \in seen'
      BY <1>0, <1>1, <2>1 DEF MonitorInv, DownForgets, StatesTracked
    <2>2. CASE "removal" \notin seen'
      <3>1. containers' = containers
        BY <1>3, <2>2 DEF Deletes
      <3> QED
        BY <1>0, <1>1, <1>6, <3>1, MonitorUnchanged
    <2> QED
      BY <2>1, <2>2
  <1> QED
    BY <1>0, <1>1, <1>5, <1>6, <1>7, <1>8, <1>9, PlaneUnchanged, PartsNext

LEMMA CreateMonitoringKeeps == ASSUME IInv, NEW c \in Callers, CreateMonitoring(c) PROVE IInv'
  <1>0. /\ PlaneInv /\ EngineInv /\ CallsInv /\ MemoryInv /\ StageInv
        /\ OneCallAtATime /\ RemovesOwn /\ MonitorInv
    BY Parts
  <1> DEFINE first == call[c].at = "prometheus"
             name == IF first THEN Prometheus ELSE Grafana
             r == [call[c] EXCEPT !.at = "grafana"]
  <1>1. call[c].op = "monitoring" /\ UNCHANGED <<planeVars, memory, cdocker, destroy, seen>>
    BY DEF CreateMonitoring
  <1>2. call[c] \in MonitoringCalls /\ call[c].live \in BOOLEAN
    BY <1>0, <1>1, CallIs DEF MonitoringCalls
  <1>3. PICK o \in Creates(name, call[c].live) : engine' = o.eng /\ (Proceeds(c, r) \/ Returns(c))
    BY DEF CreateMonitoring, Leaves
  <1>4. name \in Names /\ name \notin ReplicaNames
    BY NamesDiffer DEF PlatformNames
  <1> HIDE DEF name
  <1>5. EngineInv' /\ \A d \in ReplicaNames : SameOrGone(engine', d)
    <2>1. o.eng \in [Names -> [st : States, id : Nat]] /\ \A d \in Names : d # name => o.eng[d] = engine[d]
      BY <1>0, <1>2, <1>4, CreatesIs
    <2>2. ReplicaNames \subseteq Names
      BY NamesDiffer
    <2>3. \A d \in ReplicaNames : SameOrGone(engine', d)
      BY <1>3, <1>4, <2>1, <2>2 DEF SameOrGone, Exists
    <2> QED
      BY <1>3, <2>1, <2>3 DEF EngineInv
  <1>6. CallsInv' /\ OneCallAtATime' /\ RemovesOwn'
    <2>1. r \in CallTypes /\ r.op = call[c].op
      BY <1>2 DEF MonitoringCalls, CallTypes
    <2> HIDE DEF r
    <2>2. CASE Proceeds(c, r)
      BY <1>0, <1>1, <1>5, <2>1, <2>2, OtherStep
    <2>3. CASE Returns(c)
      BY <1>0, <1>1, <1>5, <2>3, ReturnsIsProceeds, OtherStep
    <2> QED
      BY <1>3, <2>2, <2>3
  <1> QED
    BY <1>0, <1>1, <1>5, <1>6, PlaneUnchanged, MemoryUnchanged, MonitorUnchanged, PartsNext
       DEF memory, StageInv

\* A client that gives up changes nothing but the context of its call.
LEMMA ClientGoneKeeps == ASSUME IInv, NEW c \in Callers, ClientGone(c) PROVE IInv'
  <1>0. /\ PlaneInv /\ EngineInv /\ CallsInv /\ MemoryInv /\ StageInv
        /\ OneCallAtATime /\ RemovesOwn /\ MonitorInv
    BY Parts
  <1> DEFINE r == [call[c] EXCEPT !.live = FALSE]
  <1>1. /\ Busy(c) /\ Proceeds(c, r) /\ seen' = seen \cup {"cancel"}
        /\ UNCHANGED <<planeVars, memory, cdocker, engine, destroy>>
    BY DEF ClientGone
  <1>2. EngineInv' /\ \A name \in ReplicaNames : SameOrGone(engine', name)
    BY <1>0, <1>1, EngineUnchanged, NamesDiffer
  <1>3. /\ r \in CallTypes /\ r.op = call[c].op
        /\ call[c].op # "monitoring" => r.svc = call[c].svc
        /\ r.op = "deploy" => /\ r.k = call[c].k /\ r.n = call[c].n
                              /\ r.at = call[c].at /\ r.made = call[c].made
    <2>1. CASE call[c] \in DeployCalls
      BY <2>1 DEF DeployCalls, CallTypes
    <2>2. CASE call[c] \in WalkCalls
      BY <2>2 DEF WalkCalls, CallTypes
    <2>3. CASE call[c] \in MonitoringCalls
      BY <2>3 DEF MonitoringCalls, CallTypes
    <2> QED
      BY <1>0, <1>1, <2>1, <2>2, <2>3, CallIs
  <1> HIDE DEF r
  <1>4. r.op = "deploy" => r.k <= r.n
    BY <1>0, <1>3, DeployIs
  <1>5. call'[c] = r
    BY <1>0, <1>1, <1>3, <1>4, ProceedsKeepsCalls
  <1>6. ASSUME r.op = "deploy", Own(c) PROVE Own(c)'
    <2>1. ASSUME NEW kind \in {"app", "side"}, NEW j \in Replicas, ToRemove(c, kind, j)'
          PROVE  ToRemove(c, kind, j)
      BY <1>3, <1>5, <1>6, <2>1 DEF ToRemove
    <2> QED
      BY <1>1, <1>3, <1>5, <1>6, <2>1 DEF Own, Exists
  <1>7. CallsInv' /\ OneCallAtATime' /\ RemovesOwn'
    BY <1>0, <1>1, <1>2, <1>3, <1>4, <1>6, HandlerStep
  <1>8. StageInv' /\ MonitorInv'
    BY <1>0, <1>1, MonitorUnchanged DEF StageInv, Events, memory
  <1> QED
    BY <1>0, <1>1, <1>2, <1>7, <1>8, PlaneUnchanged, MemoryUnchanged, PartsNext

\* A call begins with nothing to remove; it overlaps another one of its
\* service only where `seen` says so.
LEMMA BeginsKeeps ==
  ASSUME IInv, NEW c, ~Busy(c), NEW r \in CallTypes, Begins(c, r),
         r.op = "deploy" => r.at = "side" /\ r.k = 1 /\ r.n \in Replicas,
         destroy' \in DestroyStates
  PROVE  IInv'
  <1>0. /\ PlaneInv /\ EngineInv /\ CallsInv /\ MemoryInv /\ StageInv
        /\ OneCallAtATime /\ RemovesOwn /\ MonitorInv
    BY Parts
  <1>1. /\ call' = [call EXCEPT ![c] = r]
        /\ seen' = IF r.op = "monitoring" \/ Calls(r.svc) = {} THEN seen ELSE seen \cup {"overlap"}
        /\ UNCHANGED <<planeVars, memory, cdocker, engine>>
    BY DEF Begins
  <1>2. seen \subseteq seen' /\ StageInv'
    BY <1>0, <1>1 DEF StageInv, Events
  <1>3. CallsInv' /\ \A d \in Callers : call'[d] = IF d = c THEN r ELSE call[d]
    <2>1. r.op = "deploy" => r.k <= r.n
      BY ReplicasAre
    <2> QED
      BY <1>0, <1>1, <2>1 DEF CallsInv, WithinReplicas
  <1>4. OneCallAtATime'
    <2> SUFFICES ASSUME "overlap" \notin seen', NEW s \in Services,
                        NEW d \in Calls(s)', NEW e \in Calls(s)'
                 PROVE  d = e
      BY DEF OneCallAtATime
    <2>1. "overlap" \notin seen /\ (r.op = "monitoring" \/ Calls(r.svc) = {})
      BY <1>1
    <2>2. ASSUME NEW x \in Calls(s)', x # c PROVE x \in Calls(s)
      BY <1>3, <2>2 DEF Calls, Busy
    <2>3. c \in Calls(s)' => Calls(s) = {}
      BY <1>3, <2>1 DEF Calls
    <2> QED
      BY <1>0, <2>1, <2>2, <2>3 DEF OneCallAtATime
  <1>5. EngineInv' /\ \A name \in ReplicaNames : SameOrGone(engine', name)
    BY <1>0, <1>1, EngineUnchanged, NamesDiffer
  <1>6. RemovesOwn'
    <2> SUFFICES ASSUME "overlap" \notin seen', NEW d \in Callers PROVE Own(d)'
      BY DEF RemovesOwn, Own
    <2>1. CASE d = c
      <3>1. r.op = "deploy" => \A kind \in {"app", "side"}, j \in Replicas : ~ToRemove(c, kind, j)'
        BY <1>3, <2>1, ReplicasAre DEF ToRemove
      <3> QED
        BY <1>3, <2>1, <3>1 DEF Own
    <2>2. CASE d # c
      <3>1. Own(d) /\ call'[d] = call[d]
        BY <1>0, <1>2, <1>3, <2>2 DEF RemovesOwn, Own
      <3> QED
        BY <1>0, <1>5, <3>1, OwnNames, OwnUnchanged
    <2> QED
      BY <2>1, <2>2
  <1> QED
    BY <1>0, <1>1, <1>2, <1>3, <1>4, <1>5, <1>6,
       PlaneUnchanged, MemoryUnchanged, MonitorUnchanged, PartsNext DEF memory

LEMMA DeployKeeps ==
  ASSUME IInv, NEW c \in Callers, NEW s \in Services, NEW n \in Replicas, Deploy(c, s, n)
  PROVE  IInv'
  <1>0. /\ PlaneInv /\ EngineInv /\ CallsInv /\ MemoryInv /\ StageInv
        /\ OneCallAtATime /\ RemovesOwn /\ MonitorInv
    BY Parts
  <1> DEFINE r == [op |-> "deploy", svc |-> s, n |-> n, k |-> 1, at |-> "side",
                   live |-> TRUE, ids |-> [app |-> 0, side |-> 0], made |-> {}]
  <1>1. ~Busy(c) /\ Begins(c, r) /\ UNCHANGED destroy
    BY DEF Deploy, Free
  <1>2. 1 \in Replicas
    BY PlatformAssumption DEF Replicas
  <1>3. r \in CallTypes /\ r.op = "deploy" /\ r.at = "side" /\ r.k = 1 /\ r.n = n
    BY <1>2 DEF CallTypes, DeployCalls, Info
  <1>4. destroy' \in DestroyStates
    BY <1>0, <1>1 DEF StageInv
  <1> HIDE DEF r
  <1> QED
    BY <1>1, <1>3, <1>4, BeginsKeeps

\* A call of stop or remove, of a client or of meshctl destroy.
LEMMA WalkKeeps ==
  ASSUME IInv, NEW c, NEW s \in Services, NEW op \in {"stop", "remove"}, ~Busy(c), Walk(c, op, s),
         destroy' \in DestroyStates
  PROVE  IInv'
  <1>0. /\ PlaneInv /\ EngineInv /\ CallsInv /\ MemoryInv /\ StageInv
        /\ OneCallAtATime /\ RemovesOwn /\ MonitorInv
    BY Parts
  <1> DEFINE r == [op |-> op, svc |-> s, list |-> services[s], at |-> "app",
                   side |-> 0, live |-> TRUE]
  <1>1. Begins(c, r) /\ services[s] # << >>
    BY DEF Walk
  <1>2. r \in CallTypes /\ r.op # "deploy"
    BY <1>0, <1>1 DEF CallTypes, WalkCalls, MemoryInv
  <1> HIDE DEF r
  <1> QED
    BY <1>1, <1>2, BeginsKeeps

LEMMA StopOrRemoveKeeps ==
  ASSUME IInv, NEW c \in Callers, NEW op \in {"stop", "remove"}, NEW s \in Services,
         StopOrRemove(c, op, s)
  PROVE  IInv'
  <1>0. /\ PlaneInv /\ EngineInv /\ CallsInv /\ MemoryInv /\ StageInv
        /\ OneCallAtATime /\ RemovesOwn /\ MonitorInv
    BY Parts
  <1>1. ~Busy(c) /\ Walk(c, op, s) /\ UNCHANGED destroy
    BY DEF StopOrRemove, Free
  <1>2. destroy' \in DestroyStates
    BY <1>0, <1>1 DEF StageInv
  <1> QED
    BY <1>1, <1>2, WalkKeeps

LEMMA DeployMonitoringKeeps == ASSUME IInv, NEW c \in Callers, DeployMonitoring(c) PROVE IInv'
  <1>0. /\ PlaneInv /\ EngineInv /\ CallsInv /\ MemoryInv /\ StageInv
        /\ OneCallAtATime /\ RemovesOwn /\ MonitorInv
    BY Parts
  <1> DEFINE r == [op |-> "monitoring", at |-> "prometheus", live |-> TRUE]
  <1>1. ~Busy(c) /\ Begins(c, r) /\ UNCHANGED destroy
    BY DEF DeployMonitoring, Free
  <1>2. r \in CallTypes /\ r.op # "deploy"
    BY DEF CallTypes, MonitoringCalls
  <1>3. destroy' \in DestroyStates
    BY <1>0, <1>1 DEF StageInv
  <1> HIDE DEF r
  <1> QED
    BY <1>1, <1>2, <1>3, BeginsKeeps

LEMMA DestroyCallsKeeps == ASSUME IInv, DestroyCalls PROVE IInv'
  <1>0. /\ PlaneInv /\ EngineInv /\ CallsInv /\ MemoryInv /\ StageInv
        /\ OneCallAtATime /\ RemovesOwn /\ MonitorInv
    BY Parts
  <1>1. /\ destroy \in DestroyStates /\ destroy.at \in {"next", "stopped"}
        /\ destroy.todo \subseteq Services
        /\ destroy.at = "stopped" => destroy.rest \subseteq Services
    BY <1>0 DEF DestroyCalls, StageInv, DestroyStates
  <1>2. PICK s \in destroy.todo :
          LET op == IF destroy.at = "next" THEN "stop" ELSE "remove"
          IN /\ \/ Walk(Cli, op, s)
                \/ UNCHANGED <<planeVars, memory, cdocker, engine, call, used, seen>>
             /\ destroy' = IF op = "stop" THEN [at |-> "stopped", todo |-> {s},
                                                rest |-> destroy.todo \ {s}]
                           ELSE [at |-> "next", todo |-> destroy.rest]
    BY DEF DestroyCalls
  <1>3. s \in Services /\ destroy' \in DestroyStates
    BY <1>1, <1>2 DEF DestroyStates
  <1>4. ~Busy(Cli)
    BY DEF DestroyCalls
  <1>5. CASE \E op \in {"stop", "remove"} : Walk(Cli, op, s)
    BY <1>3, <1>4, <1>5, WalkKeeps
  <1>6. CASE UNCHANGED <<planeVars, memory, cdocker, engine, call, used, seen>>
    BY <1>0, <1>3, <1>6, PlaneUnchanged, EngineUnchanged, NamesDiffer, BesideKeeps
  <1> QED
    BY <1>2, <1>5, <1>6

-----------------------------------------------------------------------------
(* The monitor. *)

LEMMA StateIs ==
  ASSUME MemoryInv, NEW n \in Instances
  PROVE  StateOf(n) \in ProbeStates /\ NewState \in ProbeStates
  <1>1. 0 \in 0 .. Threshold
    BY PlatformAssumption
  <1>2. NewState \in ProbeStates
    BY <1>1 DEF NewState, ProbeStates
  <1> QED
    BY <1>2 DEF StateOf, MemoryInv

\* A step of the monitor that changes states, and creates nothing.
LEMMA MonitorStep ==
  ASSUME IInv, MemoryInv', MonitorInv', EngineInv', \A name \in ReplicaNames : SameOrGone(engine', name),
         UNCHANGED <<planeVars, services, call, cdocker, destroy>>,
         seen' \subseteq Events, seen \subseteq seen'
  PROVE  IInv'
  <1>0. /\ PlaneInv /\ EngineInv /\ CallsInv /\ MemoryInv /\ StageInv
        /\ OneCallAtATime /\ RemovesOwn /\ MonitorInv
    BY Parts
  <1>1. StageInv' /\ PlaneInv' /\ CallsInv'
    BY <1>0, PlaneUnchanged, CallsUnchanged DEF StageInv
  <1>2. OneCallAtATime' /\ RemovesOwn'
    BY <1>0, RemovesOwnUnchanged DEF OneCallAtATime, Calls, Busy
  <1> QED
    BY <1>1, <1>2, PartsNext

\* A report of an instance that is not tracked leaves a state all the same.
LEMMA ProbeTickKeeps ==
  ASSUME IInv, NEW n \in Instances, NEW p \in Probes, ProbeTick(n, p) PROVE IInv'
  <1>0. /\ PlaneInv /\ EngineInv /\ CallsInv /\ MemoryInv /\ StageInv
        /\ OneCallAtATime /\ RemovesOwn /\ MonitorInv
    BY Parts
  <1>1. PICK healthy \in BOOLEAN : Report(n, p, healthy)
    <2>1. Probed(n) \subseteq BOOLEAN
      BY DEF Probed
    <2> QED
      BY <2>1 DEF ProbeTick
  <1>2. cdocker = "up" /\ UNCHANGED <<planeVars, containers, services, call, cdocker, engine, destroy>>
    BY <1>1 DEF Report, ProbeTick
  <1> DEFINE timed == [StateOf(n) EXCEPT !.last[p] = "fresh"]
             more == IF timed.fails[p] < Threshold THEN timed.fails[p] + 1 ELSE Threshold
             count == IF healthy THEN 0 ELSE more
             counted == [timed EXCEPT !.fails[p] = count]
  <1>3. timed \in ProbeStates
    <2> DEFINE last == [StateOf(n).last EXCEPT ![p] = "fresh"]
    <2>1. last \in [Probes -> {"never", "fresh", "stale"}]
      BY <1>0, StateIs DEF ProbeStates
    <2>2. timed = [StateOf(n) EXCEPT !.last = last]
      OBVIOUS
    <2> HIDE DEF last, timed
    <2> QED
      BY <1>0, <2>1, <2>2, StateIs DEF ProbeStates
  <1>4. \/ /\ containers[n] = NoInfo /\ health' = [health EXCEPT ![n] = timed]
           /\ seen' = seen \cup {"stray"}
        \/ /\ containers[n] # NoInfo /\ health' = [health EXCEPT ![n] = counted]
           /\ seen' = seen
    BY <1>1 DEF Report
  <1> HIDE DEF timed
  <1>5. counted \in ProbeStates
    <2> DEFINE fails == [timed.fails EXCEPT ![p] = count]
    <2>1. timed.fails \in [Probes -> 0 .. Threshold] /\ count \in 0 .. Threshold
      <3>1. timed.fails \in [Probes -> 0 .. Threshold]
        BY <1>3 DEF ProbeStates
      <3> QED
        BY <3>1, PlatformAssumption
    <2> HIDE DEF count
    <2>2. fails \in [Probes -> 0 .. Threshold]
      BY <2>1
    <2>3. counted = [timed EXCEPT !.fails = fails]
      OBVIOUS
    <2> HIDE DEF fails, counted
    <2> QED
      BY <1>3, <2>2, <2>3 DEF ProbeStates
  <1> HIDE DEF counted
  <1>6. MemoryInv'
    BY <1>0, <1>2, <1>3, <1>4, <1>5 DEF MemoryInv
  <1>7. MonitorInv'
    BY <1>0, <1>2, <1>4 DEF MonitorInv, DownForgets, StatesTracked, MemoryInv
  <1>8. seen' \subseteq Events /\ seen \subseteq seen'
    BY <1>0, <1>4 DEF StageInv, Events
  <1>9. EngineInv' /\ \A name \in ReplicaNames : SameOrGone(engine', name)
    BY <1>0, <1>2, EngineUnchanged, NamesDiffer
  <1> QED
    BY <1>2, <1>6, <1>7, <1>8, <1>9, MonitorStep

LEMMA SilenceKeeps ==
  ASSUME IInv, NEW n \in Instances, NEW p \in Probes, Silence(n, p) PROVE IInv'
  <1>0. /\ PlaneInv /\ EngineInv /\ CallsInv /\ MemoryInv /\ StageInv
        /\ OneCallAtATime /\ RemovesOwn /\ MonitorInv
    BY Parts
  <1>1. /\ health[n] # NoInfo /\ cdocker = "up" /\ health' = [health EXCEPT ![n].last[p] = "stale"]
        /\ UNCHANGED <<planeVars, containers, services, call, cdocker, engine, destroy, seen>>
    BY DEF Silence
  <1> DEFINE last == [health[n].last EXCEPT ![p] = "stale"]
             h == [health[n] EXCEPT !.last = last]
  <1>2. health[n] \in ProbeStates
    BY <1>0, <1>1 DEF MemoryInv
  <1>3. last \in [Probes -> {"never", "fresh", "stale"}]
    BY <1>2 DEF ProbeStates
  <1>4. health' = [health EXCEPT ![n] = h]
    BY <1>1
  <1> HIDE DEF last
  <1>5. h \in ProbeStates
    BY <1>2, <1>3 DEF ProbeStates
  <1> HIDE DEF h
  <1>6. MemoryInv' /\ MonitorInv'
    BY <1>0, <1>1, <1>4, <1>5 DEF MemoryInv, MonitorInv, DownForgets, StatesTracked
  <1>7. EngineInv' /\ \A name \in ReplicaNames : SameOrGone(engine', name)
    BY <1>0, <1>1, EngineUnchanged, NamesDiffer
  <1>8. seen' \subseteq Events
    BY <1>0, <1>1 DEF StageInv
  <1> QED
    BY <1>1, <1>6, <1>7, <1>8, MonitorStep

\* The monitor restarts what it can look up, and dies of what it cannot.
LEMMA CheckStateKeeps == ASSUME IInv, NEW n \in Instances, CheckState(n) PROVE IInv'
  <1>0. /\ PlaneInv /\ EngineInv /\ CallsInv /\ MemoryInv /\ StageInv
        /\ OneCallAtATime /\ RemovesOwn /\ MonitorInv
    BY Parts
  <1> DEFINE p == IF "liveness" \in Due(n) THEN "liveness" ELSE "readiness"
  <1>1. cdocker = "up" /\ Due(n) # {} /\ UNCHANGED <<planeVars, destroy, seen>>
    BY DEF CheckState
  <1>2. CASE containers[n] = NoInfo
    BY <1>1, <1>2, DiedKeeps DEF CheckState
  <1>3. CASE containers[n] # NoInfo
    <2> DEFINE count == [q \in Probes |->
                 IF health[n].last[q] = "stale" THEN Threshold ELSE health[n].fails[q]]
               fails == [count EXCEPT ![p] = 0]
               h == [health[n] EXCEPT !.fails = fails]
    <2>1. /\ health' = [health EXCEPT ![n] = [Counted(health[n]) EXCEPT !.fails[p] = 0]]
          /\ UNCHANGED <<containers, services, call, cdocker>>
      BY <1>3 DEF CheckState
    <2>2. PICK o \in Restarts(App(n)) : engine' = o.eng
      BY <1>3 DEF CheckState, Leaves
    <2>3. health[n] # NoInfo
      BY <1>1 DEF Due
    <2>4. health[n] \in ProbeStates
      BY <1>0, <2>3 DEF MemoryInv
    <2>5. count \in [Probes -> 0 .. Threshold]
      BY <2>4, PlatformAssumption DEF ProbeStates
    <2> HIDE DEF count, p
    <2>6. fails \in [Probes -> 0 .. Threshold]
      <3>1. 0 \in 0 .. Threshold
        BY PlatformAssumption
      <3> QED
        BY <2>5, <3>1
    <2>7. Counted(health[n]) = [health[n] EXCEPT !.fails = count]
      BY DEF Counted, count
    <2>8. [Counted(health[n]) EXCEPT !.fails[p] = 0] = h
      BY <2>4, <2>7 DEF ProbeStates
    <2> HIDE DEF fails
    <2>9. h \in ProbeStates
      BY <2>4, <2>6 DEF ProbeStates
    <2> HIDE DEF h
    <2>10. MemoryInv' /\ MonitorInv'
      BY <1>0, <1>1, <1>3, <2>1, <2>8, <2>9
         DEF MemoryInv, MonitorInv, DownForgets, StatesTracked
    <2>11. App(n) \in Names
      BY DEF Names
    <2>12. EngineInv' /\ \A name \in ReplicaNames : SameOrGone(engine', name)
      BY <1>0, <2>2, <2>11, ChangesIs, NamesDiffer DEF EngineInv
    <2>13. seen' \subseteq Events /\ seen \subseteq seen'
      BY <1>0, <1>1 DEF StageInv
    <2> QED
      BY <1>1, <2>1, <2>10, <2>12, <2>13, MonitorStep
  <1> QED
    BY <1>2, <1>3

-----------------------------------------------------------------------------
(* The invariant, and what follows from it. *)

LEMMA HandlerKeeps == ASSUME IInv, NEW c \in Callers, Handler(c) PROVE IInv'
  BY CreateSidecarKeeps, CreateAppKeeps, RegisterReplicaKeeps, CleanKeeps,
     WalkAppKeeps, WalkSideKeeps, CreateMonitoringKeeps DEF Handler

LEMMA ClientsKeep == ASSUME IInv, Clients PROVE IInv'
  BY DeployKeeps, StopOrRemoveKeeps, DeployMonitoringKeeps, ClientGoneKeeps DEF Clients

LEMMA MonitorKeeps == ASSUME IInv, Monitor PROVE IInv'
  BY ProbeTickKeeps, SilenceKeeps, CheckStateKeeps, AppExitsKeeps DEF Monitor

LEMMA StutterKeeps == ASSUME IInv, UNCHANGED vars PROVE IInv'
  <1>0. PlaneInv /\ EngineInv /\ StageInv
    BY Parts
  <1>1. UNCHANGED <<planeVars, memory, call, cdocker, engine, destroy, seen>>
    BY DEF vars
  <1>2. PlaneInv' /\ EngineInv' /\ destroy' \in DestroyStates
        /\ \A name \in ReplicaNames : SameOrGone(engine', name)
    BY <1>0, <1>1, PlaneUnchanged, EngineUnchanged, NamesDiffer DEF StageInv
  <1> QED
    BY <1>1, <1>2, BesideKeeps

LEMMA NextKeeps == ASSUME IInv, [Next]_vars PROVE IInv'
  <1>1. CASE Boot \/ ForceRestart \/ Exits \/ Crash
    BY <1>1, BootKeeps, ForceRestartKeeps, ExitsKeeps, CrashKeeps
  <1>2. CASE (\E c \in Callers : Handler(c)) \/ Clients
    BY <1>2, HandlerKeeps, ClientsKeep
  <1>3. CASE Monitor \/ Requests
    BY <1>3, MonitorKeeps, RequestsKeep
  <1>4. CASE Destroy
    BY <1>4, DestroyStartsKeeps, DestroyCallsKeeps, DestroyHaltsKeeps, DestroyEndsKeeps
       DEF Destroy
  <1>5. CASE UNCHANGED vars
    BY <1>5, StutterKeeps
  <1> QED
    BY <1>1, <1>2, <1>3, <1>4, <1>5 DEF Next

\* The invariant is inductive: whatever clients, monitor, engine and crashes
\* do, in whatever order, every reachable state satisfies it.
THEOREM Inductive == Spec => []IInv
  BY InitIInv, NextKeeps, PTL DEF Spec

\* Every variable of the Docker mesh keeps its type: no handler leaves a half
\* written record in the maps of cdocker, the registry or the states of the
\* monitor.
THEOREM TypeCorrect == Spec => []TypeOK
  <1>1. IInv => TypeOK
    BY DEF IInv
  <1> QED
    BY <1>1, Inductive, PTL

\* The index the control plane reads its list of sidecars with is inside the
\* list (plane.go, getNextSidecar), though registrations and redeployments only
\* ever make the list longer and a restart empties it.
THEOREM RotationSafe == Spec => []RotationInRange
  <1>1. IInv => RotationInRange
    BY DEF IInv
  <1> QED
    BY <1>1, Inductive, PTL

\* The states of the monitor belong to instances it can look up, so its
\* goroutine does not die of a nil pointer (health_monitor.go, checkStates), as
\* long as no instance was removed and no stray report came in.
THEOREM MonitorTracks == Spec => []StatesTracked
  <1>1. IInv => StatesTracked
    BY DEF IInv
  <1> QED
    BY <1>1, Inductive, PTL

LEMMA CleanRemovesOwn ==
  ASSUME IInv, NEW c \in Callers, NEW name \in Names,
         Clean(c), Exists(name), engine'[name].st = "none", "overlap" \notin seen
  PROVE  <<name, engine[name].id>> \in call[c].made
  <1>0. EngineInv /\ CallsInv /\ RemovesOwn
    BY Parts
  <1> DEFINE kind == IF call[c].at = "cleanApp" THEN "app" ELSE "side"
             removed == IF call[c].at = "cleanApp" THEN App(Instance(c)) ELSE Side(Instance(c))
  <1>1. call[c].op = "deploy" /\ call[c].at \in {"cleanApp", "cleanSide"}
    BY DEF Clean
  <1>2. /\ call[c].n \in Replicas /\ call[c].k \in Replicas /\ call[c].k <= call[c].n
        /\ removed \in Names /\ call[c].live \in BOOLEAN
    BY <1>0, <1>1, DeployIs, NamesDiffer
  <1>3. PICK o \in RemovesName(removed, call[c].live) : engine' = o.eng
    BY DEF Clean, Leaves
  <1>4. removed = <<kind, <<call[c].svc, call[c].k>>>>
    BY DEF App, Side, Instance
  <1> HIDE DEF removed
  <1>5. name = removed
    <2>1. \A d \in Names : d # removed => engine'[d] = engine[d]
      BY <1>0, <1>2, <1>3, ChangesIs
    <2> QED
      BY <2>1 DEF Exists
  <1>6. ToRemove(c, kind, call[c].k)
    BY <1>1, <1>2, ReplicasAre DEF ToRemove
  <1> QED
    BY <1>0, <1>1, <1>2, <1>4, <1>5, <1>6 DEF RemovesOwn

\* A deployment that is rolled back removes only containers it created itself
\* (cdocker.go, the deferred clean), unless calls for its service overlapped:
\* deploying what already runs is refused and leaves it running.
THEOREM RollbackSafe == Spec => RollbackOnlyOwn
  <1>1. ASSUME IInv
        PROVE  \A c \in Callers, name \in Names :
                 Clean(c) /\ Exists(name) /\ engine'[name].st = "none"
                   => "overlap" \in seen \/ <<name, engine[name].id>> \in call[c].made
    BY <1>1, CleanRemovesOwn
  <1> QED
    BY <1>1, Inductive, PTL DEF RollbackOnlyOwn

-----------------------------------------------------------------------------
(* The books: what a step without a refusal does to Docker. *)

UsedInv == used \in [calls : Nat, faults : Nat, crashes : Nat]

\* Refusals and crashes are only ever added.
UsedOn == UsedInv' /\ used'.faults >= used.faults /\ used'.crashes >= used.crashes

LEMMA UsedUnchanged == ASSUME UsedInv, UNCHANGED used PROVE UsedOn
  BY DEF UsedInv, UsedOn

\* Docker refuses or does not; when it does not, its answer is determined.
LEMMA DockerAnswers ==
  ASSUME NEW able \in BOOLEAN, NEW done, NEW torn, NEW o \in Docker(able, done, torn)
  PROVE  /\ o.fault \in {0, 1}
         /\ o.fault = 0 => o.ok = able /\ o.eng = IF able THEN done ELSE engine
  <1>1. CASE o = [eng |-> engine, ok |-> FALSE, fault |-> 0] /\ ~able
    BY <1>1
  <1>2. CASE able /\ o = [eng |-> done, ok |-> TRUE, fault |-> 0]
    BY <1>2
  <1>3. CASE able /\ \E e \in torn : o = [eng |-> e, ok |-> FALSE, fault |-> 1]
    BY <1>3
  <1>4. \/ o = [eng |-> engine, ok |-> FALSE, fault |-> 0] /\ ~able
        \/ able /\ o = [eng |-> done, ok |-> TRUE, fault |-> 0]
        \/ able /\ \E e \in torn : o = [eng |-> e, ok |-> FALSE, fault |-> 1]
    BY DEF Docker
  <1> QED
    BY <1>1, <1>2, <1>3, <1>4

LEMMA LeavesIs ==
  ASSUME UsedInv, NEW o, o.fault \in {0, 1}, Leaves(o)
  PROVE  UsedOn /\ engine' = o.eng /\ (used'.faults = 0 => o.fault = 0)
  <1>1. used' = [used EXCEPT !.faults = used.faults + o.fault]
    BY DEF Leaves
  <1>2. used.faults + o.fault \in Nat /\ used.faults + o.fault >= used.faults
    BY DEF UsedInv
  <1>3. used'.faults = used.faults + o.fault /\ used'.crashes = used.crashes /\ UsedInv'
    BY <1>1, <1>2 DEF UsedInv
  <1> QED
    BY <1>2, <1>3 DEF Leaves, UsedOn, UsedInv

\* The container of this name is the one it was, or there is none still.
Stays(name) ==
  /\ engine'[name].st # "none" <=> Exists(name)
  /\ Exists(name) => engine'[name].id = engine[name].id

\* The instance is booked as it was, and so are its containers.
Still(n) == containers'[n] = containers[n] /\ Stays(App(n)) /\ Stays(Side(n))

LEMMA SameStays == ASSUME NEW name, engine'[name] = engine[name] PROVE Stays(name)
  BY DEF Stays, Exists

\* A change of status is no change of the container, unless it is removed.
LEMMA WithStays ==
  ASSUME EngineInv, NEW c \in Names, NEW st \in States \ {"none"}, Exists(c),
         engine' = With(c, st)
  PROVE  \A d \in Names : Stays(d)
  <1>1. st \in States
    OBVIOUS
  <1>2. /\ engine'[c].st = st
        /\ \A d \in Names : d # c => engine'[d] = engine[d]
        /\ \A d \in Names : SameOrGone(engine', d)
    BY <1>1, WithIs
  <1>3. ASSUME NEW d \in Names PROVE Stays(d)
    <2>1. CASE d = c
      BY <1>2, <2>1 DEF Stays, SameOrGone
    <2>2. CASE d # c
      BY <1>2, <2>2, SameStays
    <2> QED
      BY <2>1, <2>2
  <1> QED
    BY <1>3

LEMMA StatesAre ==
  /\ States = {"none", "created", "running", "exited"}
  /\ "running" \in States \ {"none"} /\ "exited" \in States \ {"none"} /\ "none" \in States
  BY DEF States

\* Creating a container, when nothing is refused.
LEMMA CalmCreates ==
  ASSUME UsedInv, EngineInv, NEW c \in Names, NEW live \in BOOLEAN,
         NEW o \in Creates(c, live), Leaves(o)
  PROVE  /\ UsedOn
         /\ \A d \in Names : d # c => engine'[d] = engine[d]
         /\ used'.faults = 0 =>
              /\ o.ok <=> live /\ ~Exists(c)
              /\ o.ok => engine'[c].st = "running"
              /\ ~o.ok => engine' = engine
  <1> DEFINE able == live /\ ~Exists(c)
  <1>1. able \in BOOLEAN
    BY DEF Exists
  <1>2. o \in Docker(able, New(c, "running"), {engine, New(c, "created")})
    BY DEF Creates
  <1>3. able = (live /\ ~Exists(c))
    OBVIOUS
  <1> HIDE DEF able
  <1>4. /\ o.fault \in {0, 1}
        /\ o.fault = 0 => o.ok = able /\ o.eng = IF able THEN New(c, "running") ELSE engine
    BY <1>1, <1>2, DockerAnswers
  <1>5. UsedOn /\ engine' = o.eng /\ (used'.faults = 0 => o.fault = 0)
    BY <1>4, LeavesIs
  <1>6. \A d \in Names : d # c => engine'[d] = engine[d]
    BY <1>5, CreatesIs
  <1>7. New(c, "running")[c].st = "running"
    BY NewIs, StatesAre
  <1> QED
    BY <1>1, <1>3, <1>4, <1>5, <1>6, <1>7

\* Changing a container's status.
LEMMA CalmWith ==
  ASSUME UsedInv, EngineInv, NEW c \in Names, NEW st \in States, NEW able \in BOOLEAN,
         able => Exists(c), NEW o \in Docker(able, With(c, st), {engine}), Leaves(o)
  PROVE  /\ UsedOn
         /\ \A d \in Names : d # c => engine'[d] = engine[d]
         /\ st # "none" => \A d \in Names : Stays(d)
         /\ o.ok => engine' = With(c, st)
         /\ used'.faults = 0 => (o.ok <=> able) /\ (~o.ok => engine' = engine)
  <1>1. /\ o.fault \in {0, 1}
        /\ o.fault = 0 => o.ok = able /\ o.eng = IF able THEN With(c, st) ELSE engine
    BY DockerAnswers
  <1>2. UsedOn /\ engine' = o.eng /\ (used'.faults = 0 => o.fault = 0)
    BY <1>1, LeavesIs
  <1>3. /\ o.eng = engine \/ (able /\ o.eng = With(c, st))
        /\ o.ok => o.eng = With(c, st)
    BY DockerIs
  <1>4. (\A d \in Names : d # c => engine'[d] = engine[d])
        /\ (st # "none" => \A d \in Names : Stays(d))
    <2>1. CASE engine' = engine
      BY <2>1, SameStays
    <2>2. CASE Exists(c) /\ engine' = With(c, st)
      <3>1. \A d \in Names : d # c => engine'[d] = engine[d]
        BY <2>2, WithIs
      <3> QED
        BY <2>2, <3>1, WithStays
    <2> QED
      BY <1>2, <1>3, <2>1, <2>2
  <1> QED
    BY <1>1, <1>2, <1>3, <1>4

-----------------------------------------------------------------------------
(* The books: a handler minds its own business. *)

\* The instance a deployment or a walk is at.
InHand(c) == IF call[c].op = "deploy" THEN Instance(c) ELSE Head(call[c].list)

\* A step of the handler of c: nothing of cdocker changes but the records of the
\* instance in hand and of its service, and no container but those of that
\* instance, or of the monitoring.
MindsOwn(c) ==
  /\ UsedOn /\ UNCHANGED cdocker /\ seen \subseteq seen'
  /\ Stays(Control)
  /\ \A n \in Instances : call[c].op = "monitoring" \/ n # InHand(c) => Still(n)
  /\ \A s \in Services : call[c].op = "monitoring" \/ s # call[c].svc
                           => services'[s] = services[s]
  /\ \A d \in Callers : d # c => call'[d] = call[d]
  /\ call'[c] # Idle => /\ call'[c].op = call[c].op /\ call'[c].live = call[c].live
                        /\ call[c].op # "monitoring" => call'[c].svc = call[c].svc

LEMMA ProceedsIs ==
  ASSUME CallsInv, NEW c \in Callers, NEW r, Proceeds(c, r)
  PROVE  call'[c] = r /\ \A d \in Callers : d # c => call'[d] = call[d]
  BY DEF CallsInv, Proceeds

LEMMA ReturnsIs ==
  ASSUME CallsInv, NEW c \in Callers, Returns(c)
  PROVE  call'[c] = Idle /\ \A d \in Callers : d # c => call'[d] = call[d]
  BY DEF CallsInv, Returns, Proceeds

\* A change of one container of the instance in hand is one of its own service.
LEMMA OneContainer ==
  ASSUME NEW n \in Instances, NEW name \in {App(n), Side(n)},
         \A d \in Names : d # name => engine'[d] = engine[d]
  PROVE  /\ Stays(Control) /\ Stays(Prometheus) /\ Stays(Grafana)
         /\ \A m \in Instances : m # n => Stays(App(m)) /\ Stays(Side(m))
         /\ name # App(n) => Stays(App(n))
         /\ name # Side(n) => Stays(Side(n))
  <1>1. name \in ReplicaNames
    BY DEF ReplicaNames
  <1>2. \A d \in Names : d # name => Stays(d)
    BY SameStays
  <1>3. /\ Control \in Names /\ Prometheus \in Names /\ Grafana \in Names
        /\ name \notin {Control, Prometheus, Grafana}
    BY <1>1, NamesDiffer DEF PlatformNames
  <1>4. \A m \in Instances : App(m) \in Names /\ Side(m) \in Names
    BY NamesDiffer DEF ReplicaNames
  <1>5. \A m \in Instances : m # n => App(m) # name /\ Side(m) # name
    BY NamesDiffer
  <1> QED
    BY <1>2, <1>3, <1>4, <1>5

LEMMA ProvisionMinds ==
  ASSUME IInv, UsedInv, NEW c \in Callers, call[c].op = "deploy",
         NEW kind \in {"app", "side"}, NEW next,
         Provision(c, <<kind, Instance(c)>>, kind, next)
  PROVE  MindsOwn(c)
  <1>0. EngineInv /\ CallsInv
    BY Parts
  <1> DEFINE name == <<kind, Instance(c)>>
             r == [call[c] EXCEPT !.at = next, !.ids[kind] = engine'[name].id,
                                  !.made = @ \cup {<<name, engine'[name].id>>}]
             q == [call[c] EXCEPT !.at = "cleanApp", !.n = call[c].k - 1, !.k = 1]
  <1>1. /\ call[c] \in DeployCalls /\ call[c].live \in BOOLEAN /\ Instance(c) \in Instances
    BY <1>0, DeployIs
  <1>2. PICK o \in Creates(name, call[c].live) :
          /\ Leaves(o)
          /\ Proceeds(c, r) \/ RollsBack(c)
    BY DEF Provision
  <1>3. name \in {App(Instance(c)), Side(Instance(c))} /\ name \in Names
    BY <1>1, NamesDiffer DEF App, Side, ReplicaNames
  <1>4. UNCHANGED <<memory, cdocker, seen>>
    BY DEF Provision
  <1>5. /\ r.op = "deploy" /\ r.svc = call[c].svc /\ r.live = call[c].live
        /\ q.op = "deploy" /\ q.svc = call[c].svc /\ q.live = call[c].live
    BY <1>1 DEF DeployCalls
  <1> HIDE DEF name, r
  <1>6. UsedOn /\ \A d \in Names : d # name => engine'[d] = engine[d]
    BY <1>0, <1>1, <1>2, <1>3, CalmCreates
  <1>7. /\ Stays(Control)
        /\ \A m \in Instances : m # Instance(c) => Stays(App(m)) /\ Stays(Side(m))
    BY <1>1, <1>3, <1>6, OneContainer
  <1>8. \A m \in Instances : m # Instance(c) => Still(m)
    BY <1>4, <1>7 DEF Still, memory
  <1>9. /\ \A d \in Callers : d # c => call'[d] = call[d]
        /\ call'[c] \in {Idle, r, q}
    <2>1. RollsBack(c) => Returns(c) \/ Proceeds(c, q)
      BY DEF RollsBack
    <2> HIDE DEF q
    <2> QED
      BY <1>0, <1>2, <2>1, ProceedsIs, ReturnsIs
  <1> HIDE DEF q
  <1> QED
    BY <1>4, <1>5, <1>6, <1>7, <1>8, <1>9 DEF MindsOwn, InHand, memory

LEMMA RegisterReplicaMinds ==
  ASSUME IInv, UsedInv, NEW c \in Callers, RegisterReplica(c) PROVE MindsOwn(c)
  <1>0. EngineInv /\ CallsInv /\ MemoryInv
    BY Parts
  <1> DEFINE r == [call[c] EXCEPT !.at = "side", !.k = call[c].k + 1]
  <1>1. call[c].op = "deploy" /\ UNCHANGED <<cdocker, engine, seen>>
    BY DEF RegisterReplica, At
  <1>2. call[c] \in DeployCalls /\ Instance(c) \in Instances /\ call[c].svc \in Services
    BY <1>0, <1>1, DeployIs
  <1>3. /\ containers' = [containers EXCEPT ![Instance(c)] = call[c].ids]
        /\ services' = [services EXCEPT ![call[c].svc] = Append(services[call[c].svc], Instance(c))]
        /\ Returns(c) \/ Proceeds(c, r)
    BY DEF RegisterReplica, Records
  <1>4. UsedOn
    <2>1. CASE UNCHANGED used
      BY <2>1, UsedUnchanged
    <2>2. CASE used' = [used EXCEPT !.faults = used.faults + 1]
      BY <2>2 DEF UsedInv, UsedOn
    <2> QED
      BY <2>1, <2>2 DEF RegisterReplica
  <1>5. r.op = "deploy" /\ r.svc = call[c].svc /\ r.live = call[c].live
    BY <1>2 DEF DeployCalls
  <1> HIDE DEF r
  <1>6. (\A d \in Callers : d # c => call'[d] = call[d]) /\ call'[c] \in {Idle, r}
    BY <1>0, <1>3, ProceedsIs, ReturnsIs
  <1>7. \A m \in Instances : m # Instance(c) => Still(m)
    BY <1>0, <1>1, <1>3, SameStays DEF Still, MemoryInv
  <1>8. \A s \in Services : s # call[c].svc => services'[s] = services[s]
    BY <1>0, <1>3 DEF MemoryInv
  <1> QED
    BY <1>1, <1>4, <1>5, <1>6, <1>7, <1>8, SameStays DEF MindsOwn, InHand

LEMMA CleanMinds ==
  ASSUME IInv, UsedInv, NEW c \in Callers, Clean(c) PROVE MindsOwn(c)
  <1>0. EngineInv /\ CallsInv
    BY Parts
  <1> DEFINE app == call[c].at = "cleanApp"
             name == IF app THEN App(Instance(c)) ELSE Side(Instance(c))
             r == [call[c] EXCEPT !.at = "cleanSide"]
             q == [call[c] EXCEPT !.at = "cleanApp", !.k = call[c].k + 1]
  <1>1. call[c].op = "deploy" /\ UNCHANGED <<memory, cdocker, seen>>
    BY DEF Clean
  <1>2. call[c] \in DeployCalls /\ call[c].live \in BOOLEAN /\ Instance(c) \in Instances
    BY <1>0, <1>1, DeployIs
  <1>3. PICK o \in RemovesName(name, call[c].live) :
          Leaves(o) /\ (Proceeds(c, r) \/ Returns(c) \/ Proceeds(c, q))
    BY DEF Clean
  <1>4. name \in {App(Instance(c)), Side(Instance(c))} /\ name \in Names
    BY <1>2, NamesDiffer DEF ReplicaNames
  <1>5. /\ r.op = "deploy" /\ r.svc = call[c].svc /\ r.live = call[c].live
        /\ q.op = "deploy" /\ q.svc = call[c].svc /\ q.live = call[c].live
    BY <1>2 DEF DeployCalls
  <1> HIDE DEF name, r, q
  <1>6. UsedOn /\ \A d \in Names : d # name => engine'[d] = engine[d]
    <2>1. (call[c].live /\ Exists(name)) \in BOOLEAN
      BY <1>2 DEF Exists
    <2> QED
      BY <1>0, <1>3, <1>4, <2>1, CalmWith, StatesAre DEF RemovesName
  <1>7. /\ Stays(Control)
        /\ \A m \in Instances : m # Instance(c) => Stays(App(m)) /\ Stays(Side(m))
    BY <1>2, <1>4, <1>6, OneContainer
  <1>8. \A m \in Instances : m # Instance(c) => Still(m)
    BY <1>1, <1>7 DEF Still, memory
  <1>9. (\A d \in Callers : d # c => call'[d] = call[d]) /\ call'[c] \in {Idle, r, q}
    BY <1>0, <1>3, ProceedsIs, ReturnsIs
  <1> QED
    BY <1>1, <1>5, <1>6, <1>7, <1>8, <1>9 DEF MindsOwn, InHand, memory

\* What the Docker call of a walk leaves: a stopped container is still there.
LEMMA CalmEffect ==
  ASSUME UsedInv, EngineInv, NEW c \in Callers, NEW name \in Names, NEW id,
         call[c].live \in BOOLEAN, NEW o \in Effect(c, name, id), Leaves(o)
  PROVE  /\ UsedOn
         /\ \A d \in Names : d # name => engine'[d] = engine[d]
         /\ call[c].op = "stop" => \A d \in Names : Stays(d)
         /\ used'.faults = 0 => /\ o.ok <=> call[c].live /\ HasId(name, id)
                                /\ o.ok /\ call[c].op # "stop" => engine'[name].st = "none"
  <1> DEFINE able == call[c].live /\ HasId(name, id)
  <1>1. able \in BOOLEAN /\ able = (call[c].live /\ HasId(name, id)) /\ (able => Exists(name))
    BY DEF HasId, Exists
  <1>2. CASE call[c].op = "stop"
    <2>1. o \in Docker(able, With(name, "exited"), {engine})
      BY <1>2 DEF Effect, Stops
    <2> HIDE DEF able
    <2> QED
      BY <1>1, <1>2, <2>1, CalmWith, StatesAre
  <1>3. CASE call[c].op # "stop"
    <2>1. o \in Docker(able, With(name, "none"), {engine})
      BY <1>3 DEF Effect, Removes
    <2> HIDE DEF able
    <2>2. /\ UsedOn
          /\ \A d \in Names : d # name => engine'[d] = engine[d]
          /\ o.ok => engine' = With(name, "none")
          /\ used'.faults = 0 => (o.ok <=> able) /\ (~o.ok => engine' = engine)
      BY <1>1, <2>1, CalmWith, StatesAre
    <2>3. used'.faults = 0 /\ o.ok => engine'[name].st = "none"
      BY <1>1, <2>2, WithIs, StatesAre
    <2> QED
      BY <1>1, <1>3, <2>2, <2>3
  <1> QED
    BY <1>2, <1>3

LEMMA WalkAppMinds ==
  ASSUME IInv, UsedInv, NEW c \in Callers, WalkApp(c) PROVE MindsOwn(c)
  <1>0. EngineInv /\ CallsInv
    BY Parts
  <1> DEFINE n == Head(call[c].list)
             r == [call[c] EXCEPT !.at = "side", !.side = containers[n].side]
  <1>1. call[c].op \in {"stop", "remove"} /\ UNCHANGED <<memory, cdocker, seen>>
    BY DEF WalkApp
  <1>2. call[c] \in WalkCalls /\ n \in Instances /\ call[c].live \in BOOLEAN
    BY <1>0, <1>1, WalkIs
  <1>3. r.op = call[c].op /\ r.svc = call[c].svc /\ r.live = call[c].live
    BY <1>2 DEF WalkCalls
  <1>4. \/ Returns(c) /\ UNCHANGED <<engine, used>>
        \/ \E o \in Effect(c, App(n), containers[n].app) :
             Leaves(o) /\ (Proceeds(c, r) \/ Returns(c))
    BY DEF WalkApp, Aborts
  <1> HIDE DEF n, r
  <1>5. App(n) \in Names
    BY <1>2 DEF Names
  <1>6. UsedOn /\ \A d \in Names : d # App(n) => engine'[d] = engine[d]
    <2>1. CASE UNCHANGED <<engine, used>>
      BY <2>1, UsedUnchanged
    <2>2. CASE \E o \in Effect(c, App(n), containers[n].app) : Leaves(o)
      BY <1>0, <1>2, <1>5, <2>2, CalmEffect
    <2> QED
      BY <1>4, <2>1, <2>2
  <1>7. /\ Stays(Control)
        /\ \A m \in Instances : m # n => Stays(App(m)) /\ Stays(Side(m))
    BY <1>2, <1>6, OneContainer
  <1>8. (\A d \in Callers : d # c => call'[d] = call[d]) /\ call'[c] \in {Idle, r}
    BY <1>0, <1>4, ProceedsIs, ReturnsIs
  <1> QED
    BY <1>1, <1>3, <1>6, <1>7, <1>8 DEF MindsOwn, InHand, memory, Still, n

LEMMA WalkSideMinds ==
  ASSUME IInv, UsedInv, NEW c \in Callers, WalkSide(c) PROVE MindsOwn(c)
  <1>0. EngineInv /\ CallsInv /\ MemoryInv
    BY Parts
  <1> DEFINE n == Head(call[c].list)
             r == [call[c] EXCEPT !.at = "app", !.list = Tail(call[c].list)]
  <1>1. call[c].op \in {"stop", "remove"} /\ UNCHANGED cdocker /\ seen \subseteq seen'
    BY DEF WalkSide
  <1>2. call[c] \in WalkCalls /\ n \in Instances /\ call[c].live \in BOOLEAN
    BY <1>0, <1>1, WalkIs
  <1>3. r.op = call[c].op /\ r.svc = call[c].svc /\ r.live = call[c].live
    BY <1>2 DEF WalkCalls
  <1>4. PICK o \in Effect(c, Side(n), call[c].side) :
          /\ Leaves(o) /\ (Proceeds(c, r) \/ Returns(c))
          /\ containers' \in {containers, [containers EXCEPT ![n] = NoInfo]}
          /\ services' \in {services, [services EXCEPT ![call[c].svc] = << >>]}
    BY DEF WalkSide, Aborts
  <1> HIDE DEF n, r
  <1>5. Side(n) \in Names
    BY <1>2 DEF Names
  <1>6. UsedOn /\ \A d \in Names : d # Side(n) => engine'[d] = engine[d]
    BY <1>0, <1>2, <1>4, <1>5, CalmEffect
  <1>7. /\ Stays(Control)
        /\ \A m \in Instances : m # n => Stays(App(m)) /\ Stays(Side(m))
    BY <1>2, <1>6, OneContainer
  <1>8. (\A d \in Callers : d # c => call'[d] = call[d]) /\ call'[c] \in {Idle, r}
    BY <1>0, <1>4, ProceedsIs, ReturnsIs
  <1>9. /\ \A m \in Instances : m # n => containers'[m] = containers[m]
        /\ \A s \in Services : s # call[c].svc => services'[s] = services[s]
    BY <1>0, <1>4 DEF MemoryInv
  <1> QED
    BY <1>1, <1>3, <1>6, <1>7, <1>8, <1>9 DEF MindsOwn, InHand, Still, n

LEMMA CreateMonitoringMinds ==
  ASSUME IInv, UsedInv, NEW c \in Callers, CreateMonitoring(c) PROVE MindsOwn(c)
  <1>0. EngineInv /\ CallsInv
    BY Parts
  <1> DEFINE name == IF call[c].at = "prometheus" THEN Prometheus ELSE Grafana
             r == [call[c] EXCEPT !.at = "grafana"]
  <1>1. call[c].op = "monitoring" /\ UNCHANGED <<memory, cdocker, seen>>
    BY DEF CreateMonitoring
  <1>2. call[c] \in MonitoringCalls /\ call[c].live \in BOOLEAN
    BY <1>0, <1>1, CallIs DEF MonitoringCalls
  <1>3. r.op = "monitoring" /\ r.live = call[c].live
    BY <1>2 DEF MonitoringCalls
  <1>4. PICK o \in Creates(name, call[c].live) : Leaves(o) /\ (Proceeds(c, r) \/ Returns(c))
    BY DEF CreateMonitoring
  <1>5. /\ name \in Names /\ Control \in Names /\ Control # name
        /\ \A m \in Instances : /\ App(m) \in Names /\ Side(m) \in Names
                                /\ App(m) # name /\ Side(m) # name
    BY NamesDiffer DEF PlatformNames, ReplicaNames, Control, Prometheus, Grafana
  <1> HIDE DEF name, r
  <1>6. UsedOn /\ \A d \in Names : d # name => engine'[d] = engine[d]
    BY <1>0, <1>2, <1>4, <1>5, CalmCreates
  <1>7. Stays(Control) /\ \A m \in Instances : Stays(App(m)) /\ Stays(Side(m))
    BY <1>5, <1>6, SameStays
  <1>8. (\A d \in Callers : d # c => call'[d] = call[d]) /\ call'[c] \in {Idle, r}
    BY <1>0, <1>4, ProceedsIs, ReturnsIs
  <1> QED
    BY <1>1, <1>3, <1>6, <1>7, <1>8 DEF MindsOwn, memory, Still

\* So does every step of a handler.
LEMMA HandlerMinds ==
  ASSUME IInv, UsedInv, NEW c \in Callers, Handler(c)
  PROVE  MindsOwn(c) /\ Busy(c)
  <1>0. CallsInv
    BY Parts
  <1>1. Busy(c)
    BY DEF Handler, CreateSidecar, CreateApp, RegisterReplica, Clean, WalkApp, WalkSide,
           CreateMonitoring, At, Busy, Idle
  <1>2. CASE CreateSidecar(c)
    <2>1. call[c].op = "deploy" /\ Provision(c, <<"side", Instance(c)>>, "side", "app")
      BY <1>2 DEF CreateSidecar, At, Side
    <2> QED
      BY <1>1, <2>1, ProvisionMinds
  <1>3. CASE CreateApp(c)
    <2>1. call[c].op = "deploy" /\ Provision(c, <<"app", Instance(c)>>, "app", "register")
      BY <1>3 DEF CreateApp, At, App
    <2> QED
      BY <1>1, <2>1, ProvisionMinds
  <1> QED
    BY <1>1, <1>2, <1>3, RegisterReplicaMinds, CleanMinds, WalkAppMinds, WalkSideMinds,
       CreateMonitoringMinds DEF Handler

-----------------------------------------------------------------------------
(* The books of a service nobody touches. *)

\* An instance that is booked as it was keeps its place.
LEMMA PlaceKept ==
  ASSUME NEW n, Still(n) PROVE (Kept(n) => Kept(n)') /\ (Absent(n) => Absent(n)')
  BY DEF Still, Stays, Kept, Absent, HasId, Exists, App, Side

LEMMA IdStays == ASSUME NEW name, NEW id, Stays(name), HasId(name, id) PROVE HasId(name, id)'
  BY DEF Stays, HasId, Exists

LEMMA WholeKept ==
  ASSUME NEW s, NEW listed, NEW inHand, NEW k \in Replicas \ inHand, Still(<<s, k>>),
         Whole(s, listed, inHand)
  PROVE  IF k \in listed THEN Kept(<<s, k>>)' ELSE Absent(<<s, k>>)'
  BY PlaceKept DEF Whole

\* A service of which nothing changes but what is in a caller's hands.
Quiet(s, inHand) ==
  /\ services'[s] = services[s]
  /\ \A k \in Replicas \ inHand : Still(<<s, k>>)

LEMMA DeployBooksKept ==
  ASSUME NEW s \in Services, NEW c, call'[c] = call[c], Quiet(s, {}),
         call[c].k \in Replicas, DeployBooks(s, call[c])
  PROVE  DeployBooks(s, call[c])'
  <1>1. PICK r, m : r = call[c] /\ m = Len(services[s])
    OBVIOUS
  <1>2. r = call'[c] /\ m = Len(services'[s]) /\ r.k \in Replicas
    BY <1>1 DEF Quiet
  <1>3. \A k \in Replicas : Still(<<s, k>>)
    BY DEF Quiet
  <1>4. \A L, H : Whole(s, L, H) => \A k \in Replicas \ H :
           IF k \in L THEN Kept(<<s, k>>)' ELSE Absent(<<s, k>>)'
    BY <1>3, WholeKept
  <1>5. CASE r.at = "side" /\ r.k \in {1, m + 1} /\ Whole(s, 1 .. m, {})
    <2>1. Whole(s, 1 .. m, {})'
      BY <1>4, <1>5 DEF Whole
    <2> QED
      BY <1>1, <1>2, <1>5, <2>1 DEF DeployBooks
  <1>6. CASE /\ r.at \in {"app", "register"} /\ r.k = m + 1 /\ Whole(s, 1 .. m, {r.k})
             /\ containers[<<s, r.k>>] = NoInfo /\ HasId(Side(<<s, r.k>>), r.ids.side)
             /\ IF r.at = "app" THEN ~Exists(App(<<s, r.k>>)) ELSE HasId(App(<<s, r.k>>), r.ids.app)
    <2>1. Whole(s, 1 .. m, {r.k})'
      BY <1>4, <1>6 DEF Whole
    <2>2. Still(<<s, r.k>>)
      BY <1>2, <1>3
    <2>3. containers'[<<s, r.k>>] = NoInfo /\ HasId(Side(<<s, r.k>>), r.ids.side)'
      BY <1>6, <2>2, IdStays DEF Still
    <2>4. IF r.at = "app" THEN ~Exists(App(<<s, r.k>>))' ELSE HasId(App(<<s, r.k>>), r.ids.app)'
      BY <1>6, <2>2, IdStays DEF Still, Stays, Exists
    <2> QED
      BY <1>1, <1>2, <1>6, <2>1, <2>3, <2>4 DEF DeployBooks
  <1> QED
    BY <1>1, <1>5, <1>6 DEF DeployBooks

\* Where a walk is: at a replica of the service.
LEMMA WalkIndex ==
  ASSUME CallsInv, MemoryInv, NEW s \in Services, InOrder(s), NEW c \in Callers,
         call[c].op \in {"stop", "remove"}, WalkBooks(s, call[c])
  PROVE  /\ HeadIndex(s, call[c]) \in Replicas
         /\ HeadIndex(s, call[c]) <= Len(services[s])
         /\ Head(call[c].list) = <<s, HeadIndex(s, call[c])>>
  <1>1. call[c].list \in Seq(Instances) /\ call[c].list # << >> /\ services[s] \in Seq(Instances)
    BY WalkIs DEF MemoryInv
  <1>2. Len(call[c].list) \in Nat /\ Len(call[c].list) >= 1 /\ Len(services[s]) \in Nat
    BY <1>1
  <1>3. HeadIndex(s, call[c]) \in Nat /\ 1 <= HeadIndex(s, call[c])
        /\ HeadIndex(s, call[c]) <= Len(services[s])
    BY <1>2 DEF WalkBooks, HeadIndex
  <1>4. Len(services[s]) <= MaxReplicas /\ MaxReplicas \in Nat
    BY PlatformAssumption DEF InOrder
  <1>5. call[c].list[1] = <<s, HeadIndex(s, call[c]) - 1 + 1>>
    BY <1>2 DEF WalkBooks
  <1>6. Head(call[c].list) = call[c].list[1]
    BY <1>1
  <1> QED
    BY <1>2, <1>3, <1>4, <1>5, <1>6, ReplicasAre

LEMMA WalkBooksKept ==
  ASSUME NEW s \in Services, NEW c, call'[c] = call[c], Quiet(s, {}),
         HeadIndex(s, call[c]) \in Replicas, WalkBooks(s, call[c])
  PROVE  WalkBooks(s, call[c])'
  <1>1. PICK r, m, p : r = call[c] /\ m = Len(services[s]) /\ p = HeadIndex(s, call[c])
    OBVIOUS
  <1>2. /\ r = call'[c] /\ m = Len(services'[s]) /\ p \in Replicas
        /\ p = HeadIndex(s, call[c])'
    BY <1>1 DEF Quiet, HeadIndex
  <1>3. \A k \in Replicas : Still(<<s, k>>)
    BY DEF Quiet
  <1>4. \A L, H : Whole(s, L, H) => \A k \in Replicas \ H :
           IF k \in L THEN Kept(<<s, k>>)' ELSE Absent(<<s, k>>)'
    BY <1>3, WholeKept
  <1>5. \A L, H : Whole(s, L, H) => Whole(s, L, H)'
    BY <1>4 DEF Whole
  <1>6. Still(<<s, p>>)
    BY <1>2, <1>3
  <1>7. /\ p >= 1 /\ \A i \in 1 .. Len(r.list) : r.list[i] = <<s, p - 1 + i>>
        /\ r.at = "side" => r.side = containers[<<s, p>>].side
        /\ \/ r.op = "stop" /\ Whole(s, 1 .. m, {})
           \/ r.op = "remove" /\ r.at = "app" /\ Whole(s, p .. m, {})
           \/ /\ r.op = "remove" /\ r.at = "side" /\ Whole(s, p .. m, {p})
              /\ containers[<<s, p>>] # NoInfo /\ ~Exists(App(<<s, p>>))
              /\ HasId(Side(<<s, p>>), r.side)
    BY <1>1 DEF WalkBooks
  <1>8. /\ containers'[<<s, p>>] = containers[<<s, p>>]
        /\ ~Exists(App(<<s, p>>)) => ~Exists(App(<<s, p>>))'
        /\ HasId(Side(<<s, p>>), r.side) => HasId(Side(<<s, p>>), r.side)'
    BY <1>6, IdStays DEF Still, Stays, Exists
  <1>9. /\ r.op = "stop" /\ Whole(s, 1 .. m, {}) => Whole(s, 1 .. m, {})'
        /\ Whole(s, p .. m, {}) => Whole(s, p .. m, {})'
        /\ Whole(s, p .. m, {p}) => Whole(s, p .. m, {p})'
    BY <1>5
  <1> QED
    BY <1>2, <1>7, <1>8, <1>9 DEF WalkBooks

\* Whoever is at work on a service nobody touches is where he was.
LEMMA BooksFrame ==
  ASSUME CallsInv, MemoryInv, NEW s \in Services, BooksOf(s), Quiet(s, {}),
         Calls(s)' = Calls(s), \A c \in Calls(s) : call'[c] = call[c]
  PROVE  BooksOf(s)'
  <1>1. InOrder(s)'
    BY DEF BooksOf, InOrder, Quiet
  <1>2. Calls(s)' = {} => Whole(s, 1 .. Len(services[s]), {})'
    <2>1. PICK m : m = Len(services[s])
      OBVIOUS
    <2>2. m = Len(services'[s])
      BY <2>1 DEF Quiet
    <2>3. Calls(s)' = {} => \A k \in Replicas \ {} :
             IF k \in 1 .. m THEN Kept(<<s, k>>)' ELSE Absent(<<s, k>>)'
      BY <2>1, WholeKept DEF BooksOf, Quiet
    <2> QED
      BY <2>2, <2>3 DEF Whole
  <1>3. ASSUME NEW c \in Calls(s) PROVE IF call'[c].op = "deploy" THEN DeployBooks(s, call[c])'
                                        ELSE WalkBooks(s, call[c])'
    <2>1. c \in Callers /\ Busy(c) /\ call[c].op # "monitoring" /\ call'[c] = call[c]
      BY DEF Calls
    <2>2. CASE call[c].op = "deploy"
      BY <2>1, <2>2, DeployIs, DeployBooksKept DEF BooksOf
    <2>3. CASE call[c].op # "deploy"
      <3>1. call[c].op \in {"stop", "remove"}
        BY <2>1, <2>3, CallIs DEF DeployCalls, WalkCalls, MonitoringCalls
      <3>2. WalkBooks(s, call[c]) /\ InOrder(s)
        BY <2>3 DEF BooksOf
      <3> QED
        BY <2>1, <2>3, <3>1, <3>2, WalkIndex, WalkBooksKept
    <2> QED
      BY <2>2, <2>3
  <1> QED
    BY <1>1, <1>2, <1>3 DEF BooksOf
-----------------------------------------------------------------------------
(* The books of the service a handler is at work on. *)

\* Nothing disturbs the step, and the books are right before it.
Calm ==
  /\ UsedInv /\ used.faults = 0 /\ used'.faults = 0
  /\ cdocker = "up" /\ "overlap" \notin seen
  /\ \A c \in Callers : Busy(c) => call[c].live
  /\ \A s \in Services : BooksOf(s)

\* The books of the service of c after a step of its handler.
OwnBooks(c) ==
  \A s \in Services : s = call[c].svc =>
    /\ InOrder(s)'
    /\ IF call'[c] = Idle THEN Whole(s, 1 .. Len(services[s]), {})'
       ELSE IF call[c].op = "deploy" THEN DeployBooks(s, call[c])'
       ELSE WalkBooks(s, call[c])'

LEMMA OneCall ==
  ASSUME OneCallAtATime, "overlap" \notin seen, NEW c \in Callers, Busy(c),
         call[c].op # "monitoring", call[c].svc \in Services
  PROVE  Calls(call[c].svc) = {c}
  <1>1. c \in Calls(call[c].svc)
    BY DEF Calls
  <1> QED
    BY <1>1 DEF OneCallAtATime

\* Only the books of the service in hand are left to look at.
LEMMA HandlerBooks ==
  ASSUME IInv, Calm, NEW c \in Callers, Busy(c), call[c].op # "monitoring", MindsOwn(c),
         OwnBooks(c)
  PROVE  \A s \in Services : BooksOf(s)'
  <1>0. CallsInv /\ MemoryInv /\ OneCallAtATime
    BY Parts
  <1>1. /\ call[c].svc \in Services /\ Calls(call[c].svc) = {c}
        /\ call[c].op \in {"deploy", "stop", "remove"}
    <2>1. call[c].op \in {"deploy", "stop", "remove"}
      BY <1>0, CallIs DEF DeployCalls, WalkCalls, MonitoringCalls
    <2>2. call[c].svc \in Services
      BY <1>0, <2>1, DeployIs, WalkIs
    <2> QED
      BY <1>0, <2>1, <2>2, OneCall DEF Calm
  <1>2. InHand(c)[1] = call[c].svc
    <2>1. CASE call[c].op = "deploy"
      BY <2>1 DEF InHand, Instance
    <2>2. CASE call[c].op # "deploy"
      <3>1. WalkBooks(call[c].svc, call[c]) /\ InOrder(call[c].svc)
        BY <1>1, <2>2 DEF Calm, BooksOf
      <3> QED
        BY <1>0, <1>1, <2>2, <3>1, WalkIndex DEF InHand
    <2> QED
      BY <2>1, <2>2
  <1>3. /\ \A d \in Callers : d # c => call'[d] = call[d]
        /\ call'[c] # Idle => call'[c].op = call[c].op /\ call'[c].svc = call[c].svc
    BY DEF MindsOwn
  <1>4. ASSUME NEW s \in Services, s # call[c].svc PROVE BooksOf(s)'
    <2>1. Quiet(s, {})
      <3>1. \A k \in Replicas : <<s, k>> \in Instances /\ <<s, k>> # InHand(c)
        BY <1>2, <1>4 DEF Instances
      <3> QED
        BY <1>4, <3>1 DEF MindsOwn, Quiet
    <2>2. c \notin Calls(s) /\ c \notin Calls(s)'
      BY <1>3, <1>4 DEF Calls, Busy
    <2>3. \A d \in Callers : d # c => (d \in Calls(s) <=> d \in Calls(s)')
      BY <1>3 DEF Calls, Busy
    <2>4. Calls(s)' = Calls(s) /\ \A d \in Calls(s) : call'[d] = call[d]
      BY <1>3, <2>2, <2>3 DEF Calls
    <2> QED
      BY <1>0, <2>1, <2>4, BooksFrame DEF Calm
  <1>6. ASSUME NEW s \in Services, s = call[c].svc PROVE BooksOf(s)'
    <2>1. \A d \in Callers : d # c => d \notin Calls(s)'
      <3>1. \A d \in Callers : d # c => d \notin Calls(s)
        BY <1>1, <1>6
      <3> QED
        BY <1>3, <3>1 DEF Calls, Busy
    <2>2. CASE call'[c] = Idle
      <3>1. Calls(s)' = {}
        BY <2>1, <2>2 DEF Calls, Busy
      <3>2. InOrder(s)' /\ Whole(s, 1 .. Len(services[s]), {})'
        BY <1>6, <2>2 DEF OwnBooks
      <3> QED
        BY <3>1, <3>2 DEF BooksOf
    <2>3. CASE call'[c] # Idle
      <3>1. Calls(s)' = {c}
        BY <1>1, <1>3, <1>6, <2>1, <2>3 DEF Calls, Busy
      <3>2. InOrder(s)'
        BY <1>6 DEF OwnBooks
      <3>3. IF call[c].op = "deploy" THEN DeployBooks(s, call[c])' ELSE WalkBooks(s, call[c])'
        BY <1>6, <2>3 DEF OwnBooks
      <3> QED
        BY <1>3, <2>3, <3>1, <3>2, <3>3 DEF BooksOf
    <2> QED
      BY <2>2, <2>3
  <1> QED
    BY <1>4, <1>6
\* What the books say of the service in hand.
LEMMA OwnBooksAre ==
  ASSUME IInv, Calm, NEW c \in Callers, call[c].op \in {"deploy", "stop", "remove"}
  PROVE  /\ Busy(c) /\ call[c].live /\ call[c].svc \in Services
         /\ BooksOf(call[c].svc) /\ c \in Calls(call[c].svc)
         /\ InOrder(call[c].svc)
         /\ call[c].op = "deploy" => DeployBooks(call[c].svc, call[c])
         /\ call[c].op # "deploy" => WalkBooks(call[c].svc, call[c])
  <1>1. CallsInv
    BY Parts
  <1>2. Busy(c) /\ call[c].svc \in Services
    BY <1>1, DeployIs, WalkIs
  <1>3. c \in Calls(call[c].svc)
    BY <1>2 DEF Calls
  <1>4. BooksOf(call[c].svc)
    BY <1>2 DEF Calm
  <1>5. call[c].live
    BY <1>2 DEF Calm
  <1> QED
    BY <1>2, <1>3, <1>4, <1>5 DEF BooksOf

\* A container of a replica, when nothing is refused.
LEMMA ProvisionCalm ==
  ASSUME IInv, Calm, NEW c \in Callers, call[c].op = "deploy",
         NEW kind \in {"app", "side"}, NEW next, NEW name, name = <<kind, Instance(c)>>,
         Provision(c, name, kind, next)
  PROVE  /\ UNCHANGED <<containers, services>>
         /\ \A d \in Names : d # name => engine'[d] = engine[d]
         /\ ~Exists(name) =>
              /\ engine'[name].st = "running" /\ call'[c] # Idle
              /\ call'[c].at = next /\ call'[c].k = call[c].k
              /\ call'[c].ids[kind] = engine'[name].id
              /\ \A other \in {"app", "side"} :
                    other # kind => call'[c].ids[other] = call[c].ids[other]
         /\ Exists(name) => engine' = engine /\ RollsBack(c)
  <1>0. EngineInv /\ CallsInv
    BY Parts
  <1>1. /\ call[c].live \in BOOLEAN /\ call[c].live /\ Instance(c) \in Instances
        /\ call[c] \in DeployCalls
    BY <1>0, DeployIs, OwnBooksAre
  <1>2. name \in Names
    BY <1>1, NamesDiffer DEF App, Side, ReplicaNames
  <1> DEFINE made == call[c].made \cup {<<name, engine'[name].id>>}
             q == [call[c] EXCEPT !.at = next, !.ids[kind] = engine'[name].id, !.made = made]
  <1>3. PICK o \in Creates(name, call[c].live) :
          Leaves(o) /\ IF o.ok THEN Proceeds(c, q) ELSE RollsBack(c)
    BY DEF Provision
  <1>4. PICK r, id, own : r = call[c] /\ id = engine'[name].id /\ own = made
    OBVIOUS
  <1>5. q = [r EXCEPT !.at = next, !.ids[kind] = id, !.made = own]
    BY <1>4
  <1> HIDE DEF q, made
  <1>6. /\ q.at = next /\ q.k = call[c].k /\ q.ids[kind] = engine'[name].id /\ q # Idle
        /\ \A other \in {"app", "side"} : other # kind => q.ids[other] = call[c].ids[other]
    <2>1. /\ DOMAIN r = {"op", "svc", "n", "k", "at", "live", "ids", "made"}
          /\ r.op = "deploy" /\ r.ids = [app |-> r.ids.app, side |-> r.ids.side]
      BY <1>1, <1>4 DEF DeployCalls, Info
    <2>2. q.at = next /\ q.k = r.k /\ q.op = "deploy" /\ q.ids = [r.ids EXCEPT ![kind] = id]
      BY <1>5, <2>1
    <2>3. q # Idle
      BY <2>2 DEF Idle
    <2> QED
      BY <1>4, <2>1, <2>2, <2>3
  <1>7. /\ \A d \in Names : d # name => engine'[d] = engine[d]
        /\ o.ok <=> ~Exists(name)
        /\ o.ok => engine'[name].st = "running"
        /\ ~o.ok => engine' = engine
    BY <1>0, <1>1, <1>2, <1>3, CalmCreates DEF Calm
  <1>8. UNCHANGED <<containers, services>>
    BY DEF Provision, memory
  <1>9. o.ok => call'[c] = q
    BY <1>0, <1>3, ProceedsIs
  <1> QED
    BY <1>3, <1>6, <1>7, <1>8, <1>9

\* The other replicas keep their places while one is in hand.
LEMMA OthersKept ==
  ASSUME NEW s \in Services, NEW k \in Replicas, NEW listed, NEW inHand, NEW now,
         \A j \in Replicas : j # k => Still(<<s, j>>) /\ (j \in now <=> j \in listed),
         inHand \subseteq {k}, Whole(s, listed, inHand)
  PROVE  Whole(s, now, {k})'
  <1>1. ASSUME NEW j \in Replicas \ {k}
        PROVE  IF j \in now THEN Kept(<<s, j>>)' ELSE Absent(<<s, j>>)'
    <2>1. j \in Replicas \ inHand /\ Still(<<s, j>>) /\ (j \in now <=> j \in listed)
      BY <1>1
    <2> QED
      BY <2>1, WholeKept
  <1> QED
    BY <1>1 DEF Whole

\* What is in hand completes the service, when it is put in its place.
LEMMA NowWhole ==
  ASSUME NEW s, NEW k, NEW listed, Whole(s, listed, {k})',
         IF k \in listed THEN Kept(<<s, k>>)' ELSE Absent(<<s, k>>)'
  PROVE  Whole(s, listed, {})'
  BY DEF Whole

\* The names of one instance are its own.
LEMMA InstanceNames ==
  ASSUME NEW s \in Services, NEW k \in Replicas
  PROVE  /\ <<s, k>> \in Instances /\ App(<<s, k>>) \in Names /\ Side(<<s, k>>) \in Names
         /\ App(<<s, k>>) # Side(<<s, k>>)
         /\ \A j \in Replicas : j # k =>
              /\ <<s, j>> \in Instances /\ <<s, j>> # <<s, k>>
              /\ App(<<s, j>>) \in Names /\ Side(<<s, j>>) \in Names
              /\ {App(<<s, j>>), Side(<<s, j>>)} \cap {App(<<s, k>>), Side(<<s, k>>)} = {}
  BY NamesDiffer DEF Instances, ReplicaNames, App, Side

LEMMA OrderKept ==
  ASSUME NEW s, services'[s] = services[s], InOrder(s) PROVE InOrder(s)'
  BY DEF InOrder

LEMMA CreateSidecarBooks ==
  ASSUME IInv, Calm, NEW c \in Callers, CreateSidecar(c) PROVE OwnBooks(c)
  <1>0. CallsInv /\ MemoryInv
    BY Parts
  <1> SUFFICES ASSUME NEW s \in Services, s = call[c].svc
               PROVE  /\ InOrder(s)'
                      /\ IF call'[c] = Idle THEN Whole(s, 1 .. Len(services[s]), {})'
                         ELSE IF call[c].op = "deploy" THEN DeployBooks(s, call[c])'
                         ELSE WalkBooks(s, call[c])'
    BY DEF OwnBooks
  <1>1. PICK r, m, k : r = call[c] /\ m = Len(services[s]) /\ k = call[c].k
    OBVIOUS
  <1> DEFINE n == <<s, k>>
  <1>2. /\ r.op = "deploy" /\ r.at = "side" /\ Provision(c, Side(n), "side", "app")
        /\ n = Instance(c) /\ r \in DeployCalls /\ k \in Replicas
    BY <1>0, <1>1, DeployIs DEF CreateSidecar, At, Instance
  <1>3. /\ UNCHANGED <<containers, services>>
        /\ \A d \in Names : d # Side(n) => engine'[d] = engine[d]
        /\ ~Exists(Side(n)) =>
             /\ engine'[Side(n)].st = "running" /\ call'[c] # Idle
             /\ call'[c].at = "app" /\ call'[c].k = k
             /\ call'[c].ids["side"] = engine'[Side(n)].id
        /\ Exists(Side(n)) => engine' = engine /\ RollsBack(c)
    BY <1>1, <1>2, ProvisionCalm DEF Side
  <1>4. InOrder(s) /\ k \in {1, m + 1} /\ Whole(s, 1 .. m, {}) /\ m \in Nat
    <2>1. InOrder(s) /\ DeployBooks(s, call[c])
      BY <1>1, <1>2, OwnBooksAre
    <2>2. m \in Nat
      BY <1>0, <1>1 DEF MemoryInv
    <2> QED
      BY <1>1, <1>2, <2>1, <2>2 DEF DeployBooks
  <1>5. InOrder(s)' /\ m = Len(services'[s])
    BY <1>1, <1>3, <1>4, OrderKept
  <1>6. CASE Exists(Side(n))
    <2>1. k \in 1 .. m
      <3>1. k \notin 1 .. m => Absent(n)
        BY <1>2, <1>4 DEF Whole
      <3> QED
        BY <1>6, <3>1 DEF Absent
    <2>2. k = 1 /\ Returns(c)
      BY <1>1, <1>3, <1>4, <1>6, <2>1 DEF RollsBack
    <2>3. call'[c] = Idle
      BY <1>0, <2>2, ReturnsIs
    <2>4. \A j \in Replicas : Still(<<s, j>>)
      BY <1>3, <1>6, SameStays DEF Still
    <2>5. Whole(s, 1 .. m, {})'
      BY <1>4, <2>4, WholeKept DEF Whole
    <2> QED
      BY <1>5, <2>3, <2>5
  <1>7. CASE ~Exists(Side(n))
    <2>1. k = m + 1 /\ Absent(n)
      <3>1. k \in 1 .. m => Kept(n)
        BY <1>2, <1>4 DEF Whole
      <3>2. k \notin 1 .. m
        BY <1>7, <3>1 DEF Kept, HasId
      <3>3. k = m + 1
        BY <1>2, <1>4, <3>2, ReplicasAre
      <3> QED
        BY <1>2, <1>4, <3>2, <3>3 DEF Whole
    <2>2. \A j \in Replicas : j # k => Still(<<s, j>>)
      BY <1>2, <1>3, InstanceNames, SameStays DEF Still
    <2>3. Whole(s, 1 .. m, {k})'
      BY <1>2, <1>4, <2>2, OthersKept
    <2>4. PICK q : q = call'[c]
      OBVIOUS
    <2>5. /\ q.at = "app" /\ q.k = k /\ q.ids["side"] = engine'[Side(n)].id /\ q # Idle
      BY <1>3, <1>7, <2>4
    <2>6. HasId(Side(n), q.ids.side)' /\ containers'[n] = NoInfo
      BY <1>3, <1>7, <2>1, <2>5 DEF HasId, Exists, Absent
    <2>7. ~Exists(App(n))'
      BY <1>2, <1>3, <2>1, InstanceNames DEF Exists, Absent
    <2>8. DeployBooks(s, call[c])'
      BY <1>5, <2>1, <2>3, <2>4, <2>5, <2>6, <2>7 DEF DeployBooks
    <2> QED
      BY <1>1, <1>2, <1>5, <2>4, <2>5, <2>8
  <1> QED
    BY <1>6, <1>7

LEMMA CreateAppBooks ==
  ASSUME IInv, Calm, NEW c \in Callers, CreateApp(c) PROVE OwnBooks(c)
  <1>0. CallsInv /\ MemoryInv
    BY Parts
  <1> SUFFICES ASSUME NEW s \in Services, s = call[c].svc
               PROVE  /\ InOrder(s)'
                      /\ IF call'[c] = Idle THEN Whole(s, 1 .. Len(services[s]), {})'
                         ELSE IF call[c].op = "deploy" THEN DeployBooks(s, call[c])'
                         ELSE WalkBooks(s, call[c])'
    BY DEF OwnBooks
  <1>1. PICK r, m, k : r = call[c] /\ m = Len(services[s]) /\ k = call[c].k
    OBVIOUS
  <1> DEFINE n == <<s, k>>
  <1>2. /\ r.op = "deploy" /\ r.at = "app" /\ Provision(c, App(n), "app", "register")
        /\ n = Instance(c) /\ r \in DeployCalls /\ k \in Replicas
    BY <1>0, <1>1, DeployIs DEF CreateApp, At, Instance
  <1>3. /\ UNCHANGED <<containers, services>>
        /\ \A d \in Names : d # App(n) => engine'[d] = engine[d]
        /\ ~Exists(App(n)) =>
             /\ engine'[App(n)].st = "running" /\ call'[c] # Idle
             /\ call'[c].at = "register" /\ call'[c].k = k
             /\ call'[c].ids["app"] = engine'[App(n)].id
             /\ call'[c].ids["side"] = r.ids["side"]
    BY <1>1, <1>2, ProvisionCalm DEF App
  <1>4. /\ InOrder(s) /\ k = m + 1 /\ Whole(s, 1 .. m, {k}) /\ m \in Nat
        /\ containers[n] = NoInfo /\ HasId(Side(n), r.ids.side) /\ ~Exists(App(n))
    <2>1. InOrder(s) /\ DeployBooks(s, call[c])
      BY <1>1, <1>2, OwnBooksAre
    <2>2. m \in Nat
      BY <1>0, <1>1 DEF MemoryInv
    <2> QED
      BY <1>1, <1>2, <2>1, <2>2 DEF DeployBooks
  <1>5. InOrder(s)' /\ m = Len(services'[s])
    BY <1>1, <1>3, <1>4, OrderKept
  <1>6. \A j \in Replicas : j # k => Still(<<s, j>>)
    BY <1>2, <1>3, InstanceNames, SameStays DEF Still
  <1>7. Whole(s, 1 .. m, {k})'
    BY <1>2, <1>4, <1>6, OthersKept
  <1>8. PICK q : q = call'[c]
    OBVIOUS
  <1>9. /\ q.at = "register" /\ q.k = k /\ q.ids["app"] = engine'[App(n)].id /\ q # Idle
        /\ q.ids["side"] = r.ids["side"]
    BY <1>3, <1>4, <1>8
  <1>10. HasId(App(n), q.ids.app)' /\ containers'[n] = NoInfo
    BY <1>3, <1>4, <1>9 DEF HasId, Exists
  <1>11. HasId(Side(n), q.ids.side)'
    BY <1>2, <1>3, <1>4, <1>9, InstanceNames DEF HasId, Exists
  <1>12. DeployBooks(s, call[c])'
    BY <1>4, <1>5, <1>7, <1>8, <1>9, <1>10, <1>11 DEF DeployBooks
  <1> QED
    BY <1>1, <1>2, <1>5, <1>8, <1>9, <1>12

\* A registered replica is the next one listed.
LEMMA RegisterReplicaBooks ==
  ASSUME IInv, Calm, NEW c \in Callers, RegisterReplica(c) PROVE OwnBooks(c)
  <1>0. CallsInv /\ MemoryInv
    BY Parts
  <1> SUFFICES ASSUME NEW s \in Services, s = call[c].svc
               PROVE  /\ InOrder(s)'
                      /\ IF call'[c] = Idle THEN Whole(s, 1 .. Len(services[s]), {})'
                         ELSE IF call[c].op = "deploy" THEN DeployBooks(s, call[c])'
                         ELSE WalkBooks(s, call[c])'
    BY DEF OwnBooks
  <1>1. PICK r, m, k, list : r = call[c] /\ m = Len(list) /\ k = call[c].k /\ list = services[s]
    OBVIOUS
  <1> DEFINE n == <<s, k>>
  <1>2. /\ r.op = "deploy" /\ r.at = "register" /\ n = Instance(c) /\ r \in DeployCalls
        /\ k \in Replicas /\ r.ids \in Info /\ list \in Seq(Instances) /\ m \in Nat
        /\ UNCHANGED engine
    <2>1. r.op = "deploy" /\ r.at = "register" /\ UNCHANGED engine
      BY <1>1 DEF RegisterReplica, At
    <2>2. n = Instance(c) /\ r \in DeployCalls /\ k \in Replicas /\ r.ids \in Info
      BY <1>0, <1>1, <2>1, DeployIs DEF Instance
    <2>3. list \in Seq(Instances)
      BY <1>0, <1>1 DEF MemoryInv
    <2> QED
      BY <1>1, <2>1, <2>2, <2>3
  <1>3. /\ containers' = [containers EXCEPT ![n] = r.ids]
        /\ services' = [services EXCEPT ![s] = Append(list, n)]
        /\ IF k = r.n THEN Returns(c)
           ELSE Proceeds(c, [r EXCEPT !.at = "side", !.k = k + 1])
    BY <1>1, <1>2 DEF RegisterReplica, Records
  <1>4. /\ InOrder(s) /\ k = m + 1 /\ Whole(s, 1 .. m, {k})
        /\ HasId(Side(n), r.ids.side) /\ HasId(App(n), r.ids.app)
    <2>1. InOrder(s) /\ DeployBooks(s, call[c])
      BY <1>1, <1>2, OwnBooksAre
    <2> QED
      BY <1>1, <1>2, <2>1 DEF DeployBooks
  <1>5. /\ services'[s] = Append(list, n) /\ containers'[n] = r.ids /\ n \in Instances
        /\ \A j \in Replicas : j # k => containers'[<<s, j>>] = containers[<<s, j>>]
    BY <1>0, <1>1, <1>2, <1>3, InstanceNames DEF MemoryInv
  <1>6. /\ Len(services'[s]) = k /\ services'[s][k] = n
        /\ \A i \in 1 .. m : services'[s][i] = list[i]
    BY <1>1, <1>2, <1>4, <1>5, AppendProperties
  <1>7. InOrder(s)'
    <2>1. \A i \in 1 .. m : list[i] = <<s, i>>
      BY <1>1, <1>4 DEF InOrder
    <2>2. \A i \in 1 .. k : services'[s][i] = <<s, i>>
      BY <1>2, <1>4, <1>6, <2>1
    <2> QED
      BY <1>2, <1>6, <2>2, ReplicasAre DEF InOrder
  <1>8. \A j \in Replicas : j # k => Still(<<s, j>>) /\ (j \in 1 .. k <=> j \in 1 .. m)
    BY <1>2, <1>4, <1>5, ReplicasAre, SameStays DEF Still
  <1>9. Whole(s, 1 .. k, {})'
    <2>1. Whole(s, 1 .. k, {k})'
      BY <1>2, <1>4, <1>8, OthersKept
    <2>2. r.ids # NoInfo
      BY <1>2, PlatformAssumption DEF Info
    <2>3. Kept(n)' /\ k \in 1 .. k
      BY <1>2, <1>4, <1>5, <2>2, ReplicasAre DEF Kept, HasId, Exists
    <2> QED
      BY <2>1, <2>3, NowWhole
  <1>10. CASE k = r.n
    <2>1. call'[c] = Idle
      BY <1>0, <1>3, <1>10, ReturnsIs
    <2> QED
      BY <1>6, <1>7, <1>9, <2>1
  <1>11. CASE k # r.n
    <2>1. PICK q : q = [r EXCEPT !.at = "side", !.k = k + 1]
      OBVIOUS
    <2>2. call'[c] = q
      BY <1>0, <1>3, <1>11, <2>1, ProceedsIs
    <2>3. q.at = "side" /\ q.k = k + 1 /\ q.op = "deploy"
      BY <1>2, <2>1 DEF DeployCalls
    <2>4. DeployBooks(s, call[c])'
      BY <1>6, <1>9, <2>2, <2>3 DEF DeployBooks
    <2> QED
      BY <1>1, <1>2, <1>7, <2>2, <2>3, <2>4 DEF Idle
  <1> QED
    BY <1>10, <1>11

\* Nothing is ever rolled back while nothing is disturbed.
LEMMA CleanBooks ==
  ASSUME IInv, Calm, NEW c \in Callers, Clean(c) PROVE OwnBooks(c)
  <1>1. call[c].op = "deploy" /\ call[c].at \in {"cleanApp", "cleanSide"}
    BY DEF Clean
  <1>2. DeployBooks(call[c].svc, call[c])
    BY <1>1, OwnBooksAre
  <1> QED
    BY <1>1, <1>2 DEF DeployBooks

\* What a walk finds: its instance in hand, and its containers.
LEMMA WalkFinds ==
  ASSUME IInv, Calm, NEW c \in Callers, call[c].op \in {"stop", "remove"},
         NEW s \in Services, s = call[c].svc
  PROVE  /\ HeadIndex(s, call[c]) \in Replicas /\ HeadIndex(s, call[c]) <= Len(services[s])
         /\ Head(call[c].list) = <<s, HeadIndex(s, call[c])>>
         /\ Len(services[s]) \in Nat /\ InOrder(s) /\ WalkBooks(s, call[c])
         /\ call[c].at = "app" => Kept(<<s, HeadIndex(s, call[c])>>)
         /\ call[c].at = "side" => HasId(Side(<<s, HeadIndex(s, call[c])>>), call[c].side)
  <1>0. CallsInv /\ MemoryInv
    BY Parts
  <1>1. InOrder(s) /\ WalkBooks(s, call[c])
    BY OwnBooksAre
  <1>2. PICK p, m : p = HeadIndex(s, call[c]) /\ m = Len(services[s])
    OBVIOUS
  <1>3. p \in Replicas /\ p <= m /\ Head(call[c].list) = <<s, p>>
    BY <1>0, <1>1, <1>2, WalkIndex
  <1>4. m \in Nat
    BY <1>0, <1>2 DEF MemoryInv
  <1>5. p \in 1 .. m /\ p \in p .. m
    BY <1>3, <1>4, ReplicasAre
  <1>6. call[c].at = "app" => Kept(<<s, p>>)
    <2>1. call[c].at = "app" => Whole(s, 1 .. m, {}) \/ Whole(s, p .. m, {})
      BY <1>1, <1>2 DEF WalkBooks
    <2> QED
      BY <1>3, <1>5, <2>1 DEF Whole
  <1>7. call[c].at = "side" => HasId(Side(<<s, p>>), call[c].side)
    <2>1. /\ call[c].at = "side" => call[c].side = containers[<<s, p>>].side
          /\ call[c].at = "side" => Whole(s, 1 .. m, {}) \/ HasId(Side(<<s, p>>), call[c].side)
      BY <1>1, <1>2 DEF WalkBooks
    <2>2. Whole(s, 1 .. m, {}) => Kept(<<s, p>>)
      BY <1>3, <1>5 DEF Whole
    <2> QED
      BY <2>1, <2>2 DEF Kept
  <1> QED
    BY <1>1, <1>2, <1>3, <1>4, <1>6, <1>7

\* The application of the instance in hand is stopped, or removed.
LEMMA WalkAppBooks ==
  ASSUME IInv, Calm, NEW c \in Callers, WalkApp(c) PROVE OwnBooks(c)
  <1>0. CallsInv /\ MemoryInv /\ EngineInv
    BY Parts
  <1> SUFFICES ASSUME NEW s \in Services, s = call[c].svc
               PROVE  /\ InOrder(s)'
                      /\ IF call'[c] = Idle THEN Whole(s, 1 .. Len(services[s]), {})'
                         ELSE IF call[c].op = "deploy" THEN DeployBooks(s, call[c])'
                         ELSE WalkBooks(s, call[c])'
    BY DEF OwnBooks
  <1>1. PICK r, m, p : r = call[c] /\ m = Len(services[s]) /\ p = HeadIndex(s, call[c])
    OBVIOUS
  <1> DEFINE n == <<s, p>>
  <1>2. /\ r.op \in {"stop", "remove"} /\ r.at = "app" /\ UNCHANGED <<containers, services>>
        /\ r.op # "deploy"
    BY <1>1 DEF WalkApp, memory
  <1>3. /\ r \in WalkCalls /\ p \in Replicas /\ p <= m /\ m \in Nat /\ Head(r.list) = n
        /\ InOrder(s) /\ Kept(n) /\ r.live \in BOOLEAN /\ r.live
    BY <1>0, <1>1, <1>2, WalkFinds, WalkIs, OwnBooksAre
  <1>4. /\ p >= 1 /\ \A i \in 1 .. Len(r.list) : r.list[i] = <<s, p - 1 + i>>
        /\ \/ r.op = "stop" /\ Whole(s, 1 .. m, {})
           \/ r.op = "remove" /\ Whole(s, p .. m, {})
    <2>1. WalkBooks(s, call[c])
      BY <1>1, <1>2, WalkFinds
    <2> QED
      BY <1>1, <1>2, <2>1 DEF WalkBooks
  <1>5. PICK q : q = [r EXCEPT !.at = "side", !.side = containers[n].side]
    OBVIOUS
  <1>6. PICK o \in Effect(c, App(n), containers[n].app) :
          Leaves(o) /\ IF o.ok THEN Proceeds(c, q) ELSE Aborts(c)
    BY <1>1, <1>3, <1>5 DEF WalkApp, Kept
  <1>7. App(n) \in Names /\ Side(n) \in Names /\ App(n) # Side(n) /\ n \in Instances
    BY <1>3, InstanceNames
  <1>8. /\ \A d \in Names : d # App(n) => engine'[d] = engine[d]
        /\ r.op = "stop" => \A d \in Names : Stays(d)
        /\ o.ok /\ (r.op # "stop" => engine'[App(n)].st = "none")
    <2>1. HasId(App(n), containers[n].app) /\ UsedInv /\ used'.faults = 0
      BY <1>3 DEF Calm, Kept
    <2>2. PICK id, name : id = containers[n].app /\ name = App(n)
      OBVIOUS
    <2>3. o \in Effect(c, name, id) /\ Leaves(o) /\ name \in Names
      BY <1>6, <1>7, <2>2
    <2>4. call[c].live \in BOOLEAN /\ call[c].live /\ HasId(name, id)
      BY <1>1, <1>3, <2>1, <2>2
    <2>5. /\ \A d \in Names : d # name => engine'[d] = engine[d]
          /\ call[c].op = "stop" => \A d \in Names : Stays(d)
          /\ used'.faults = 0 => /\ o.ok <=> call[c].live /\ HasId(name, id)
                                 /\ o.ok /\ call[c].op # "stop" => engine'[name].st = "none"
      <3>1. UsedInv /\ EngineInv /\ call[c].live \in BOOLEAN /\ o \in Effect(c, name, id)
            /\ Leaves(o) /\ name \in Names
        BY <1>0, <2>1, <2>3, <2>4
      <3>2. \A d \in Names : d # name => engine'[d] = engine[d]
        BY <3>1, CalmEffect
      <3>3. call[c].op = "stop" => \A d \in Names : Stays(d)
        BY <3>1, CalmEffect
      <3>4. used'.faults = 0 => (o.ok <=> call[c].live /\ HasId(name, id))
        BY <3>1, CalmEffect
      <3>5. used'.faults = 0 => (o.ok /\ call[c].op # "stop" => engine'[name].st = "none")
        BY <3>1, CalmEffect
      <3> QED
        BY <3>2, <3>3, <3>4, <3>5
    <2>6. o.ok /\ (call[c].op # "stop" => engine'[name].st = "none")
      BY <2>1, <2>4, <2>5
    <2> QED
      BY <1>1, <2>2, <2>5, <2>6
  <1>9. call'[c] = q
    BY <1>0, <1>6, <1>8, ProceedsIs
  <1>10. /\ q.at = "side" /\ q.side = containers[n].side /\ q.list = r.list /\ q.op = r.op
         /\ q # Idle
    BY <1>2, <1>3, <1>5 DEF WalkCalls, Idle
  <1>11. InOrder(s)' /\ m = Len(services'[s]) /\ p = HeadIndex(s, call[c])'
    BY <1>1, <1>2, <1>3, <1>9, <1>10, OrderKept DEF HeadIndex
  <1>12. \A j \in Replicas : j # p => Still(<<s, j>>)
    BY <1>2, <1>3, <1>8, InstanceNames, SameStays DEF Still
  <1>13. CASE r.op = "stop"
    <2>1. \A j \in Replicas : Still(<<s, j>>)
      BY <1>2, <1>8, <1>13, InstanceNames DEF Still
    <2>2. Whole(s, 1 .. m, {})'
      BY <1>4, <1>13, <2>1, WholeKept DEF Whole
    <2>3. WalkBooks(s, call[c])'
      BY <1>2, <1>4, <1>9, <1>10, <1>11, <1>13, <2>2 DEF WalkBooks
    <2> QED
      BY <1>1, <1>2, <1>9, <1>10, <1>11, <2>3
  <1>14. CASE r.op = "remove"
    <2>1. Whole(s, p .. m, {p})'
      BY <1>3, <1>4, <1>12, <1>14, OthersKept
    <2>2. containers'[n] # NoInfo /\ ~Exists(App(n))' /\ HasId(Side(n), q.side)'
      BY <1>2, <1>3, <1>7, <1>8, <1>10, <1>14 DEF Kept, HasId, Exists
    <2>3. WalkBooks(s, call[c])'
      BY <1>2, <1>4, <1>9, <1>10, <1>11, <1>14, <2>1, <2>2 DEF WalkBooks
    <2> QED
      BY <1>1, <1>2, <1>9, <1>10, <1>11, <2>3
  <1> QED
    BY <1>2, <1>13, <1>14

\* Its sidecar, and the walk goes on; a removal takes the instance out of the
\* books, and with the last of them the service.
LEMMA WalkSideBooks ==
  ASSUME IInv, Calm, NEW c \in Callers, WalkSide(c) PROVE OwnBooks(c)
  <1>0. CallsInv /\ MemoryInv /\ EngineInv
    BY Parts
  <1> SUFFICES ASSUME NEW s \in Services, s = call[c].svc
               PROVE  /\ InOrder(s)'
                      /\ IF call'[c] = Idle THEN Whole(s, 1 .. Len(services[s]), {})'
                         ELSE IF call[c].op = "deploy" THEN DeployBooks(s, call[c])'
                         ELSE WalkBooks(s, call[c])'
    BY DEF OwnBooks
  <1>1. PICK r, m, p, list : /\ r = call[c] /\ m = Len(services[s]) /\ p = HeadIndex(s, call[c])
                             /\ list = call[c].list
    OBVIOUS
  <1> DEFINE n == <<s, p>>
  <1>2. r.op \in {"stop", "remove"} /\ r.at = "side" /\ r.op # "deploy" /\ r.op # "monitoring"
    BY <1>1 DEF WalkSide
  <1>3. /\ r \in WalkCalls /\ p \in Replicas /\ p <= m /\ m \in Nat /\ Head(list) = n
        /\ InOrder(s) /\ HasId(Side(n), r.side) /\ r.live \in BOOLEAN /\ r.live
        /\ list \in Seq(Instances) /\ list # << >> /\ services[s] \in Seq(Instances)
    BY <1>0, <1>1, <1>2, WalkFinds, WalkIs, OwnBooksAre DEF MemoryInv
  <1>4. /\ p >= 1 /\ \A i \in 1 .. Len(list) : list[i] = <<s, p - 1 + i>>
        /\ \/ r.op = "stop" /\ Whole(s, 1 .. m, {})
           \/ r.op = "remove" /\ Whole(s, p .. m, {p}) /\ ~Exists(App(n))
        /\ p = m + 1 - Len(list) /\ Len(list) \in Nat /\ Len(list) >= 1
    <2>1. WalkBooks(s, call[c])
      BY <1>1, <1>2, WalkFinds
    <2>2. Len(list) \in Nat /\ Len(list) >= 1
      BY <1>3
    <2> QED
      BY <1>1, <1>2, <2>1, <2>2 DEF WalkBooks, HeadIndex
  <1>5. PICK q : q = [r EXCEPT !.at = "app", !.list = Tail(list)]
    OBVIOUS
  <1>6. PICK o \in Effect(c, Side(n), r.side) :
          /\ Leaves(o)
          /\ containers' = IF o.ok /\ Deletes(c)
                           THEN [containers EXCEPT ![n] = NoInfo] ELSE containers
          /\ services' = IF o.ok /\ DeletesService(c)
                         THEN [services EXCEPT ![s] = << >>] ELSE services
          /\ IF ~o.ok THEN Aborts(c)
             ELSE IF Len(list) = 1 THEN Returns(c) ELSE Proceeds(c, q)
    BY <1>1, <1>3, <1>5 DEF WalkSide
  <1>7. App(n) \in Names /\ Side(n) \in Names /\ App(n) # Side(n) /\ n \in Instances
    BY <1>3, InstanceNames
  <1>8. /\ \A d \in Names : d # Side(n) => engine'[d] = engine[d]
        /\ r.op = "stop" => \A d \in Names : Stays(d)
        /\ o.ok /\ (r.op # "stop" => engine'[Side(n)].st = "none")
    <2>1. UsedInv /\ used'.faults = 0 /\ call[c].live \in BOOLEAN /\ call[c].live
      BY <1>1, <1>3 DEF Calm
    <2>2. PICK id, name : id = r.side /\ name = Side(n)
      OBVIOUS
    <2>3. o \in Effect(c, name, id) /\ Leaves(o) /\ name \in Names
      BY <1>6, <1>7, <2>2
    <2>4. call[c].live \in BOOLEAN /\ call[c].live /\ HasId(name, id)
      BY <1>1, <1>3, <2>1, <2>2
    <2>5. /\ \A d \in Names : d # name => engine'[d] = engine[d]
          /\ call[c].op = "stop" => \A d \in Names : Stays(d)
          /\ used'.faults = 0 => /\ o.ok <=> call[c].live /\ HasId(name, id)
                                 /\ o.ok /\ call[c].op # "stop" => engine'[name].st = "none"
      <3>1. UsedInv /\ EngineInv /\ call[c].live \in BOOLEAN /\ o \in Effect(c, name, id)
            /\ Leaves(o) /\ name \in Names
        BY <1>0, <2>1, <2>3, <2>4
      <3>2. \A d \in Names : d # name => engine'[d] = engine[d]
        BY <3>1, CalmEffect
      <3>3. call[c].op = "stop" => \A d \in Names : Stays(d)
        BY <3>1, CalmEffect
      <3>4. used'.faults = 0 => (o.ok <=> call[c].live /\ HasId(name, id))
        BY <3>1, CalmEffect
      <3>5. used'.faults = 0 => (o.ok /\ call[c].op # "stop" => engine'[name].st = "none")
        BY <3>1, CalmEffect
      <3> QED
        BY <3>2, <3>3, <3>4, <3>5
    <2>6. o.ok /\ (call[c].op # "stop" => engine'[name].st = "none")
      BY <2>1, <2>4, <2>5
    <2> QED
      BY <1>1, <2>2, <2>5, <2>6
  <1>9. call'[c] = IF Len(list) = 1 THEN Idle ELSE q
    BY <1>0, <1>6, <1>8, ProceedsIs, ReturnsIs
  <1>10. /\ q.at = "app" /\ q.list = Tail(list) /\ q.op = r.op /\ q # Idle
    BY <1>2, <1>3, <1>5 DEF WalkCalls, Idle
  <1>11. ASSUME Len(list) # 1
         PROVE  /\ Len(q.list) = Len(list) - 1 /\ Len(q.list) \in Nat
                /\ \A i \in 1 .. Len(q.list) : q.list[i] = <<s, p + i>>
    <2>1. Len(Tail(list)) = Len(list) - 1 /\ \A i \in 1 .. Len(Tail(list)) : Tail(list)[i] = list[i + 1]
      BY <1>3, HeadTailProperties
    <2>2. \A i \in 1 .. Len(q.list) : i + 1 \in 1 .. Len(list) /\ p - 1 + (i + 1) = p + i
      BY <1>3, <1>4, <1>10, <2>1, ReplicasAre
    <2> QED
      BY <1>4, <1>10, <2>1, <2>2
  <1>12. CASE r.op = "stop"
    <2>1. UNCHANGED <<containers, services>>
      BY <1>1, <1>6, <1>12 DEF Deletes, DeletesService
    <2>2. \A j \in Replicas : Still(<<s, j>>)
      BY <1>8, <1>12, <2>1, InstanceNames DEF Still
    <2>3. Whole(s, 1 .. m, {})' /\ InOrder(s)' /\ m = Len(services'[s])
      BY <1>1, <1>3, <1>4, <1>12, <2>1, <2>2, WholeKept, OrderKept DEF Whole
    <2>4. CASE Len(list) = 1
      BY <1>9, <2>3, <2>4
    <2>5. CASE Len(list) # 1
      <3>0. PICK p1 : p1 = p + 1
        OBVIOUS
      <3>1. call'[c] = q /\ HeadIndex(s, call[c])' = p1 /\ p1 >= 1
        <4>1. call'[c] = q /\ Len(q.list) = Len(list) - 1
          BY <1>9, <1>11, <2>5
        <4>2. p \in Nat /\ p1 = m + 1 - Len(q.list)
          BY <1>3, <1>4, <3>0, <4>1, ReplicasAre
        <4> QED
          BY <2>3, <3>0, <4>1, <4>2 DEF HeadIndex
      <3>2. \A i \in 1 .. Len(q.list) : q.list[i] = <<s, p1 - 1 + i>>
        <4>1. p1 - 1 = p
          BY <1>3, <3>0, ReplicasAre
        <4>2. \A i \in 1 .. Len(q.list) : q.list[i] = <<s, p + i>>
          BY <1>11, <2>5
        <4> QED
          BY <4>1, <4>2, Zenon
      <3>3. WalkBooks(s, call[c])'
        BY <1>10, <1>12, <2>3, <3>1, <3>2 DEF WalkBooks
      <3> QED
        BY <1>1, <1>2, <1>10, <2>3, <3>1, <3>3
    <2> QED
      BY <2>4, <2>5
  <1>13. CASE r.op = "remove"
    <2>1. /\ containers' = [containers EXCEPT ![n] = NoInfo]
          /\ services' = IF Len(list) = 1 THEN [services EXCEPT ![s] = << >>] ELSE services
      BY <1>1, <1>6, <1>8, <1>13 DEF Deletes, DeletesService
    <2>2. Absent(n)' /\ \A j \in Replicas : j # p => containers'[<<s, j>>] = containers[<<s, j>>]
      BY <1>0, <1>3, <1>4, <1>7, <1>8, <1>13, <2>1, InstanceNames
         DEF MemoryInv, Absent, Exists
    <2>3. \A j \in Replicas : j # p => Still(<<s, j>>)
      BY <1>3, <1>8, <2>2, InstanceNames, SameStays DEF Still
    <2>4. CASE Len(list) = 1
      <3>1. services'[s] = << >>
        BY <1>0, <2>1, <2>4 DEF MemoryInv
      <3>2. InOrder(s)' /\ Len(services'[s]) = 0
        BY <3>1, PlatformAssumption DEF InOrder
      <3>3. p = m
        BY <1>3, <1>4, <2>4
      <3>4. \A j \in Replicas : j # p => (j \in 1 .. 0 <=> j \in p .. m)
        BY <1>3, <3>3, ReplicasAre
      <3>5. Whole(s, 1 .. 0, {p})'
        BY <1>3, <1>4, <1>13, <2>3, <3>4, OthersKept
      <3>6. Whole(s, 1 .. 0, {})'
        BY <1>3, <2>2, <3>5, NowWhole, ReplicasAre
      <3> QED
        BY <1>9, <2>4, <3>2, <3>6
    <2>5. CASE Len(list) # 1
      <3>1. call'[c] = q /\ services'[s] = services[s]
        BY <1>9, <2>1, <2>5
      <3>0. PICK p1 : p1 = p + 1
        OBVIOUS
      <3>2. /\ InOrder(s)' /\ m = Len(services'[s]) /\ HeadIndex(s, call[c])' = p1
            /\ p1 >= 1
        <4>1. call'[c] = q /\ Len(q.list) = Len(list) - 1
          BY <1>11, <2>5, <3>1
        <4>2. p \in Nat /\ p1 = m + 1 - Len(q.list)
          BY <1>3, <1>4, <3>0, <4>1, ReplicasAre
        <4>3. InOrder(s)' /\ m = Len(services'[s])
          BY <1>1, <1>3, <3>1, OrderKept
        <4> QED
          BY <1>3, <3>0, <4>1, <4>2, <4>3 DEF HeadIndex
      <3>3. \A i \in 1 .. Len(q.list) : q.list[i] = <<s, p1 - 1 + i>>
        <4>1. p1 - 1 = p
          BY <1>3, <3>0, ReplicasAre
        <4>2. \A i \in 1 .. Len(q.list) : q.list[i] = <<s, p + i>>
          BY <1>11, <2>5
        <4> QED
          BY <4>1, <4>2, Zenon
      <3>4. \A j \in Replicas : j # p => (j \in p1 .. m <=> j \in p .. m)
        BY <1>3, <3>0, ReplicasAre
      <3>5. Whole(s, p1 .. m, {p})'
        BY <1>3, <1>4, <1>13, <2>3, <3>4, OthersKept
      <3>6. Whole(s, p1 .. m, {})'
        <4>1. p \notin p1 .. m
          BY <1>3, <3>0, ReplicasAre
        <4> QED
          BY <2>2, <3>5, <4>1, NowWhole
      <3>7. WalkBooks(s, call[c])'
        BY <1>10, <1>13, <3>1, <3>2, <3>3, <3>6 DEF WalkBooks
      <3> QED
        BY <1>1, <1>2, <1>10, <3>1, <3>2, <3>7
    <2> QED
      BY <2>4, <2>5
  <1> QED
    BY <1>2, <1>12, <1>13

-----------------------------------------------------------------------------
(* The books are kept by every step. *)

\* What was not disturbed after a step was not before.
LEMMA UndisturbedBefore ==
  ASSUME UsedInv, UsedOn, seen \subseteq seen', cdocker = "up", Undisturbed'
  PROVE  Undisturbed /\ used'.faults = 0
  <1>1. used'.faults = 0 /\ used'.crashes = 0
    BY DEF Undisturbed
  <1>2. used.faults = 0 /\ used.crashes = 0
    BY <1>1 DEF UsedOn, UsedInv
  <1> QED
    BY <1>1, <1>2 DEF Undisturbed

LEMMA HandlerOwnBooks ==
  ASSUME IInv, Calm, NEW c \in Callers, Handler(c), call[c].op # "monitoring"
  PROVE  OwnBooks(c)
  <1>1. ~CreateMonitoring(c)
    BY DEF CreateMonitoring
  <1> QED
    BY <1>1, CreateSidecarBooks, CreateAppBooks, RegisterReplicaBooks, CleanBooks,
       WalkAppBooks, WalkSideBooks DEF Handler

LEMMA HandlerKeepsBooks ==
  ASSUME IInv, BooksInv, NEW c \in Callers, Handler(c) PROVE BooksInv'
  <1>0. CallsInv /\ MemoryInv /\ OneCallAtATime /\ StageInv
    BY Parts
  <1>1. UsedInv /\ ControlStands /\ DownIsEmpty /\ AllLive
    BY DEF BooksInv, UsedInv
  <1>2. MindsOwn(c) /\ Busy(c)
    BY <1>1, HandlerMinds
  <1>3. /\ UsedOn /\ cdocker' = cdocker /\ cdocker \in {"up", "draining"}
        /\ seen \subseteq seen' /\ Stays(Control)
        /\ \A d \in Callers : d # c => call'[d] = call[d]
        /\ call'[c] # Idle => call'[c].op = call[c].op /\ call'[c].live = call[c].live
    BY <1>0, <1>1, <1>2 DEF DownIsEmpty, MindsOwn, StageInv
  <1>4. UsedInv' /\ ControlStands' /\ DownIsEmpty'
    BY <1>1, <1>3 DEF UsedOn, ControlStands, DownIsEmpty, Stays, Exists
  <1>5. AllLive'
    BY <1>1, <1>2, <1>3 DEF AllLive, Busy
  <1>6. ASSUME Undisturbed' PROVE \A s \in Services : BooksOf(s)'
    <2>1. cdocker = "up" /\ Undisturbed /\ used'.faults = 0
      BY <1>1, <1>3, <1>6, UndisturbedBefore DEF Undisturbed
    <2>2. Calm
      BY <1>1, <2>1 DEF Calm, BooksInv, Undisturbed, AllLive
    <2>3. CASE call[c].op = "monitoring"
      <3>1. ASSUME NEW s \in Services PROVE BooksOf(s)'
        <4>1. Quiet(s, {})
          BY <1>2, <2>3 DEF MindsOwn, Quiet, Instances
        <4>2. c \notin Calls(s) /\ c \notin Calls(s)'
          BY <1>3, <2>3 DEF Calls, Busy
        <4>3. \A d \in Callers : d # c => (d \in Calls(s) <=> d \in Calls(s)')
          BY <1>3 DEF Calls, Busy
        <4>4. Calls(s)' = Calls(s) /\ \A d \in Calls(s) : call'[d] = call[d]
          BY <1>3, <4>2, <4>3 DEF Calls
        <4> QED
          BY <1>0, <2>2, <4>1, <4>4, BooksFrame DEF Calm
      <3> QED
        BY <3>1
    <2>4. CASE call[c].op # "monitoring"
      BY <1>2, <2>2, <2>4, HandlerOwnBooks, HandlerBooks
    <2> QED
      BY <2>3, <2>4
  <1> QED
    BY <1>4, <1>5, <1>6 DEF BooksInv, UsedInv

\* A step beside the handlers that creates and removes no container.
LEMMA BesideBooks ==
  ASSUME IInv, BooksInv, UsedOn, seen \subseteq seen',
         UNCHANGED <<containers, services, call, cdocker>>, \A d \in Names : Stays(d)
  PROVE  BooksInv'
  <1>0. CallsInv /\ MemoryInv
    BY Parts
  <1>1. UsedInv /\ ControlStands /\ DownIsEmpty /\ AllLive
    BY DEF BooksInv, UsedInv
  <1>2. Control \in Names /\ \A n \in Instances : App(n) \in Names /\ Side(n) \in Names
    BY DEF Names
  <1>3. ControlStands'
    BY <1>1, <1>2 DEF ControlStands, Stays, Exists
  <1>4. UsedInv' /\ DownIsEmpty' /\ AllLive'
    BY <1>1 DEF UsedOn, DownIsEmpty, AllLive, Busy
  <1>5. ASSUME Undisturbed', NEW s \in Services PROVE BooksOf(s)'
    <2>1. cdocker = "up" /\ Undisturbed
      BY <1>1, <1>5, UndisturbedBefore DEF Undisturbed
    <2>2. Quiet(s, {})
      BY <1>2 DEF Quiet, Still, Instances
    <2>3. Calls(s)' = Calls(s) /\ \A d \in Calls(s) : call'[d] = call[d]
      BY DEF Calls, Busy
    <2> QED
      BY <1>0, <2>1, <2>2, <2>3, BooksFrame DEF BooksInv
  <1> QED
    BY <1>3, <1>4, <1>5 DEF BooksInv, UsedInv

LEMMA AllStay == ASSUME UNCHANGED engine PROVE \A d \in Names : Stays(d)
  BY SameStays

\* cdocker goes down, or is down and stays so.
LEMMA DownBooks ==
  ASSUME BooksInv, UsedInv', cdocker' \in {"absent", "exited"}, DownIsEmpty',
         "restart" \in seen' \/ UNCHANGED <<engine, seen>>
  PROVE  BooksInv'
  <1>1. ControlStands'
    BY DEF BooksInv, ControlStands, Exists
  <1>2. AllLive' /\ ~Undisturbed'
    BY DEF DownIsEmpty, AllLive, Undisturbed
  <1> QED
    BY <1>1, <1>2 DEF BooksInv, UsedInv

LEMMA ForgottenIsEmpty == ASSUME Forgotten PROVE DownIsEmpty'
  BY DEF Forgotten, DownIsEmpty, Busy

LEMMA HaltedBooks ==
  ASSUME IInv, BooksInv, NEW o \in RemovesName(Control, TRUE), Halted(o) PROVE BooksInv'
  <1>0. EngineInv
    BY Parts
  <1>1. /\ Leaves(o) /\ cdocker' = "draining" /\ call' = call
        /\ seen' = seen \cup {"restart"}
    BY DEF Halted
  <1>2. UsedInv'
    <2>1. Exists(Control) \in BOOLEAN /\ o \in Docker(Exists(Control), With(Control, "none"), {engine})
      BY DEF RemovesName, Exists
    <2>2. o.fault \in {0, 1}
      BY <2>1, DockerAnswers
    <2> QED
      BY <1>1, <2>2, LeavesIs DEF BooksInv, UsedInv, UsedOn
  <1>3. ControlStands' /\ DownIsEmpty' /\ AllLive' /\ ~Undisturbed'
    BY <1>1 DEF BooksInv, ControlStands, DownIsEmpty, AllLive, Undisturbed, Busy
  <1> QED
    BY <1>2, <1>3 DEF BooksInv, UsedInv

LEMMA ExitsBooks == ASSUME BooksInv, Exits PROVE BooksInv'
  <1>1. Forgotten /\ cdocker' = "absent" /\ UNCHANGED <<engine, used, seen>>
    BY DEF Exits
  <1>2. UsedInv'
    BY <1>1 DEF BooksInv, UsedInv
  <1> QED
    BY <1>1, <1>2, ForgottenIsEmpty, DownBooks

LEMMA CrashBooks == ASSUME BooksInv, Crash PROVE BooksInv'
  <1>1. UsedInv'
    BY DEF BooksInv, Crash, UsedInv
  <1> QED
    BY <1>1, ForgottenIsEmpty, DownBooks DEF Crash, Died

\* A new cdocker only starts where no control plane is, and then there is no
\* container of a replica either, unless cdocker was restarted before.
LEMMA BootBooks == ASSUME IInv, BooksInv, Boot PROVE BooksInv'
  <1>0. EngineInv /\ MemoryInv
    BY Parts
  <1>1. UsedInv /\ ControlStands /\ DownIsEmpty /\ AllLive
    BY DEF BooksInv, UsedInv
  <1>2. PICK o \in Creates(Control, TRUE) :
          Leaves(o) /\ cdocker' = IF o.ok THEN "up" ELSE "exited"
    BY DEF Boot
  <1>3. cdocker = "absent" /\ UNCHANGED <<containers, services, call, seen>>
    BY DEF Boot, memory
  <1>4. /\ Control \in Names
        /\ \A n \in Instances : /\ App(n) \in Names /\ Side(n) \in Names
                                /\ App(n) # Control /\ Side(n) # Control
    BY NamesDiffer DEF PlatformNames, ReplicaNames, Control
  <1>5. UsedInv' /\ \A d \in Names : d # Control => engine'[d] = engine[d]
    BY <1>0, <1>1, <1>2, <1>4, CalmCreates DEF UsedOn
  <1>6. /\ engine' = o.eng
        /\ engine'[Control] # engine[Control] => ~Exists(Control)
        /\ o.ok => ~Exists(Control) /\ engine' = New(Control, "running")
    BY <1>0, <1>2, <1>4, CreatesIs DEF Leaves
  <1>7. New(Control, "running")[Control].st = "running"
    BY <1>0, <1>4, NewIs, StatesAre
  <1>8. DownIsEmpty' /\ AllLive'
    BY <1>1, <1>3 DEF DownIsEmpty, AllLive, Busy
  <1>9. ControlStands'
    <2>1. cdocker' = "up" => Exists(Control)'
      BY <1>2, <1>6, <1>7 DEF Exists
    <2>2. ASSUME "restart" \notin seen', ~Exists(Control)', NEW n \in Instances
          PROVE  ~Exists(App(n))' /\ ~Exists(Side(n))'
      <3>1. ~Exists(Control)
        BY <1>6, <2>2 DEF Exists
      <3>2. ~Exists(App(n)) /\ ~Exists(Side(n))
        BY <1>1, <1>3, <2>2, <3>1 DEF ControlStands
      <3> QED
        BY <1>4, <1>5, <3>2 DEF Exists
    <2>3. cdocker' # "draining"
      BY <1>2
    <2> QED
      BY <2>1, <2>2, <2>3 DEF ControlStands
  <1>10. ASSUME Undisturbed', NEW s \in Services PROVE BooksOf(s)'
    <2>1. "restart" \notin seen /\ ~Exists(Control)
      BY <1>2, <1>3, <1>6, <1>10 DEF Undisturbed
    <2>2. services'[s] = << >> /\ Calls(s)' = {}
      BY <1>1, <1>3 DEF DownIsEmpty, Calls, Busy
    <2>3. ASSUME NEW k \in Replicas PROVE Absent(<<s, k>>)'
      <3>1. <<s, k>> \in Instances
        BY DEF Instances
      <3>2. /\ containers[<<s, k>>] = NoInfo
            /\ ~Exists(App(<<s, k>>)) /\ ~Exists(Side(<<s, k>>))
        BY <1>1, <1>3, <2>1, <3>1 DEF ControlStands, DownIsEmpty
      <3> QED
        BY <1>3, <1>4, <1>5, <3>1, <3>2 DEF Absent, Exists
    <2>4. Len(services'[s]) = 0 /\ InOrder(s)'
      BY <2>2, PlatformAssumption DEF InOrder
    <2>5. Whole(s, 1 .. Len(services[s]), {})'
      BY <2>3, <2>4, ReplicasAre DEF Whole
    <2> QED
      BY <2>2, <2>4, <2>5 DEF BooksOf
  <1> QED
    BY <1>5, <1>8, <1>9, <1>10 DEF BooksInv, UsedInv

\* A new call finds its service whole, or overlaps with another one.
Fresh(r) ==
  /\ r \in CallTypes /\ r # Idle /\ r.live
  /\ r.op # "monitoring" => r.svc \in Services
  /\ r.op = "deploy" => r.at = "side" /\ r.k = 1
  /\ r.op \notin {"deploy", "monitoring"} => r.op \in {"stop", "remove"} /\ r.at = "app"

LEMMA BeginsBooks ==
  ASSUME IInv, BooksInv, cdocker = "up", NEW c, ~Busy(c), NEW r, Fresh(r), Begins(c, r),
         r.op \in {"stop", "remove"} => r.list = services[r.svc]
  PROVE  BooksInv'
  <1>0. CallsInv /\ MemoryInv
    BY Parts
  <1>1. UsedInv /\ ControlStands /\ DownIsEmpty /\ AllLive
    BY DEF BooksInv, UsedInv
  <1>2. /\ call' = [call EXCEPT ![c] = r]
        /\ used' = [used EXCEPT !.calls = used.calls + 1]
        /\ UNCHANGED <<containers, services, cdocker, engine>>
        /\ seen \subseteq seen'
        /\ "restart" \in seen' => "restart" \in seen
        /\ r.op = "monitoring" \/ Calls(r.svc) = {} \/ "overlap" \in seen'
    BY DEF Begins, memory
  <1>3. \A d \in Callers : call'[d] = IF d = c THEN r ELSE call[d]
    BY <1>0, <1>2 DEF CallsInv
  <1>4. UsedOn
    BY <1>1, <1>2 DEF UsedOn, UsedInv
  <1>5. UsedInv' /\ ControlStands' /\ DownIsEmpty'
    BY <1>1, <1>2, <1>4 DEF UsedOn, ControlStands, DownIsEmpty, Exists
  <1>6. AllLive'
    <2>1. ASSUME "cancel" \notin seen', NEW d \in Callers, Busy(d)' PROVE call'[d].live
      <3>1. CASE d = c
        <4>1. call'[d] = r
          BY <1>3, <3>1
        <4> QED
          BY <4>1 DEF Fresh
      <3>2. CASE d # c
        <4>1. call'[d] = call[d] /\ Busy(d)
          BY <1>3, <2>1, <3>2 DEF Busy
        <4>2. call[d].live
          BY <1>1, <1>2, <2>1, <4>1 DEF AllLive
        <4> QED
          BY <4>1, <4>2
      <3> QED
        BY <3>1, <3>2
    <2> QED
      BY <2>1 DEF AllLive
  <1>7. ASSUME Undisturbed', NEW s \in Services PROVE BooksOf(s)'
    <2>1. Undisturbed /\ BooksOf(s)
      BY <1>1, <1>2, <1>4, <1>7, UndisturbedBefore DEF BooksInv
    <2>2. r.op = "monitoring" \/ Calls(r.svc) = {}
      BY <1>2, <1>7 DEF Undisturbed
    <2>3. Quiet(s, {}) /\ \A k \in Replicas : Still(<<s, k>>)
      BY <1>2, SameStays DEF Quiet, Still
    <2>4. c \notin Calls(s) /\ \A d \in Callers : d # c => (d \in Calls(s) <=> d \in Calls(s)')
      BY <1>3 DEF Calls, Busy
    <2>5. CASE c \notin Callers \/ r.op = "monitoring" \/ r.svc # s
      <3>1. c \notin Calls(s)'
        BY <1>3, <2>5 DEF Calls
      <3>2. Calls(s)' = Calls(s) /\ \A d \in Calls(s) : call'[d] = call[d]
        BY <1>3, <2>4, <3>1 DEF Calls
      <3> QED
        BY <1>0, <2>1, <2>3, <3>2, BooksFrame
    <2>6. CASE c \in Callers /\ r.op # "monitoring" /\ r.svc = s
      <3>1. PICK m : m = Len(services[s])
        OBVIOUS
      <3>2. call'[c] = r /\ m = Len(services'[s]) /\ services'[s] = services[s] /\ m \in Nat
        BY <1>0, <1>2, <1>3, <2>6, <3>1 DEF MemoryInv
      <3>3. InOrder(s)'
        BY <2>1, <3>2, OrderKept DEF BooksOf
      <3>4. Calls(s)' = {c}
        BY <1>3, <2>2, <2>4, <2>6 DEF Calls, Busy, Fresh
      <3>5. Whole(s, 1 .. m, {})'
        <4>1. Whole(s, 1 .. m, {})
          BY <2>1, <2>2, <2>6, <3>1 DEF BooksOf
        <4> QED
          BY <2>3, <4>1, WholeKept DEF Whole
      <3>6. CASE r.op = "deploy"
        <4>1. DeployBooks(s, call[c])'
          BY <3>2, <3>5, <3>6 DEF DeployBooks, Fresh
        <4> QED
          BY <3>2, <3>3, <3>4, <3>6, <4>1 DEF BooksOf
      <3>7. CASE r.op # "deploy"
        <4>1. r.op \in {"stop", "remove"} /\ r.at = "app" /\ r.list = services[s]
          BY <2>6, <3>7 DEF Fresh
        <4>2. HeadIndex(s, call[c])' = 1
          BY <3>1, <3>2, <4>1 DEF HeadIndex
        <4>3. \A i \in 1 .. Len(r.list) : r.list[i] = <<s, 1 - 1 + i>>
          <5>1. \A i \in 1 .. Len(r.list) : r.list[i] = <<s, i>> /\ 1 - 1 + i = i
            BY <2>1, <3>1, <3>2, <4>1 DEF BooksOf, InOrder
          <5> QED
            BY <5>1
        <4>4. WalkBooks(s, call[c])'
          BY <3>2, <3>5, <4>1, <4>2, <4>3 DEF WalkBooks
        <4> QED
          BY <3>2, <3>3, <3>4, <3>7, <4>4 DEF BooksOf
      <3> QED
        BY <3>6, <3>7
    <2> QED
      BY <2>5, <2>6
  <1> QED
    BY <1>5, <1>6, <1>7 DEF BooksInv, UsedInv

LEMMA DeployKeepsBooks ==
  ASSUME IInv, BooksInv, NEW c \in Callers, NEW s \in Services, NEW n \in Replicas, Deploy(c, s, n)
  PROVE  BooksInv'
  <1> DEFINE r == [op |-> "deploy", svc |-> s, n |-> n, k |-> 1, at |-> "side",
                   live |-> TRUE, ids |-> [app |-> 0, side |-> 0], made |-> {}]
  <1>1. ~Busy(c) /\ Begins(c, r) /\ cdocker = "up"
    BY DEF Deploy, Free
  <1>2. 1 \in Replicas
    BY PlatformAssumption DEF Replicas
  <1>3. r \in CallTypes /\ r # Idle
    BY <1>2 DEF CallTypes, DeployCalls, Info, Idle
  <1>4. Fresh(r) /\ r.op = "deploy"
    BY <1>3 DEF Fresh
  <1> HIDE DEF r
  <1> QED
    BY <1>1, <1>4, BeginsBooks

LEMMA WalkBegins ==
  ASSUME IInv, BooksInv, cdocker = "up", NEW c, ~Busy(c), NEW s \in Services,
         NEW op \in {"stop", "remove"}, Walk(c, op, s)
  PROVE  BooksInv'
  <1>0. MemoryInv
    BY Parts
  <1> DEFINE r == [op |-> op, svc |-> s, list |-> services[s], at |-> "app",
                   side |-> 0, live |-> TRUE]
  <1>1. Begins(c, r) /\ services[s] # << >>
    BY DEF Walk
  <1>2. r \in CallTypes
    BY <1>0, <1>1 DEF CallTypes, WalkCalls, MemoryInv
  <1>3. r # Idle
    BY DEF Idle
  <1>4. Fresh(r)
    BY <1>2, <1>3 DEF Fresh
  <1>5. r.list = services[r.svc]
    OBVIOUS
  <1>6. PICK q : q = r
    OBVIOUS
  <1> HIDE DEF r
  <1>7. Fresh(q) /\ Begins(c, q) /\ q.list = services[q.svc]
    BY <1>1, <1>4, <1>5, <1>6
  <1> QED
    BY <1>7, BeginsBooks

LEMMA DeployMonitoringBooks ==
  ASSUME IInv, BooksInv, NEW c \in Callers, DeployMonitoring(c) PROVE BooksInv'
  <1> DEFINE r == [op |-> "monitoring", at |-> "prometheus", live |-> TRUE]
  <1>1. ~Busy(c) /\ Begins(c, r) /\ cdocker = "up"
    BY DEF DeployMonitoring, Free
  <1>2. r \in CallTypes /\ r # Idle
    BY DEF CallTypes, MonitoringCalls, Idle
  <1>3. Fresh(r) /\ r.op = "monitoring"
    BY <1>2 DEF Fresh
  <1> HIDE DEF r
  <1> QED
    BY <1>1, <1>3, BeginsBooks

LEMMA ClientGoneBooks == ASSUME IInv, BooksInv, NEW c \in Callers, ClientGone(c) PROVE BooksInv'
  <1>0. StageInv
    BY Parts
  <1>1. UsedInv /\ ControlStands /\ DownIsEmpty /\ AllLive
    BY DEF BooksInv, UsedInv
  <1>2. /\ Busy(c) /\ UNCHANGED <<used, engine, cdocker>>
        /\ seen' = seen \cup {"cancel"}
    BY DEF ClientGone
  <1>3. cdocker' \in {"up", "draining"}
    BY <1>0, <1>1, <1>2 DEF DownIsEmpty, StageInv
  <1>4. UsedInv' /\ ControlStands' /\ DownIsEmpty' /\ AllLive' /\ ~Undisturbed'
    BY <1>1, <1>2, <1>3 DEF UsedInv, ControlStands, DownIsEmpty, AllLive, Undisturbed, Exists
  <1> QED
    BY <1>4 DEF BooksInv, UsedInv

LEMMA ClientsBooks == ASSUME IInv, BooksInv, Clients PROVE BooksInv'
  <1>1. ASSUME NEW c \in Callers, NEW s \in Services, NEW op \in {"stop", "remove"},
               StopOrRemove(c, op, s)
        PROVE  BooksInv'
    BY <1>1, WalkBegins DEF StopOrRemove, Free
  <1> QED
    BY <1>1, DeployKeepsBooks, DeployMonitoringBooks, ClientGoneBooks DEF Clients

LEMMA MonitorBooks == ASSUME IInv, BooksInv, Monitor PROVE BooksInv'
  <1>0. EngineInv /\ UsedInv
    BY Parts DEF BooksInv, UsedInv
  <1>1. PICK n \in Instances : \/ \E p \in Probes : ProbeTick(n, p) \/ Silence(n, p)
                               \/ CheckState(n) \/ AppExits(n)
    BY DEF Monitor
  <1>2. App(n) \in Names
    BY DEF Names
  <1>3. CASE \E p \in Probes : ProbeTick(n, p) \/ Silence(n, p)
    <2>1. UNCHANGED <<containers, services, call, cdocker, engine, used>> /\ seen \subseteq seen'
      BY <1>3 DEF ProbeTick, Report, Silence
    <2> QED
      BY <1>0, <2>1, UsedUnchanged, AllStay, BesideBooks
  <1>4. CASE AppExits(n)
    <2>1. UNCHANGED <<containers, services, call, cdocker, used, seen>>
      BY <1>4 DEF AppExits, memory
    <2>2. Exists(App(n)) /\ engine' = With(App(n), "exited")
      BY <1>4 DEF AppExits, Running, Exists
    <2>3. \A d \in Names : Stays(d)
      BY <1>0, <1>2, <2>2, StatesAre, WithStays
    <2> QED
      BY <1>0, <2>1, <2>3, UsedUnchanged, BesideBooks
  <1>5. CASE CheckState(n) /\ containers[n] = NoInfo
    <2>1. Died /\ UNCHANGED <<engine, used, seen>>
      BY <1>5 DEF CheckState
    <2> QED
      BY <1>0, <2>1, ForgottenIsEmpty, DownBooks DEF Died, UsedInv
  <1>6. CASE CheckState(n) /\ containers[n] # NoInfo
    <2>1. PICK o \in Restarts(App(n)) : Leaves(o)
      BY <1>6 DEF CheckState
    <2>2. UNCHANGED <<containers, services, call, cdocker, seen>>
      BY <1>6 DEF CheckState
    <2>3. o \in Docker(Exists(App(n)), With(App(n), "running"), {engine}) /\ Exists(App(n)) \in BOOLEAN
      BY DEF Restarts, Exists
    <2>4. "running" \in States /\ "running" # "none"
      BY StatesAre
    <2>5. UsedOn /\ \A d \in Names : Stays(d)
      BY <1>0, <1>2, <2>1, <2>3, <2>4, CalmWith
    <2> QED
      BY <2>2, <2>5, BesideBooks
  <1> QED
    BY <1>1, <1>3, <1>4, <1>5, <1>6

LEMMA RequestsBooks == ASSUME IInv, BooksInv, Requests PROVE BooksInv'
  <1>1. UNCHANGED <<containers, services, call, cdocker, engine, used, seen>>
    BY DEF Requests, SidecarDiscovers, ProxyThroughPlane, memory
  <1>2. UsedInv
    BY DEF BooksInv, UsedInv
  <1> QED
    BY <1>1, <1>2, UsedUnchanged, AllStay, BesideBooks

LEMMA DestroyBooks == ASSUME IInv, BooksInv, Destroy PROVE BooksInv'
  <1>0. UsedInv /\ StageInv
    BY Parts DEF BooksInv, UsedInv
  <1>1. CASE DestroyStarts
    <2>1. /\ UNCHANGED <<containers, services, call, cdocker, engine, seen>>
          /\ used' = [used EXCEPT !.calls = used.calls + 1]
      BY <1>1 DEF DestroyStarts, memory
    <2>2. UsedOn
      BY <1>0, <2>1 DEF UsedInv, UsedOn
    <2> QED
      BY <2>1, <2>2, AllStay, BesideBooks
  <1>2. CASE DestroyCalls
    <2>1. ~Busy(Cli)
      BY <1>2 DEF DestroyCalls
    <2>2. PICK s \in destroy.todo, op \in {"stop", "remove"} :
            \/ cdocker = "up" /\ Walk(Cli, op, s)
            \/ UNCHANGED <<planeVars, memory, cdocker, engine, call, used, seen>>
      BY <1>2 DEF DestroyCalls
    <2>3. s \in Services
      BY <1>0, <1>2 DEF DestroyCalls, StageInv, DestroyStates
    <2>4. CASE cdocker = "up" /\ Walk(Cli, op, s)
      BY <2>1, <2>3, <2>4, WalkBegins
    <2>5. CASE UNCHANGED <<planeVars, memory, cdocker, engine, call, used, seen>>
      BY <1>0, <2>5, UsedUnchanged, AllStay, BesideBooks DEF memory
    <2> QED
      BY <2>2, <2>4, <2>5
  <1>3. CASE DestroyHalts
    BY <1>3, HaltedBooks DEF DestroyHalts
  <1>4. CASE DestroyEnds
    <2>1. /\ cdocker \in {"absent", "exited"} /\ cdocker' = "absent"
          /\ UNCHANGED <<memory, call, engine, used, seen>>
      BY <1>4 DEF DestroyEnds
    <2>2. DownIsEmpty'
      BY <2>1 DEF BooksInv, DownIsEmpty, memory, Busy
    <2> QED
      BY <1>0, <2>1, <2>2, DownBooks DEF UsedInv
  <1> QED
    BY <1>1, <1>2, <1>3, <1>4 DEF Destroy

LEMMA InitBooks == Init => BooksInv
  <1> SUFFICES ASSUME Init PROVE BooksInv
    OBVIOUS
  <1>1. cdocker = "absent" /\ used \in [calls : Nat, faults : Nat, crashes : Nat]
    BY DEF Init
  <1>2. \A n \in Instances : ~Exists(App(n)) /\ ~Exists(Side(n))
    BY DEF Init, Exists, Names
  <1>3. DownIsEmpty
    BY DEF Init, DownIsEmpty, Busy
  <1> QED
    BY <1>1, <1>2, <1>3 DEF BooksInv, ControlStands, DownIsEmpty, AllLive, Undisturbed

LEMMA NextKeepsBooks == ASSUME IInv, BooksInv, [Next]_vars PROVE BooksInv'
  <1>1. CASE ForceRestart
    BY <1>1, HaltedBooks DEF ForceRestart
  <1>2. CASE UNCHANGED vars
    <2>1. UNCHANGED <<containers, services, call, cdocker, engine, used, seen>> /\ UsedInv
      BY <1>2 DEF vars, memory, BooksInv, UsedInv
    <2> QED
      BY <2>1, UsedUnchanged, AllStay, BesideBooks
  <1> QED
    BY <1>1, <1>2, BootBooks, ExitsBooks, CrashBooks, HandlerKeepsBooks, ClientsBooks, MonitorBooks,
       RequestsBooks, DestroyBooks DEF Next

\* What the invariant says of a service at rest is what agreement means.
LEMMA WholeAgrees ==
  ASSUME MemoryInv, NEW s \in Services, InOrder(s), Whole(s, 1 .. Len(services[s]), {})
  PROVE  Agree(s)
  <1>1. PICK list, m : list = services[s] /\ m = Len(services[s])
    OBVIOUS
  <1>2. list \in Seq(Instances) /\ m = Len(list) /\ m \in Nat /\ DOMAIN list = 1 .. m
    BY <1>1 DEF MemoryInv
  <1>3. m <= MaxReplicas /\ \A i \in 1 .. m : list[i] = <<s, i>>
    BY <1>1 DEF InOrder
  <1>4. IsInjective(list)
    BY <1>2, <1>3 DEF IsInjective
  <1>5. ASSUME NEW k \in Replicas PROVE <<s, k>> \in ToSet(list) <=> k \in 1 .. m
    <2>1. \A i \in 1 .. m : list[i] = <<s, k>> => i = k
      BY <1>3
    <2>2. k \in 1 .. m => list[k] = <<s, k>>
      BY <1>3
    <2>3. ToSet(list) = {list[i] : i \in 1 .. m}
      BY <1>2 DEF ToSet
    <2> QED
      BY <2>1, <2>2, <2>3
  <1>6. ASSUME NEW k \in Replicas
        PROVE  /\ containers[<<s, k>>] # NoInfo <=> <<s, k>> \in ToSet(list)
               /\ IF containers[<<s, k>>] = NoInfo
                  THEN ~Exists(App(<<s, k>>)) /\ ~Exists(Side(<<s, k>>))
                  ELSE /\ HasId(App(<<s, k>>), containers[<<s, k>>].app)
                       /\ HasId(Side(<<s, k>>), containers[<<s, k>>].side)
    <2>1. IF k \in 1 .. m THEN Kept(<<s, k>>) ELSE Absent(<<s, k>>)
      BY <1>1 DEF Whole
    <2> QED
      BY <1>5, <2>1 DEF Kept, Absent
  <1> QED
    BY <1>1, <1>4, <1>6 DEF Agree

LEMMA BooksImplyAgreement == ASSUME IInv, BooksInv PROVE BooksAgree
  <1>1. MemoryInv
    BY Parts
  <1> SUFFICES ASSUME Undisturbed, NEW s \in Services, Calls(s) = {} PROVE Agree(s)
    BY DEF BooksAgree
  <1>2. InOrder(s) /\ Whole(s, 1 .. Len(services[s]), {})
    BY DEF BooksInv, BooksOf
  <1> QED
    BY <1>1, <1>2, WholeAgrees

(***************************************************************************)
(* As long as nothing disturbs them, the books of cdocker (its two maps)   *)
(* agree with what Docker has of every service nobody is at work on, after *)
(* whatever sequence of deployments, some of them refused for a conflict,  *)
(* of stops and of removals (deployServiceInternal, clean,                 *)
(* stopServiceContainersInternal, removeServiceContainersInternal).        *)
(***************************************************************************)
THEOREM BooksRight == Spec => []BooksAgree
  <1>1. Spec => []BooksInv
    <2>1. Init => BooksInv
      BY InitBooks
    <2>2. IInv /\ BooksInv /\ [Next]_vars => BooksInv'
      BY NextKeepsBooks
    <2> QED
      BY <2>1, <2>2, Inductive, PTL DEF Spec
  <1>2. IInv /\ BooksInv => BooksAgree
    BY BooksImplyAgreement
  <1> QED
    BY <1>1, <1>2, Inductive, PTL
=============================================================================
