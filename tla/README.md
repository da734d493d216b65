# Verification of the service mesh

TLA+ models of the service mesh of this repository, the TLC runs that check
them on small instances, and theorems about them checked by TLAPS for every
value of the constants. `PROJECT.json` lists, machine-readably, what this file
explains: components, runs, theorems, hazards, findings, the code lines behind
every definition, and for every property one wrong variant of the code that
breaks it.

Contents: [the system](#1-the-system), [the modules](#2-the-modules-and-the-code),
[the runs](#3-the-runs), [fairness](#4-fairness), [the proofs](#5-the-proofs),
[findings](#6-where-code-and-documentation-disagree),
[what is not modelled](#7-what-is-not-modelled), [the plan](#8-the-plan),
[running it](#9-running-it).

## 1. The system

The repository holds two meshes that share no code.

**`src/k8s/mesh`**, the newer one, runs on Kubernetes. `mesh install` puts a
certificate manager and a mutating webhook into the cluster; the webhook
injects a sidecar and an iptables init container into the pods of labelled
namespaces; iptables redirects the pod's TCP connections to the sidecar, which
gets a certificate from the certificate manager, learns the services and
endpoints from the Kubernetes API, and forwards every connection through a
chain of middlewares, with mTLS between sidecars.

**`src/docker`**, the older one, runs on one Docker host: `meshctl` talks to
`cdocker`, which starts an application container and a sidecar per replica,
registers the sidecar with the `control-plane` and restarts what its probes
report as failing.

### Inventory

| Component | State | Operations | Hard part | Correct when |
|---|---|---|---|---|
| sidecar: circuit breaker (`middleware_breaker.go`) | an entry per target address under one mutex; a gauge per service | `allow`, `recordSuccess`, `recordFailure` | the mutex is free while the request runs: results arrive late and in any order | it opens after exactly the configured run of failures; one request per opening probes the endpoint; a blocked endpoint is some day tried again |
| sidecar: middleware chain (`service.go`, `middleware_*.go`, `forwarder.go`) | per connection: attempt, target, deadline, error; retry counters | metrics → timeout → retry → routing → breaker → forwarder | the deadline passes anywhere; the cache is replaced and the breaker moved by other connections between two attempts | a connection that was established is never retried; one that could not be uses all attempts; no path keeps a place in the breaker; every connection ends |
| sidecar: service discovery (`discovery/controller.go`, `cache.go`) | the cache; the endpoint gauge; the controller's position | `relist` (two LISTs and a join), watches, `Replace` | the API changes between the two LISTs, between LIST and WATCH, during `Replace` | the cache is the join of one relist's lists; it converges; one failure does not stop it |
| sidecar: load balancing (`middleware_routing.go`) | a round-robin index per destination | `GetEndpoints`, `selectEndpoint` | the list is copied, replaced and then used | picks from the present list are balanced |
| sidecar: lifecycle (`service.go`) | listeners, accept loops, wait groups, background goroutines | start, accept, serve, shut down, drain | an accept that races the closing of its listener; failures at every step; waits that time out | nothing is left behind unless a wait was cut short; the first error is reported; the stop ends |
| sidecar: configuration (`config.go`) | none after the start | environment, defaults, validation | its environment is another program's output, with defaults of its own | what the installer accepts, the sidecar accepts too, or it is known why not |
| sidecar: certificate client, original destination, recorder | none after the start | one HTTP exchange; one system call; counters | the exchange goes through the pod's own rules | the sidecar's own calls are not captured |
| installer (`installer/internal`) | none of its own: the objects in the cluster | `install`, `uninstall`, defaults and validation of the mesh file | every API call may fail; the command may be killed; another one may run; pods keep what they loaded | success means complete; the webhook's registration never outlives the webhook silently |
| certificate manager (`certmanager/internal`) | root key; a token bucket | `POST /sign`: rate limit, token review, CSR checks, signature | the name in the certificate is the account's, the name asked for is the service's | an identity gets a certificate for itself only |
| injection webhook (`hook/internal`, `iptables/entrypoint.sh`) | none | `POST /mutate` on creation and update | a pod is admitted again, by a mesh of another configuration; its output is the input of two containers | an update of an injected pod is never refused; two meshed pods reach each other |
| docker: cdocker (`cdocker.go`, `health_monitor.go`, `client.go`) | `containers`, `services`, the monitor's `states` | deploy with rollback, stop, remove, monitoring, probe reports, `checkStates`, start, stop | maps without a lock over them, steps of several failing, a client that gives up, a crash that empties the maps and leaves Docker as it was | the maps agree with Docker; a rollback removes only its own; a silent instance is restarted |
| docker: control plane (`plane.go`) | registry and rotation, one mutex | register, discover, proxy | a list that only grows while it is rotated; a path that keeps the mutex | the index stays inside the list; every call is answered |
| docker: sidecar (`sidecar.go`, `prober.go`, `ratelimiter`) | the limiter's records and expiry of a key | rate limit, discover and forward, probe and report | four repository calls per request, each under its own lock | a sliding window when requests do not overlap, a bounded overshoot when they do |
| docker: meshctl (`init.go`, `manage.go`, ...) | none | `init`, `destroy`; one API call each otherwise | its steps touch several processes and ignore errors | `destroy` leaves nothing |

Interactions inside the k8s sidecar: `Run` starts one accept loop per listener
and the controller; an accepted connection becomes a goroutine that walks the
chain; the goroutines share the breaker's entries, the round-robin indexes and
the cache, which the controller replaces as a whole. The installer touches the
others only through the objects it writes: the secrets that the certificate
manager and the webhook read when their pods start, and the
`MutatingWebhookConfiguration` with `failurePolicy: Fail`, which makes the
creation of every selected pod depend on the webhook. A setting of the mesh
file crosses four programs, each with defaults and a validation of its own:
installer, webhook, then the sidecar and the iptables script side by side.

Interactions inside the Docker mesh: every HTTP handler of cdocker is a
goroutine that reads and writes the two maps between its Docker calls; the
monitor's goroutine reads them too; a deployment registers each replica's
sidecar with the control plane, a removal tells nobody; sidecars ask the
control plane where to forward, and report their probes to cdocker.

## 2. The modules and the code

| Module | Models | Composes |
|---|---|---|
| `Breaker` | the circuit breaker, any number of goroutines and endpoints | |
| `Chain` | one goroutine per connection through all middlewares | instantiates `Breaker` |
| `Discovery` | the controller, the cache and the API changing under them | |
| `Routing` | one destination's list and index, goroutines that copy and pick | |
| `Lifecycle` | `Run`: start, accept loops, connections, shutdown | |
| `Installer` | commands, API server, pods | |
| `ControlPlane` | registry, rotation and mutex of the control plane | |
| `Platform` | cdocker, its monitor, the Docker engine, the probers and `meshctl` | extends `ControlPlane` |
| `SlidingWindow` | what a rate limiter promises | |
| `RateLimiter` | the Docker sidecar's rate limiter over its repository in memory | instantiates `SlidingWindow`, and is shown to implement it |
| `MeshConfig` | a setting's way from the mesh file to webhook and sidecar | |
| `Injector` | the mutation of a pod and the effect of the iptables rules | extends `MeshConfig` |
| `Enrolment` | pods that are admitted, started, updated and restarted while the mesh is installed and removed; certificates; connections between two pods | extends `Injector` |
| `BreakerProofs`, `ChainProofs`, `LifecycleProofs`, `InstallerProofs`, `PlatformProofs`, `RateLimiterProofs`, `EnrolmentProofs` | proofs about the module they extend | |
| `DiscoveryProofs` | proofs about `Discovery` and about `Routing` | extends both |
| `MCBreaker`, `MCChain`, `MCDiscovery`, `MCInstaller`, `MCRateLimiter`, `MCEnrolment` | values of structured constants and symmetry for TLC | |

A definition whose name says what it gets wrong (`CountNoRetry`,
`SucceededKeepingCount`, ...) stands before the one it is a variant of and is
used by no specification; putting it in that one's place breaks the property
that `PROJECT.json` names. The variables called *history* in the declarations
record what a property needs and guard no action.

**Breaker.** `entries` and `known` are the map (an absent entry is the zero
entry), `gauge` the metric. `Allow`, `Success`, `Failure` are the three
critical sections, each with what `Handle` does around it; `Reject` is the
refusal; `OtherError` is the path of `Handle` that records nothing. Between
`Allow` and the result the goroutine's route is in `route`: that is the window
in which others move the entry. Time is the age of an opening, up to
`recoveryTime`. Histories: `streak` and `probes`.

**Chain.** A record per connection: where it is in the chain (`pc`), attempt,
routed target, whether the deadline has passed, the error on its way out.
`Route` reads the cache again on every attempt, as the code does; `Admit`,
`Refuse` and the recordings are the actions of `Breaker`, through `INSTANCE`.
`DialFails`, `RoundTripFails`, `BridgeEnds` and `BridgeFails` are the ways the
forwarder returns, with the error kinds it makes; `MayRetry` is retry's
decision. Whether an attempt goes to `handleHTTP` is chosen at each `Admit`
(`LooksLikeHTTP`): the forwarder peeks at the client's first bytes anew on every
attempt, with a time limit, and may come to another answer. `NextRequest` is the
next round of `handleHTTP`'s loop. `Replay` is the second `RoundTrip` that
`roundTripHTTP` makes of a request it may repeat, before the target is connected
or after: it stays within the attempt and its place in the breaker, and neither
retry nor the breaker sees it. The value of the backoff is left out, the wait
is not.

**Discovery.** `api` is the history of the API's objects, so that a property
can say "the state at some moment of this relist". `ListServices` and
`ListSlices` read the last element at different moments, `PublishGauge` and
`Swap` are the two halves of `Replace`. `Fail` is any failed call, answered by
its caller as in `watchLoop`, `Run` or `InitialSync`. Watch events carry no
data: every one leads to a relist, so `Wake` is both event and ticker.

**Routing.** Lists without duplicates in any order: `dedupeEndpoints` ranges
over a map, so every relist permutes. `GetEndpoints` copies, `SelectEndpoint`
picks from the copy with the shared index and advances it modulo the length of
the copy.

**Lifecycle.** `Run` as a program counter; `Accept` and `Spawn` are separate
because `Accept` returns before `connectionWG.Add`; every wait of the shutdown
either ends or times out.

**Installer.** A run of the command line has a command, a position in its plan
and what its last Get returned. `Get` and `Put` are the two calls of an upsert,
with the API server's rules (a create fails where there is an object or in a
terminating namespace, an update fails when the object changed since the Get);
`Delete`, `DeleteFails` the calls of the uninstaller, where an error skips the
rest of a group and the next group is still tried. `InstallFails` and `Killed`
stop a run anywhere. The cluster's own controllers (`PodStarts`, `PodStops`,
`Finalize`) are external. `alone` is the run that no other overlapped or
followed, `mixed` says that an install met an uninstall.

**ControlPlane.** `registry` and `idx` are the two maps of `plane.go`, `wedged`
says that the mutex was left locked; every action needs it unlocked.
`Register` appends, `Pick` is a discovery of a known name (or the proxy's),
`DiscoverUnknown` the early return that keeps the lock.

**Platform.** `containers`, `services` and `health` are cdocker's memory,
`engine` is Docker: per container name a state and the number of its
incarnation, which stands for the id. A Docker call is the set of its outcomes
(`Docker`): done, impossible (name taken, id gone, context cancelled), refused
by the daemon, and for `CreateAndStartContainer` created but not started. An
API call is a record in `call`: the operation, the instance it is at and the
step; `CreateSidecar`, `CreateApp`, `RegisterReplica` (which also writes the
maps, as the end of the loop does), `Clean`, `WalkApp`, `WalkSide`,
`CreateMonitoring` go from one external call to the next. `Crash` is any death
of the process; the concurrent map accesses that the Go runtime detects are one
reason for it. `CheckState` is the monitor's iteration for one instance, with
the nil pointer that ends the process. `destroy` is the program counter of
`meshctl destroy`. A stop of cdocker is two steps: `Halted` removes the control
plane while requests are still served ("draining"), so a deployment that gets
to its registration now finds nobody; `Exits` is the end of `Shutdown`, which
cuts off what has not ended by its timeout. `seen` and `used` are histories and
bounds.

**RateLimiter.** One key; a request is at one of its four repository calls.
`RemoveOldRecords`, `CountRecords`, `AddRecord` and `ExpireKey` are one action
each, `Tick` moves the clock between any two, `IsExpired` forgets the key
wherever the code calls it. `CountsRace` is the concurrent map write that
`CountRecords` can make under a read lock; its outcomes are both in the model
(the process ends, or goes on).

**MeshConfig, Injector.** Operators, not state machines: `WithDefaults`,
`Installable` (installer), `HookConfig`, `Serves` (webhook), `SidecarEnv`,
`Accepts`, `Starts` (sidecar), `BuildPatch` (webhook), `Inbound` and `Outbound`
(the script's rules on a connection). Ports, counts and durations are integers,
negative ones included, as the YAML parser lets them through; a duration may
also be absent or malformed. Only a port in `PortNumbers` can be bound.

**Enrolment.** `mesh` is the file and the root of the installed mesh, a pod is
what was admitted (`init`, `containers`, `account`, `volumes`) and how far it
has come (`done`, `rules`, `up`, `cert`). `CreatePod` and `UpdatePod` are
admissions; `RunInit` runs the next init container over the rules there are;
`StartSidecar` is `Run` up to its listeners, with the signature of the
certificate manager (`SignCSR`, `Sign`) inside. `ValidPorts` is the API server's
check of the injected container's ports, without which the pod is not created;
`Contested` says that the application listens on a port the sidecar needs, when
either of them may have it first. `Delivers` follows a connection from an
application through both pods.

## 3. The runs

| Run | Question | Bounds |
|---|---|---|
| `breaker` | what interleaved requests and late results can do to the breaker | 3 goroutines, 2 endpoints and 3 services (one pod behind two services), threshold 2, recovery 1 tick |
| `breaker_wedge` | is a blocked endpoint always tried again? **No** | 2 goroutines, 1 endpoint |
| `chain` | what retries, second round trips, timeouts and refusals of two connections do to each other; does a path keep its place in the breaker | 2 connections, 1 endpoint that the cache loses and regains, 2 attempts, each taken for HTTP or not, inbound and outbound |
| `discovery` | what the cache holds while the API changes and calls fail; does it converge | 2 ports of one service, 1 pod, 2 changes |
| `routing` | is round robin balanced while lists change | 2 goroutines, 3 endpoints, 3 picks counted each |
| `lifecycle` | what a shutdown leaves behind, and whether it ends | 3 listeners, 3 connections, monitoring on |
| `installer` | what a successful command leaves, and what no order of failures may leave | 2 commands of any kind, in sequence or an install against an uninstall |
| `orchestrator` | do cdocker's maps agree with Docker, and what does a rollback remove | 1 service, 2 replicas, 2 requests at once, 3 API calls, 1 refusal, 1 crash |
| `monitor` | does a silent instance come back, is every call answered | 1 instance, both probes, threshold 2, 2 API calls, 1 refusal |
| `destroy` | does `meshctl destroy` leave nothing? **No** | 1 instance, 3 API calls, no refusal |
| `ratelimiter` | is the limiter a sliding window | 2 requests at once, 4 in all, 1 hit in 3 ticks, 6 ticks |
| `enrolment` | which files give a mesh that runs, and what happens to pods when it is reinstalled | 13 files that differ in one setting or a few, 6 kinds of pods, 2 pods, 2 roots |

*What each passing run shows.*

- `breaker`. `TripNeedsStreak`: the count is the length of the run of failures
  whatever order results arrive in, and the entry leaves closed exactly at the
  threshold. `OneProbePerOpening`: two goroutines that find
  the opening expired together never both probe, and a late result of an older
  request does not free a second slot. `UnblockedOrWedged`: the lost trial of `breaker_wedge` is the
  only way to stay blocked.
- `chain`. `PlacesHeld`: a goroutine has its place in the breaker exactly while
  it dials or bridges to an endpoint; no path through retry, refusal, deadline
  or second round trip keeps or forgets one. `NoRetryOnceConnected` is an action
  property: after an attempt has connected neither the attempt nor the target
  changes, and a request goes to the target twice at most. That it does go
  twice, connected or not, is finding 4. `AllAttemptsUnlessHTTP`: a connection is
  given up early in one way only, a failed dial inside the HTTP path (finding 3).
  `RetriesCounted`: the counter covers all additional attempts of the retry
  middleware and exceeds them by waits that were cut; second round trips are in
  neither number. `EveryConnectionEnds`.
- `discovery`. `CacheOfOneRelist`: the services are of one moment and the
  slices of the same or a later one, both within the relist that filled the
  cache. `Converges`: when the API has come to rest, the cache becomes its
  last state.
- `routing`. `Balanced`: among the picks from the present list no endpoint is
  two ahead of another, from whatever index older lists left.
- `lifecycle`. `DrainedUnlessTimeout`: a shutdown whose waits were not cut
  leaves no connection, not even one accepted while the listener was closing.
  `RootCauseReturned`: what made `Run` stop is what it returns. `ShutdownEnds`.
- `installer`. `InstallComplete`, `UninstallComplete`: undisturbed success
  leaves everything, respectively nothing, whatever half-done or killed
  commands came before. `NeverStrandedSilently`: the registration outlives the
  webhook only after a reported error or when an install and an uninstall run
  against each other. `FreshPodsTrusted`: a deployment that the last
  undisturbed install created has pods with that install's secret.
- `orchestrator`. `BooksAgree`: as long as nothing is refused, cancelled or
  restarted and no two calls for a service overlap, the maps and Docker agree
  whenever nobody works on the service, redeployments that fail over a taken
  name included. The exemptions are broad: what remains is the bookkeeping of
  one call after another, and what overlapping or half-failed calls do to the
  maps is in section 6. `RotationInRange`:
  however registrations, redeployments and restarts meet discoveries, the
  index stays in the list. `RollbackOnlyOwn` is an action property: deploying
  what already runs does not tear it down, unless two calls for the service
  overlap.
- `monitor`. `StatesTracked`: removals and reports from untracked instances are
  the only ways to the state that kills the monitor. `StalledIsRevived`: a
  silent instance is restarted, and a restart that Docker refuses does not make
  the monitor forget how long it has been silent: the restart is tried again
  until the application runs, is gone or reports. `CallsAnswered`: every API call ends, unless the control
  plane's mutex was left locked.
- `ratelimiter`. `ImplementsWindow`: the refinement. Exact for requests that
  come one at a time, and again one window after the last overlap.
  `OvershootBounded`: twice the number of the other requests in progress, and
  no more. `RefusedForAReason`: overlapping requests may be let through too
  often, never refused for nothing.
- `enrolment`. `RefusalsExplained` states, in terms of the file, exactly which
  installable files the webhook takes (`WebhookTakes`) and which its sidecars
  take (`SidecarsTake`): negative numbers and durations, ports that cannot be
  bound and ports that clash included. `InjectedPodsUpdatable`:
  a second admission, by any other mesh, adds nothing an update may not.
  `PeersReachEachOther`: when a connection between two pods of one
  configuration and one root ends at the application, and where.
  `ComesUp`: the pod's own rules never keep its sidecar from starting. It is
  stated for pods whose application does not listen on a port of the sidecar.

*Why the bounds are enough.* Three goroutines on one breaker give a trial, a
late result and a rival; threshold 2 separates counting from tripping. Two
connections and two attempts let each connection open the breaker under the
other's retry. Two API changes give one inside a relist and one after it. Three
endpoints are the least for which an index left by a longer list matters twice.
As many connections as listeners let every accept loop hold one. Two commands
give every sequence (first half-done, second complete) and every race of two.
Two replicas are the least for which a rollback has something to remove and
something to skip, three API calls let a deployment, a removal and a
redeployment follow or meet each other, and two requests at once are all that a
lost update of a map needs. A limit of one hit with two requests at once makes
every admission a race for the last place; six ticks are two windows. Thirteen
files put the validation rules of each hop on both sides.
The theorems of section 5 are the answer for the invariants that matter most;
the bounds matter for what is only model-checked.

`CHECK_DEADLOCK FALSE` stands where the system really stops: connections end,
`Run` returns, commands return, a cancelled controller ends, and where the
bounds on calls, requests or time end a behaviour (`Platform`, `RateLimiter`).

## 4. Fairness

| Module | Assumed | Justified by |
|---|---|---|
| `Breaker` | time passes; every call of `next` returns | dials are bounded by `DialTimeout`; a bridge ends when its peers close it. No fairness for new requests or for which result they have |
| `Chain` | every connection's next step; the deadline passes; time passes | goroutines are scheduled, dials are bounded, timers fire. Of clients and targets: that they close a bridge some day, and that a request begun is finished or closed, since neither a copy nor `http.ReadRequest` has a deadline. Nothing of new connections, further requests and discovery |
| `Discovery` | the controller steps | its goroutine is scheduled, API calls return, the ticker ticks. Not that calls succeed: `Fail` is not fair |
| `Lifecycle` | `Run` steps | goroutine and timers. No fairness of loops, handlers, clients: that is the point of the timeouts |
| `Platform` | handlers, the monitor's iteration for each instance, `meshctl destroy`, the end of a stopped cdocker | goroutines run, the ticker ticks, Docker and the control plane answer or refuse, `Shutdown` has a timeout. Not that they succeed, and nothing of clients, probers, applications |
| `Enrolment` | for each pod the next init container and the start of the sidecar | the kubelet tries again for ever. Nothing of a sidecar whose port an application may take first (`Contested`). `ComesUp` also asks that the sidecar be restarted only finitely often |
| `Installer` | a command that is not killed steps | calls return, `WaitDeploymentReady` has a timeout. None of the cluster: pods may never start. No run needs it |

## 5. The proofs

Each proof module states `Inductive` (`Spec => []IInv`) and derives the others
from it. `IInv` is defined at the end of the component's module and was checked
by TLC as an invariant before it was proved; so were `CountInv` and `BooksInv`,
which serve one theorem each, and the `IInv` of `RateLimiter` with three
requests at once as well as with the run's two. The only assumptions are the named
`ASSUME`s on constants: they exclude confusions of values (a "no object" that is
an object), require finite sets where the code counts and thresholds above zero
where the code switches the middleware off, and say what a mesh file and a pod
look like (`EnrolmentAssumption`). `RateLimiterAssumption` asks for at least one
request at a time: without any, the bound `MaxHits + 2 * (N - 1)` would speak
of -1 others.

- **BreakerProofs** (any number of goroutines, endpoints, services; any
  threshold and recovery time): `TypeCorrect`, `TripsOnStreak`, `HalfOpenTaken`,
  `SingleProbe`, `GaugeCorrect`. `OneProbePerOpening` is not inductive: the
  strengthening `ProbeCount` ties the number of probes to the half-open state.
- **ChainProofs** (any number of connections, endpoints, services, attempts, any
  contents of the cache): `TypeCorrect`, `BreakerKept`, `PlacesKept`,
  `AttemptsExhausted`, `ConnectedOnce`, `RetriesBounded`. The chain moves the
  breaker by the breaker's own actions only, so `BreakerKept`, that what
  BreakerProofs shows holds in the chain too, needs no more than those proofs
  instantiated. What the chain has to show itself is `PlacesKept` (`PlacesHeld`).
  `IInv` has a part for each connection (`ConnInv`): `PlaceHeld` says when it is
  inside `Handle` of the breaker; `AttemptsUsed` says that only an attempt that
  has not connected can come to a wait, and that a wait has an attempt left. For
  `RetriesCounted`, `CountInv` adds to the two bounds that a connection which
  waits is counted already, and that one which is not accepted has made its
  first attempt only. Counters and attempts are sums; the property counts sets
  of pairs instead (`Counted`, `Made`), so a step adds at most one pair to each.
- **DiscoveryProofs** (any keys, pods, number of changes): `TypeCorrect`,
  `CacheConsistent`, `FailureSurvived`, `GaugeCorrect`. `IInv` adds what the
  running relist has in hand: `ListedInWindow` and `FoundInWindow` say that the
  lists are of moments of this relist, `TroublesCounted` who has called it,
  `GaugeOfFound` that the gauges of the table to be installed are out already.
- **DiscoveryProofs**, second half (any number of goroutines and endpoints of
  `Routing`): `RoutingTypeCorrect`, `RoundRobinFair`. `Balanced` says nothing of
  the index; `Rotated` does: the picks went round the list from some first
  position, and those passed in this round have one more.
- **LifecycleProofs** (any number of connections, with or without mTLS and
  monitoring): `TypeCorrect` (the wait group never goes below zero, which would
  be a panic) and `Drained`. `IInv`: a loop holds what it has accepted until it
  is counted (`HeldAccepted`), the counter is the number of active connections
  (`CountsActive`), and what a wait has seen stays true (`LoopsOver`,
  `DrainOver`) because nothing is accepted after the loops have ended.
  `RootCause`, with an invariant of its own (`RootInv`): `Run` has no error
  before it stops, has one when it stops, and keeps the first.
- **InstallerProofs** (any number of commands, any overlap): `TypeCorrect`,
  `InstallLeavesItAll`, `UninstallLeavesNothing`, `StrandedOnlyWithAnError`,
  `FreshPodsHaveTheirSecret`. The argument has two halves. While a run is
  `alone` it is the only one to act (`AloneActs`), so what it has written or
  removed so far is still so (`InstalledSoFar`, `RemovedAlone`), the secret
  before the deployment included (`SecretsBeforePods`). And as long as no
  install has met an uninstall and no deletion has failed, everything is
  `Orderly`: the steps behind a run have happened, so the registration is the
  last to come and the first to go; a terminating namespace is empty, and an
  install that finds one cannot get past its second step, because the API
  server refuses its create and, by `ReadCurrent`, it cannot have read an
  object that is not there.

- **PlatformProofs** (any services, replicas, requests at once, probes, and any
  number of API calls, refusals and crashes): `TypeCorrect`, `RotationSafe`,
  `MonitorTracks`, `RollbackSafe`, `BooksRight`. `RotationInRange` needs `NeverPicked` (a
  name without sidecars has index 0, so the first registration cannot be out of
  range). `RollbackOnlyOwn` needs `RemovesOwn`: at every step of a deployment,
  whatever a failure now would make it remove is gone or of its own making;
  that others do not replace these containers under it is `OneCallAtATime`.
  `StatesTracked` needs `DownForgets` for the start after a crash. The proof
  goes action by action through lemmas on what a Docker call can leave
  (`CreatesIs`, `ChangesIs`) and on one call moving on (`HandlerStep`).

  `BooksRight` (`BooksAgree`) has an invariant of its own. `BooksAgree` speaks of
  services nobody works on; what makes it true is what every half-done handler
  owes, so `BooksInv` describes each of them at each of its external calls:
  `DeployBooks` a deployment, which goes on after the last replica listed or is
  refused at the first, and `WalkBooks` a stop or a removal with the instance it
  has in hand and the list it still has before it (`HeadIndex`). The words it is said in are `Kept` (in the maps, and in Docker
  under the ids of the maps), `Absent` (in neither) and `Whole` (a range of
  instances that is kept, but for those in hand). The parts that hold of every
  state are `ControlStands`, `DownIsEmpty` and `AllLive`; the books of a service
  are kept while the run is `Undisturbed`, which is where the exemptions of the
  property come from.
- **EnrolmentProofs** (any pods, owners' specifications, mesh files and roots):
  `TypeCorrect`, `NeverRefused`, `RefusalsKnown`, `PeersConnect`. Assumed of
  files: their numbers are integers; of owners: they do not call a container
  `sidecar` or `iptables-init`, which the webhook would take for its own. `IInv`
  says of every pod that it is `Native`, as its owner wrote it, or `Injected`:
  that with what the mesh of one file added, and with rules, readiness and
  certificate that follow from how far it has started. An update of an injected
  pod finds container, init container and volume by their names and adds nothing
  (`ReadmittedSame`), so the file stays the one of the first admission whatever
  is installed now. `FileSettings`, `HookSettings` and `SidecarSettings` take a
  setting through its hops; `WebhookRefusals` and `SidecarRefusals` say where a
  file is refused; rules and sidecar of a pod come from one webhook
  configuration, which is why they agree.

- **RateLimiterProofs** (any number of requests at once, any limit and window):
  `TypeCorrect`, `OvershootSafe`, `RefusalsJustified`, and `WindowImplemented`,
  the refinement `Spec => ImplementsWindow`. The argument compares two counts
  for every point in time *e*: the requests let through that arrived after *e*
  (`Passed`) and the records younger than *e* (`Kept`). A record is lost to the
  purge only when it is too old to matter, and with its whole key only when the
  key expires, and then whatever has arrived within the window has not set its
  expiry yet (`ExpiryIsLate`). Hence `FewForgotten`: no more are missing than
  there are others in progress, and none when a request is alone
  (`NoneForgotten`); and `FewAhead` adds those that are past the check on a
  count that is out of date: the two halves of the overshoot. In the other
  direction `NoneInvented` says that there are never more records than requests
  let through, and `CountedRight` that a count is no higher than the requests
  added in its window, which is what a refusal needs. `PromisesKept` is what `SlidingWindow` asks of each admission and
  refusal. The library has no lemmas on how many members of a sequence satisfy
  a condition, so the module states its own: an insertion adds one
  (`InsertAtCount`, by a bijection of index sets), a purge keeps the younger
  (`YoungerRight`), and an order of neighbours is an order of all
  (`AscendingAll`, from a least counterexample where one would like to use
  induction).

*Only model-checked* are the seven liveness properties (`UnblockedOrWedged`,
`EveryConnectionEnds`, `Converges`, `ShutdownEnds`, `StalledIsRevived`,
`CallsAnswered`, `ComesUp`): fairness and `ENABLED` are beyond the prover. Every
invariant, action property and refinement that a passing run checks is proved;
the only exceptions are the two claims of the documentation that the runs
refute.

`HalfOpenTaken`, `FailureSurvived` and the two `GaugeCorrect` are stated by no
run: the theorems say more than a run would.

## 6. Where code and documentation disagree

The first and the thirteenth are violated by a run; the others were met while
modelling, and several explain an exemption in a property that holds.

*The Kubernetes sidecar.*

1. **A trial that ends in an error of another kind wedges the endpoint**
   (`breaker_wedge`, `middleware_breaker.go:61`). Neither success nor failure is
   recorded, the trial slot is never given back.
2. **A late success closes an open endpoint early** (`middleware_breaker.go:105`):
   the request was admitted before the opening, and recovery skips half-open.
   `TripNeedsStreak` allows it on purpose.
3. **Failed dials of HTTP requests are not retried** (`forwarder.go:145`):
   `handleHTTP` turns the dial error of `RoundTrip` into a proxy error. The
   exemption in `AllAttemptsUnlessHTTP`.
4. **Idempotent HTTP requests are sent a second time, uncounted, even after the
   target was connected** (`forwarder.go:183`): `roundTripHTTP` repeats a failed
   `RoundTrip` itself. `Replay` in `Chain`; the requirement is that retry applies
   to errors of establishing a connection, and that retries are counted.
5. **A retry after a failed dial loses what the client has sent**
   (`forwarder.go:69`): the bytes are in the reader of the first attempt.
6. **With a timeout configured all connections are counted as external**
   (`middleware_timeout.go:23`): routing labels a clone of the metadata.
7. **The gauge of a service that is gone keeps its value** (`cache.go:60`).
8. **Nothing renews a certificate** (`bootstrap.go:20`), as the sidecar's
   documents say; the certificate manager's README demands renewal.

*A setting's way through the programs.*

9. **`mesh install` accepts files that end the webhook** (`meshconfig.go:190`):
   a negative metrics port, threshold, number of attempts, timeout or recovery
   time, and the recovery time of 0 that the README documents
   (`hook/config.go:150`). Ports above 65535 pass all three validations and
   cannot be bound. With `mtlsEnabled` left out, a negative `inboundMTLSPort`
   switches mTLS off (`meshconfig.go:143`).
10. **The sidecar's configuration refuses what the installer and the webhook let
    through** (`config.go:147`, `:197`): any metrics port but 9090, and clashing
    ports only when it binds them. `RefusalsExplained` has the exact list for
    both findings.

*Installer and webhook.*

11. **The webhook is registered before it is ready** (`service.go:92` of the
    installer), with `failurePolicy: Fail`, against two READMEs.
12. **Uninstall removes the webhook even if its registration could not be
    removed** (`service.go:36` of the uninstaller). `NeverStrandedSilently` shows
    that this is the only way short of a race.

    The owner's init containers lose the network (`service.go:165`); pods with
    several ports get everything at the lowest (`:461`); pods without ports never
    start (`:154`); the secret with the root has to be copied by hand (`:118`);
    service accounts are not created (`:235`).

*Docker.*

13. **`meshctl destroy` leaves the monitoring stack and leaked containers**
    (`manage.go:92`). The run `destroy` ends in a state with the monitoring stack.
14. **Discovery of an unknown name wedges the control plane** (`plane.go:71`).
    The exemption in `CallsAnswered`.
15. **A failed deployment leaves entries in the maps** and the sidecar of the
    failed replica (`cdocker.go:219`); later removals panic. Its rollback uses
    the request's own context (`:212`). Exemptions in `BooksAgree`.
16. **A removed, probed service kills cdocker** three minutes later
    (`health_monitor.go:129`), and a stopped one is started again (`:108`).
    Exemptions in `StatesTracked`.
17. **After a crash cdocker cannot be started again** (`cdocker.go:69`).
18. **The rate limiter writes maps under a read lock** (`memory.go:95`).
19. A manifest without replicas gets three, not one (`manifest.go:22`).

The quotations are in `PROJECT.json`, "findings".

## 7. What is not modelled

- *Data*: bytes, headers, certificates, addresses, YAML; durations other than
  their order; the random choice of the balancer is any choice.
- *Data races* are modelled where they were found: as a crash at any moment in
  `Platform`, as `CountsRace` in `RateLimiter`. The other components' shared
  state is under mutexes.
- `--dry-run` of the installer, which only prints; the recorder, whose counters
  appear where a property needs them; the one system call for the original
  destination.
- *Key formation in discovery* (service port against target port) and the order
  of endpoints: `Routing` takes any order; the keys are a matter of one call.
- *The gauge and the stream of bytes in runs*: findings 5 to 7 happen on every
  execution of their path, so a model would only restate them.
- *The certificate manager's rate limit* (the installer leaves it off), the
  lifetimes of certificates (finding 8: a sidecar keeps the one it started with,
  so `PeersReachEachOther` speaks of the time before it expires) and its own
  configuration.
- *What `net/http` does inside one `RoundTrip`* (its own retries on idle
  connections) and which bytes a second round trip still finds in the body.
- *Widths of integers in settings*: a port of 2^31 or more, which the pod's
  32-bit field would wrap, and a threshold above 2^32 - 1. Exclusion lists are
  taken as well formed.
- *The Docker sidecar's Redis repository and forwarding client* (a library's
  retries), `POST /network`, the environment of containers, `cdocker`'s own
  certificate (two calls of the crypto library), `meshctl prom --direct`.
- *Exclusions of addresses* in iptables and copy modes on their way through
  `MeshConfig`: no hop treats them differently. The retry backoff of the mesh
  file gets no further than the installer's own ConfigMap.
- Examples, manifests, scripts and reports: no logic of the mesh.

## 8. The plan

Done, in the order in which a connection depends on them: `Breaker`, `Chain`,
`Discovery`, `Routing`, `Lifecycle`, `Installer`; then `ControlPlane` with
`Platform`, `SlidingWindow` with `RateLimiter`, and `MeshConfig`, `Injector`,
`Enrolment`; proofs of every safety property of the passing runs.

Next:

1. The safety half of the liveness arguments: for each wait of section 4, that
   what it waits for is possible (some step of the waiting party is enabled)
   follows from `IInv`, with a measure that steps do not increase. What is left
   to TLC is then fairness alone.
2. The hazards without a property, where one can be found that is not a
   restatement of the code.

## 9. Running it

```
tlc -config MCBreaker.cfg MCBreaker.tla     # likewise every run of PROJECT.json
tlapm BreakerProofs.tla                     # likewise every *Proofs.tla
```

The longest runs (`installer`, `enrolment`) take one and a half to three minutes
on two workers, `orchestrator`, `monitor` and `chain` about one. The longest proofs are those of `PlatformProofs` (about five
minutes) and `RateLimiterProofs` (about 3000 obligations, three minutes); the
others take half a minute to two minutes.
