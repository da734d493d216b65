----------------------------- MODULE Discovery -----------------------------
(***************************************************************************)
(* Service discovery of the k8s sidecar: discovery/controller.go keeps     *)
(* discovery/cache.go in step with the Kubernetes API, which changes under *)
(* it.  A relist is two LIST calls, for services and for endpoint slices,  *)
(* and the publication of their join; nothing makes the two of one moment. *)
(*                                                                         *)
(* A key is a service port, serviceName:port.  The clusterIP:port key of   *)
(* the cache holds the same list and is not told apart from it.  The order *)
(* of the list belongs to Routing, so a list is a set of pods here.        *)
(***************************************************************************)
EXTENDS Naturals, Sequences, FiniteSets

CONSTANTS Keys,        \* service ports
          Pods,        \* addresses of endpoints
          Services,    \* service labels of the metrics
          ServiceOf,   \* the service of a key
          MaxChanges   \* bound: how often the API's objects change

ASSUME DiscoveryAssumption ==
    /\ ServiceOf \in [Keys -> Services]
    /\ IsFiniteSet(Pods)
    /\ MaxChanges \in Nat

VARIABLES api,        \* history: every state of the API's objects, the last is the present
          pc,         \* what the controller does next
          caller,     \* who called relist
          began,      \* history: length of api when the running relist began
          listed,     \* result of the first LIST: the keys of the services
          found,      \* the join, ready to be published
          cache,      \* ServiceCache.byKey
          since,      \* history: began of the relist that has filled the cache
          gauge,      \* mesh_endpoints_ready: the exported services
          cancelled,  \* the context is done
          troubles    \* history: errors since the last relist that came through

controller == <<pc, caller, began, listed, found>>
vars == <<api, controller, cache, since, gauge, cancelled, troubles>>

\* services: the ports of the services with a cluster IP.  ready: the endpoints
\* that slices of the service publish under the key's port number and do not
\* mark as not ready (a condition that is not set counts as ready).
Objects == [services : SUBSET Keys, ready : [Keys -> SUBSET Pods]]
Now == api[Len(api)]

PCs == {"services", "slices", "gauge", "swap", "watchServices", "watchSlices", "wait",
        "stopped", "failed"}
Tables == UNION {[ks -> SUBSET Pods] : ks \in SUBSET Keys}

TypeOK ==
    /\ api \in Seq(Objects)
    /\ Len(api) \in 1..(MaxChanges + 1)
    /\ pc \in PCs
    /\ caller \in {"InitialSync", "watchLoop", "Run"}
    /\ began \in 1..Len(api)
    /\ listed \subseteq Keys
    /\ found \in Tables
    /\ cache \in Tables
    /\ since \in 0..Len(api)
    /\ DOMAIN gauge \subseteq Services
    /\ \A s \in DOMAIN gauge : gauge[s] \in 0..Cardinality(Pods)
    /\ cancelled \in BOOLEAN
    /\ troubles \in 0..2

NoTable == [k \in {} |-> {}]

Init ==
    /\ \E o \in Objects : api = <<o>>
    /\ pc = "services"
    /\ caller = "InitialSync"
    /\ began = 1
    /\ listed = {}
    /\ found = NoTable
    /\ cache = NoTable
    /\ since = 0
    /\ gauge = [s \in {} |-> 0]
    /\ cancelled = FALSE
    /\ troubles = 0

-----------------------------------------------------------------------------
(* The Kubernetes API and the owner of the context *)

\* A service comes or goes, or the endpoints of a key change.
Change(o) ==
    /\ Len(api) <= MaxChanges
    /\ \/ \E k \in Keys : \/ o = [Now EXCEPT !.services = @ \union {k}]
                          \/ o = [Now EXCEPT !.services = @ \ {k}]
       \/ \E k \in Keys, ps \in SUBSET Pods : o = [Now EXCEPT !.ready[k] = ps]
    /\ o # Now
    /\ api' = Append(api, o)
    /\ UNCHANGED <<controller, cache, since, gauge, cancelled, troubles>>

Cancel ==
    /\ ~cancelled
    /\ cancelled' = TRUE
    /\ UNCHANGED <<api, controller, cache, since, gauge, troubles>>

-----------------------------------------------------------------------------
(* relist *)

Relist(who) ==
    /\ pc' = "services"
    /\ caller' = who
    /\ began' = Len(api)
    /\ UNCHANGED <<listed, found>>

ListServices ==
    /\ pc = "services"
    /\ ~cancelled
    /\ listed' = Now.services
    /\ pc' = "slices"
    /\ UNCHANGED <<api, caller, began, found, cache, since, gauge, cancelled, troubles>>

JoinAll(services, o) == o.ready
JoinKnown(services, o) == [k \in services \union DOMAIN cache |-> o.ready[k]]
\* The table built from the listed services and the slices of o.
Join(services, o) == [k \in services |-> o.ready[k]]

ListSlices ==
    /\ pc = "slices"
    /\ ~cancelled
    /\ found' = Join(listed, Now)
    /\ pc' = "gauge"
    /\ UNCHANGED <<api, caller, began, listed, cache, since, gauge, cancelled, troubles>>

\* len(cloned), what Replace reports of a key.
Count(k) == Cardinality(found[k])
Found(s) == {k \in DOMAIN found : ServiceOf[k] = s}

\* Replace walks the table in any order: the last key of a service wins.  A
\* service that is not in the table keeps what it had.
PublishGauge ==
    /\ pc = "gauge"
    /\ \E last \in [{s \in Services : Found(s) # {}} -> DOMAIN found] :
          /\ \A s \in DOMAIN last : last[s] \in Found(s)
          /\ gauge' = [s \in DOMAIN gauge \union DOMAIN last |->
                 IF s \in DOMAIN last THEN Count(last[s]) ELSE gauge[s]]
    /\ pc' = "swap"
    /\ UNCHANGED <<api, caller, began, listed, found, cache, since, cancelled, troubles>>

\* Under the lock of the cache.  relist returns nil to its caller.
Swap ==
    /\ pc = "swap"
    /\ cache' = found
    /\ since' = began
    /\ troubles' = 0
    /\ pc' = IF caller = "watchLoop" THEN "wait" ELSE "watchServices"
    /\ UNCHANGED <<api, caller, began, listed, found, gauge, cancelled>>

-----------------------------------------------------------------------------
(* Run and watchLoop *)

WatchServices ==
    /\ pc = "watchServices"
    /\ ~cancelled
    /\ pc' = "watchSlices"
    /\ UNCHANGED <<api, caller, began, listed, found, cache, since, gauge, cancelled, troubles>>

WatchSlices ==
    /\ pc = "watchSlices"
    /\ ~cancelled
    /\ pc' = "wait"
    /\ UNCHANGED <<api, caller, began, listed, found, cache, since, gauge, cancelled, troubles>>

\* The select of watchLoop: the ticker or an event of a watch, which are all
\* answered by a relist.
Wake ==
    /\ pc = "wait"
    /\ Relist("watchLoop")
    /\ UNCHANGED <<api, cache, since, gauge, cancelled, troubles>>

\* watchLoop returns an error, which Run answers with a relist of its own.
WatchLoopFails == Relist("Run")

RunNeverGivesUp == pc \in {"services", "slices"} /\ caller = "InitialSync"
\* A failed relist is final for Run, and the first one for the sidecar.
GivesUp == pc \in {"services", "slices"} /\ caller # "watchLoop"

Halt(at) == pc' = at /\ UNCHANGED <<caller, began, listed, found>>

\* A LIST or WATCH call returns an error, or an open watch is closed or sends
\* an error event.
Fail ==
    /\ ~cancelled
    /\ pc \in {"services", "slices", "watchServices", "watchSlices", "wait"}
    /\ troubles' = troubles + 1
    /\ IF GivesUp THEN Halt("failed") ELSE WatchLoopFails
    /\ UNCHANGED <<api, cache, since, gauge, cancelled>>

\* The context is done: every call and the select return, and nobody retries.
Stop ==
    /\ cancelled
    /\ pc \in {"services", "slices", "watchServices", "watchSlices", "wait"}
    /\ Halt("stopped")
    /\ UNCHANGED <<api, cache, since, gauge, cancelled, troubles>>

-----------------------------------------------------------------------------
Step ==
    \/ ListServices \/ ListSlices \/ PublishGauge \/ Swap
    \/ WatchServices \/ WatchSlices \/ Wake \/ Stop

Next ==
    \/ \E o \in Objects : Change(o)
    \/ Cancel
    \/ Step
    \/ Fail

Spec == Init /\ [][Next]_vars

\* The controller's goroutine runs, the ticker ticks, and API calls return.
FairSpec == Spec /\ WF_vars(Step)

-----------------------------------------------------------------------------
(***************************************************************************)
(* Properties                                                              *)
(***************************************************************************)

\* What the cache holds is the join of the services at one moment and of the
\* slices at the same or a later one, neither before the relist that filled it
\* began: no relist reuses anything of an earlier one (relist, Replace).
CacheOfOneRelist ==
    since # 0 =>
        \E i \in since..Len(api) : \E j \in i..Len(api) :
            cache = [k \in api[i].services |-> api[j].ready[k]]

\* One failure never stops a controller that has synced once: it takes a second
\* one before any relist comes through (Run retries what watchLoop returns).
OneFailureIsSurvived == pc = "failed" /\ since # 0 => troubles = 2

\* Outside Replace the gauge of a service with one listed port counts the
\* endpoints of that port.
GaugeOfSinglePort ==
    \A k \in DOMAIN cache :
        /\ pc # "swap"
        /\ \A other \in DOMAIN cache : ServiceOf[other] = ServiceOf[k] => other = k
        => gauge[ServiceOf[k]] = Cardinality(cache[k])

\* The inductive invariant: the results of the running relist lie in its
\* window, an error is pending exactly for the relist of Run, and Replace has
\* published the gauges of the table that it is about to install.
ListedInWindow ==
    pc = "slices" => \E i \in began..Len(api) : listed = api[i].services
FoundInWindow ==
    pc \in {"gauge", "swap"} =>
        \E i \in began..Len(api) : \E j \in i..Len(api) :
            found = [k \in api[i].services |-> api[j].ready[k]]
TroublesCounted ==
    /\ pc \in {"services", "slices"} =>
           /\ troubles = IF caller = "Run" THEN 1 ELSE 0
           /\ caller = "InitialSync" => since = 0
    /\ pc \in {"watchServices", "watchSlices", "wait"} => troubles = 0
GaugeOfFound ==
    \A k \in DOMAIN found :
        /\ pc = "swap"
        /\ \A other \in DOMAIN found : ServiceOf[other] = ServiceOf[k] => other = k
        => gauge[ServiceOf[k]] = Cardinality(found[k])
IInv ==
    /\ TypeOK /\ ListedInWindow /\ FoundInWindow /\ CacheOfOneRelist
    /\ TroublesCounted /\ OneFailureIsSurvived /\ GaugeOfFound /\ GaugeOfSinglePort

\* When the API's objects stop changing, the cache comes to agree with them and
\* stays so, or the controller has stopped.
Current == cache = [k \in Now.services |-> Now.ready[k]]
Converges == <>[](Current \/ pc \in {"stopped", "failed"})

=============================================================================
