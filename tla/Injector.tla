----------------------------- MODULE Injector -----------------------------
(***************************************************************************)
(* What the webhook makes of a pod (hook, injector/service.go) and what    *)
(* the iptables container makes of its network (iptables/entrypoint.sh).   *)
(* A pod is a record: the label of its service, its service account, its   *)
(* init containers, its containers with the ports they declare, its        *)
(* volumes, its annotation for the scraper, and whether it has opted out.  *)
(***************************************************************************)
EXTENDS MeshConfig, Sequences, SequencesExt, FiniteSetsExt

SidecarUID == 1337

Has(containers, name) == \E i \in DOMAIN containers : containers[i].name = name

AddFirst(new, containers) == IF Has(containers, new.name) THEN containers ELSE <<new>> \o containers
AddLastAgain(new, containers) == Append(containers, new)
\* A container is added only when none has its name.
AddLast(new, containers) == IF Has(containers, new.name) THEN containers ELSE Append(containers, new)

MeshVolumesOnly(volumes) == IF volumes = {} THEN {} ELSE volumes \union {"mesh-ca"}
\* The root certificate of the mesh, next to the volumes of the owner or alone.
MeshVolumes(volumes) == volumes \union {"mesh-ca"}

\* The service account a pod is given when it names none.
DeriveServiceAccountName(pod) == Given(pod.service, "default")

CollectInboundPorts(containers) ==
    UNION {containers[i].ports : i \in {j \in DOMAIN containers : containers[j].name # "sidecar"}}

HighestPort(ports) == IF ports = {} THEN 8080 ELSE Max(ports)
\* Where the sidecar sends what comes in: the first port of the sorted list.
DeriveAppTargetAddr(ports) == IF ports = {} THEN 8080 ELSE Min(ports)

IptablesOfRoot(hook, ports) ==
    [name |-> "iptables-init", ports |-> {},
     env |-> [inbound |-> ports, plain |-> hook.plain, outbound |-> hook.outbound,
              exclude |-> hook.exclude, uid |-> 0]]
BuildIptablesContainer(hook, ports) ==
    [name |-> "iptables-init", ports |-> {},
     env |-> [inbound |-> ports, plain |-> hook.plain, outbound |-> hook.outbound,
              exclude |-> hook.exclude, uid |-> SidecarUID]]

BuildSidecarContainer(hook, account, target) ==
    [name |-> "sidecar", ports |-> PortsOf(hook), uid |-> SidecarUID,
     account |-> account, target |-> target, env |-> SidecarEnv(hook)]

\* Annotations are added, or replaced when their value has changed.
Annotated(hook) == hook.metrics

\* The pods the webhook lets pass as they are: in an ignored namespace, or annotated.
Skipped(pod) == pod.optOut

\* BuildPatch, applied: everything but the annotations is added only when it is missing.
BuildPatch(hook, pod) ==
    LET ports == CollectInboundPorts(pod.containers)
        account == Given(pod.account, DeriveServiceAccountName(pod))
    IN  IF Skipped(pod) THEN pod
        ELSE [pod EXCEPT
            !.account = account,
            !.scrape = Annotated(hook),
            !.volumes = MeshVolumes(@),
            !.init = AddFirst(BuildIptablesContainer(hook, ports), @),
            !.containers =
                AddLast(BuildSidecarContainer(hook, account, DeriveAppTargetAddr(ports)), @)]

-----------------------------------------------------------------------------
(* The network of a pod *)

\* The script ends at once when a variable is empty.
RulesApply(env) == env.inbound # {}

\* The port at which a connection to a port of the pod arrives: PREROUTING
\* jumps for the ports of the application, MESH_INBOUND excludes, then redirects.
Inbound(rules, port) ==
    IF rules = Unset \/ port \notin rules.inbound \/ port \in rules.exclude
    THEN port ELSE rules.plain

\* The port a connection of a process to another pod is redirected to, 0 for none.
\* Excluded addresses, the loopback and DNS are left out.
Outbound(rules, uid) == IF rules = Unset \/ uid = rules.uid THEN 0 ELSE rules.outbound
=============================================================================
