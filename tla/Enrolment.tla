----------------------------- MODULE Enrolment -----------------------------
(***************************************************************************)
(* How a pod joins the mesh.  The API server sends the pod to the webhook, *)
(* whose configuration comes from the file mesh install was given; the     *)
(* kubelet runs the init containers and then, again and again until it     *)
(* stays up, the sidecar, which takes a certificate from the certificate   *)
(* manager.  A mesh is reconfigured by uninstalling and installing it      *)
(* (installer/README.md:366): the pods of the old one live on.             *)
(***************************************************************************)
EXTENDS Injector

CONSTANTS Pods,    \* names of pods
          Specs,   \* the pods that are created, as their owners write them
          Files,   \* the files mesh install is given
          Roots    \* the root certificates in these files

\* The environment of the iptables container.
IptablesEnv == [inbound : SUBSET Nat, plain : Nat, outbound : Nat, exclude : SUBSET Nat, uid : Nat]

\* Certificates, for the names that occur.
Certificates == [root : Roots, name : UNION {{s.service, s.account, "default"} : s \in Specs}]

\* Owners do not use the names of the mesh's containers.
OwnContainer == [name : STRING \ {"sidecar", "iptables-init"}, ports : SUBSET PortNumbers]

\* A file as its parser leaves it: any numbers, durations in seconds, and a list of
\* excluded ports that iptables can read.
IsFile(file) ==
    file \in [plain : Int, outbound : Int, mtlsPort : Int, mtls : {Unset} \union BOOLEAN,
             metrics : Int, exclude : {Unset} \union SUBSET Nat,
             algorithm : {Unset} \union STRING, timeout : {Unset, Malformed} \union Int,
             attempts : Int, threshold : Int, recovery : {Unset, Malformed} \union Int]

ASSUME EnrolmentAssumption ==
    /\ \A file \in Files : IsFile(file)
    /\ \A s \in Specs :
          s.optOut \in BOOLEAN /\ {s.init, s.containers} \subseteq Seq(OwnContainer)
    /\ Unset \notin Int /\ Malformed \notin Int
    /\ Unset \notin BOOLEAN /\ Unset # "default"
    /\ Unset \notin IptablesEnv /\ Unset \notin Certificates

VARIABLES mesh,    \* the file and the root of the mesh installed, or Unset
          copied,  \* the secret mesh-root-ca exists in the namespace of the pods
          pods     \* the pods: what was admitted and how far each has come

vars == <<mesh, copied, pods>>

Installed == mesh # Unset
Hook == HookConfig(mesh.file)
Exists(p) == pods[p] # Unset

Sidecar(pod) ==
    LET i == CHOOSE j \in DOMAIN pod.containers : pod.containers[j].name = "sidecar"
    IN  pod.containers[i]
Meshed(pod) == Has(pod.containers, "sidecar")
\* Everything of a pod that an update may not change.
Immutable(pod) == <<pod.account, pod.init, pod.containers, pod.volumes>>

\* A spec, admitted and not yet started.
Fresh(spec) ==
    [service |-> spec.service, account |-> spec.account, optOut |-> spec.optOut,
     init |-> spec.init, containers |-> spec.containers, volumes |-> {}, scrape |-> 0,
     done |-> 0, rules |-> Unset, up |-> FALSE, cert |-> Unset]

TypeOK ==
    /\ Installed => mesh.file \in Files /\ mesh.root \in Roots /\ Installable(mesh.file)
    /\ copied \in BOOLEAN
    /\ \A p \in Pods : Exists(p) =>
          LET pod == pods[p]
          IN  /\ pod.done \in 0..Len(pod.init)
              /\ pod.up => Meshed(pod) /\ pod.done = Len(pod.init)
              /\ pod.cert \in Certificates \union {Unset}
              /\ pod.cert # Unset <=> pod.up /\ Sidecar(pod).env.mtlsPort > 0
              /\ pod.rules # Unset <=>
                    \E i \in 1..pod.done : pod.init[i].name = "iptables-init"
              /\ Meshed(pod) =>
                    /\ Has(pod.init, "iptables-init")
                    /\ pod.account = Sidecar(pod).account
                    /\ "mesh-ca" \in pod.volumes

Init ==
    /\ mesh = Unset
    /\ copied = FALSE
    /\ pods = [p \in Pods |-> Unset]

-----------------------------------------------------------------------------
(* The mesh *)

Install ==
    /\ ~Installed
    /\ \E file \in Files, root \in Roots :
          /\ Installable(file)
          /\ mesh' = [file |-> file, root |-> root]
    /\ UNCHANGED <<copied, pods>>

Uninstall ==
    /\ Installed
    /\ mesh' = Unset
    /\ UNCHANGED <<copied, pods>>

\* The secret that every injected pod mounts is put into the namespace by hand.
CopySecret ==
    /\ Installed
    /\ ~copied
    /\ copied' = TRUE
    /\ UNCHANGED <<mesh, pods>>

-----------------------------------------------------------------------------
(* Admission *)

\* The API server without the mesh, or through the webhook: failurePolicy is
\* Fail, and while the webhook does not come up no pod gets through.
Admitted(pod) == IF Installed THEN BuildPatch(Hook, pod) ELSE pod
Admits == Installed => Serves(Hook)

\* What the API server itself demands of the ports a container declares.
ValidPorts(pod) ==
    UNION {pod.containers[i].ports : i \in DOMAIN pod.containers} \subseteq PortNumbers

CreatePod(p) ==
    /\ ~Exists(p)
    /\ Admits
    /\ \E spec \in Specs :
          /\ ValidPorts(Admitted(Fresh(spec)))
          /\ pods' = [pods EXCEPT ![p] = Admitted(Fresh(spec))]
    /\ UNCHANGED <<mesh, copied>>

\* An update of the metadata goes through the webhook too, and is refused when the
\* patch touches what may not change.
UpdatePod(p) ==
    /\ Exists(p)
    /\ Admits
    /\ Immutable(Admitted(pods[p])) = Immutable(pods[p])
    /\ pods' = [pods EXCEPT ![p] = Admitted(@)]
    /\ UNCHANGED <<mesh, copied>>

DeletePod(p) ==
    /\ Exists(p)
    /\ pods' = [pods EXCEPT ![p] = Unset]
    /\ UNCHANGED <<mesh, copied>>

-----------------------------------------------------------------------------
(* The kubelet *)

\* The next init container, once the volumes are mounted.  Those of the owner
\* need the network, and no sidecar serves it yet.
RunInit(p) ==
    /\ Exists(p)
    /\ LET pod == pods[p]
           container == pod.init[pod.done + 1]
           Advanced(rules) == [pod EXCEPT !.done = @ + 1, !.rules = rules]
       IN  /\ pod.done < Len(pod.init)
           /\ pod.volumes # {} => copied
           /\ \/ /\ container.name = "iptables-init"
                 /\ RulesApply(container.env)
                 /\ pods' = [pods EXCEPT ![p] = Advanced(container.env)]
              \/ /\ container.name # "iptables-init"
                 /\ Outbound(pod.rules, 0) = 0
                 /\ pods' = [pods EXCEPT ![p] = Advanced(pod.rules)]
    /\ UNCHANGED <<mesh, copied>>

\* The identity that TokenReview reads from the token of the pod.
Identity(pod) == pod.account
\* The certificate manager signs with the root it was started with, for the
\* identity of the token, whatever the request names.
SignCSR(identity) == [root |-> mesh.root, name |-> identity]
Sign(pod) == SignCSR(Identity(pod))

\* The rules let the processes of the sidecar out.
Unhindered(pod) == Outbound(pod.rules, Sidecar(pod).uid) = 0

\* POST /sign, at the certificate manager and at the sidecar, whose start ends with
\* anything but a certificate.
ServeHTTP(pod, cert) == Installed /\ cert = Sign(pod)
Issued(pod, cert) == Unhindered(pod) /\ ServeHTTP(pod, cert)

BootstrapTLSConfig(pod, cert) ==
    \/ Sidecar(pod).env.mtlsPort = 0 /\ cert = Unset
    \/ Sidecar(pod).env.mtlsPort > 0 /\ Issued(pod, cert)

\* Run of the sidecar, up to its listeners: the configuration, the certificate
\* and the first relist, over the network of the pod.  What fails ends the
\* process, and the kubelet starts it again.
StartSidecar(p) ==
    /\ Exists(p)
    /\ LET pod == pods[p]
       IN  /\ Meshed(pod)
           /\ ~pod.up
           /\ pod.done = Len(pod.init)
           /\ Starts(Sidecar(pod).env)
           /\ Unhindered(pod)
           /\ \E cert \in Certificates \union {Unset} :
                 /\ BootstrapTLSConfig(pod, cert)
                 /\ pods' = [pods EXCEPT ![p].up = TRUE, ![p].cert = cert]
    /\ UNCHANGED <<mesh, copied>>

\* The sidecar ends, or the whole pod is started anew, with a network of its own.
Restart(p) ==
    /\ Exists(p)
    /\ LET stopped == [pods[p] EXCEPT !.up = FALSE, !.cert = Unset]
       IN  \/ pods' = [pods EXCEPT ![p] = stopped]
           \/ pods' = [pods EXCEPT ![p] = [stopped EXCEPT !.done = 0, !.rules = Unset]]
    /\ UNCHANGED <<mesh, copied>>

Next ==
    \/ Install \/ Uninstall \/ CopySecret
    \/ \E p \in Pods :
          \/ CreatePod(p) \/ UpdatePod(p) \/ DeletePod(p)
          \/ RunInit(p) \/ StartSidecar(p) \/ Restart(p)

\* The application listens on a port of its sidecar: in one network, only one of
\* them can have it, and the kubelet starts both at once.
Contested(p) ==
    CollectInboundPorts(pods[p].containers) \intersect PortsOf(Sidecar(pods[p]).env) # {}

\* The kubelet tries a failed container again, and the calls of a start fail only
\* for a while.  Nothing is assumed of a sidecar that finds its port taken.
Fairness ==
    \A p \in Pods : WF_vars(RunInit(p)) /\ WF_vars(StartSidecar(p) /\ ~Contested(p))

Spec == Init /\ [][Next]_vars /\ Fairness

-----------------------------------------------------------------------------
(* Properties *)

\* Re-admission is idempotent, whatever mesh admitted the pod first and whatever
\* mesh is installed now: an update of an injected pod is never refused.
InjectedPodsUpdatable ==
    \A p \in Pods :
        Exists(p) /\ Meshed(pods[p]) /\ Admits =>
            Immutable(Admitted(pods[p])) = Immutable(pods[p])

Serving(p) == Exists(p) /\ pods[p].up

\* The TLS handshake of the sidecar of c with that of s: each trusts the root of
\* its own certificate, and the name asked for is the service of s.
Handshake(c, s) ==
    /\ pods[c].cert.root = pods[s].cert.root
    /\ pods[s].cert.name = pods[s].service

\* The application's port at which a connection of the application of c to the
\* service of s ends, 0 if it ends nowhere: out through the rules of c, from its
\* sidecar past these rules, in through the rules of s, to its sidecar.
Delivers(c, s) ==
    LET from == Sidecar(pods[c])
        to == Sidecar(pods[s])
        secure == from.env.mtlsPort > 0
        dialled == IF secure THEN from.env.mtlsPort ELSE from.env.plain
        expected == IF secure THEN to.env.mtlsPort ELSE to.env.plain
    IN  IF /\ Outbound(pods[c].rules, 0) = from.env.outbound
           /\ Unhindered(pods[c])
           /\ Inbound(pods[s].rules, dialled) = expected
           /\ secure => to.env.mtls /\ Handshake(c, s)
        THEN to.target ELSE 0

\* Two serving pods that agree on the settings and on the root reach each other
\* exactly if they use no TLS or the account of the called pod has the name of
\* its service (the assumption of certmanager/README.md:223): no rule of theirs
\* catches what the sidecars exchange, the connection ends at the first port of
\* the application, and nobody passes for a service under another account.
PeersReachEachOther ==
    \A c, s \in Pods :
        LET ports == CollectInboundPorts(pods[s].containers)
            named == pods[s].account = pods[s].service
        IN  /\ Serving(c) /\ Serving(s)
            /\ Sidecar(pods[c]).env = Sidecar(pods[s]).env
            /\ pods[c].cert # Unset => pods[c].cert.root = pods[s].cert.root
            /\ ports \intersect PortsOf(Sidecar(pods[s]).env) = {}
            => Delivers(c, s) =
                   IF named \/ pods[c].cert = Unset THEN Min(ports) ELSE 0

\* The files whose values do not end the webhook: durations that are not too small or
\* that nobody can read, and no number below zero.
WebhookTakes(file) ==
    /\ file.recovery \in {Unset, Malformed} \/ file.recovery > 0
    /\ file.timeout \in {Unset, Malformed} \/ file.timeout >= 0
    /\ file.metrics >= 0 /\ file.attempts >= 0 /\ file.threshold >= 0

\* The files whose values do not end the sidecars: the one metrics port and a known
\* algorithm, on ports that do not clash and that exist.
SidecarsTake(file) ==
    LET mtlsPort == IF file.mtlsPort = 0 THEN 15001 ELSE file.mtlsPort
        secure == file.mtls = TRUE \/ (file.mtls = Unset /\ file.mtlsPort >= 0)
        sockets == {file.plain, file.outbound, 9090} \union (IF secure THEN {mtlsPort} ELSE {})
    IN  /\ file.metrics \in {0, 9090}
        /\ file.algorithm \in {Unset, "none", "roundRobin", "random"}
        /\ Cardinality(sockets) = (IF secure THEN 4 ELSE 3)
        /\ sockets \subseteq PortNumbers

\* What mesh install lets through and a later hop refuses, in terms of the file: the
\* defaults and conversions on the way decide nothing else.
RefusalsExplained ==
    Installed =>
        /\ Serves(Hook) <=> WebhookTakes(mesh.file)
        /\ Serves(Hook) => (Starts(SidecarEnv(Hook)) <=> SidecarsTake(mesh.file))

\* What a pod needs to come up.
CanStart(p) ==
    /\ Exists(p)
    /\ Meshed(pods[p])
    /\ CollectInboundPorts(pods[p].containers) # {}
    /\ Len(pods[p].init) = 1
    /\ Starts(Sidecar(pods[p]).env)
    /\ ~Contested(p)
    /\ copied
    /\ Sidecar(pods[p]).env.mtls => Installed

\* A pod that keeps what it needs comes up for good once it is restarted no more:
\* the rules that capture its traffic let its sidecar reach the certificate manager
\* and the API server.
ComesUp == \A p \in Pods : <>[]CanStart(p) /\ <>[][~Restart(p)]_vars => <>[]Serving(p)

-----------------------------------------------------------------------------
(***************************************************************************)
(* The inductive invariant of EnrolmentProofs: a pod is what its owner     *)
(* wrote, or that with what one mesh added to it, whatever updates, meshes *)
(* and restarts it has seen since.                                         *)
(***************************************************************************)

PodFields == {"service", "account", "optOut", "init", "containers", "volumes", "scrape",
              "done", "rules", "up", "cert"}

\* The mesh has not touched it.
Native(pod, spec) ==
    /\ pod.service = spec.service
    /\ pod.account = spec.account
    /\ pod.optOut = spec.optOut
    /\ pod.init = spec.init
    /\ pod.containers = spec.containers
    /\ pod.volumes = {}
    /\ pod.done \in 0..Len(spec.init)
    /\ pod.rules = Unset
    /\ ~pod.up
    /\ pod.cert = Unset

AccountFor(spec) == Given(spec.account, DeriveServiceAccountName(spec))

\* The mesh of this file has injected it, and nothing else has.
Injected(pod, spec, file) ==
    LET hook     == HookConfig(file)
        ports    == CollectInboundPorts(spec.containers)
        iptables == BuildIptablesContainer(hook, ports)
        sidecar  == BuildSidecarContainer(hook, AccountFor(spec), DeriveAppTargetAddr(ports))
    IN  /\ pod.service = spec.service
        /\ pod.account = AccountFor(spec)
        /\ ~pod.optOut
        /\ pod.init = <<iptables>> \o spec.init
        /\ pod.containers = Append(spec.containers, sidecar)
        /\ pod.volumes = {"mesh-ca"}
        /\ pod.done \in 0..(1 + Len(spec.init))
        /\ pod.rules = IF pod.done = 0 THEN Unset ELSE iptables.env
        /\ pod.done > 0 => ports # {}
        /\ pod.up => pod.done = 1 + Len(spec.init)
        /\ pod.cert # Unset <=> pod.up /\ sidecar.env.mtlsPort > 0
        /\ pod.cert # Unset => pod.cert \in Certificates /\ pod.cert.name = pod.account

PodInv(pod) ==
    /\ DOMAIN pod = PodFields
    /\ pod.up \in BOOLEAN
    /\ \E spec \in Specs :
          Native(pod, spec) \/ \E file \in Files : Installable(file) /\ Injected(pod, spec, file)
IInv ==
    /\ Installed => mesh.file \in Files /\ mesh.root \in Roots /\ Installable(mesh.file)
    /\ copied \in BOOLEAN
    /\ DOMAIN pods = Pods
    /\ \A p \in Pods : Exists(p) => PodInv(pods[p])
=============================================================================
