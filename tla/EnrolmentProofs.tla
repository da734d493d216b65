-------------------------- MODULE EnrolmentProofs --------------------------
(***************************************************************************)
(* Proofs about pods and settings, for any files, roots, pods and specs:   *)
(* what a mesh has injected stays what it was, so a second admission       *)
(* changes nothing that may not change, and two pods of one configuration  *)
(* reach each other exactly as their accounts allow.                       *)
(***************************************************************************)
EXTENDS Enrolment, TLAPS

-----------------------------------------------------------------------------
(* Settings *)

\* The settings of a file, each of its kind.
LEMMA FileSettings ==
    ASSUME NEW file \in Files
    PROVE  /\ DOMAIN file = {"plain", "outbound", "mtlsPort", "mtls", "metrics", "exclude",
                             "algorithm", "timeout", "attempts", "threshold", "recovery"}
           /\ file.plain \in Int /\ file.outbound \in Int /\ file.mtlsPort \in Int
           /\ file.metrics \in Int /\ file.attempts \in Int /\ file.threshold \in Int
           /\ file.exclude \in {Unset} \union SUBSET Nat
           /\ file.timeout \in {Unset, Malformed} \union Int
           /\ file.recovery \in {Unset, Malformed} \union Int
  <1>1. IsFile(file)
    BY EnrolmentAssumption
  <1> QED
    BY <1>1 DEF IsFile

\* What the hops make of the settings of a file that mesh install lets through.
LEMMA HookSettings ==
    ASSUME NEW file \in Files, Installable(file), NEW hook, hook = HookConfig(file)
    PROVE  /\ hook.plain = file.plain /\ hook.plain \in Nat \ {0}
           /\ hook.outbound = file.outbound /\ hook.outbound \in Nat \ {0}
           /\ hook.mtls = Encrypts(file)
           /\ hook.mtlsPort = MTLSPort(file) /\ hook.mtlsPort \in Nat
           /\ hook.mtlsPort > 0 <=> Encrypts(file)
           /\ hook.metrics = (IF file.metrics = 0 THEN 9090 ELSE file.metrics)
           /\ hook.exclude \in SUBSET Nat
           /\ hook.algorithm = Given(file.algorithm, "roundRobin")
           /\ hook.timeout = Env(file.timeout, 5)
           /\ hook.attempts = (IF file.attempts = 0 THEN 3 ELSE file.attempts)
           /\ hook.threshold = (IF file.threshold = 0 THEN 5 ELSE file.threshold)
           /\ hook.recovery = Env(file.recovery, 30)
           /\ DOMAIN hook = DOMAIN file
  <1> DEFINE cfg == WithDefaults(file)
  <1>1. DOMAIN file = {"plain", "outbound", "mtlsPort", "mtls", "metrics", "exclude",
                       "algorithm", "timeout", "attempts", "threshold", "recovery"}
    BY FileSettings
  <1>2. /\ DOMAIN cfg = DOMAIN file
        /\ cfg.plain = file.plain /\ cfg.outbound = file.outbound
        /\ cfg.mtls = Encrypts(file) /\ cfg.mtlsPort = MTLSPort(file)
        /\ cfg.metrics = (IF file.metrics = 0 THEN 9090 ELSE file.metrics)
        /\ cfg.exclude = Given(file.exclude, {9090})
        /\ cfg.algorithm = Given(file.algorithm, "roundRobin")
        /\ cfg.timeout = Given(file.timeout, 5)
        /\ cfg.attempts = (IF file.attempts = 0 THEN 3 ELSE file.attempts)
        /\ cfg.threshold = (IF file.threshold = 0 THEN 5 ELSE file.threshold)
        /\ cfg.recovery = Given(file.recovery, 30)
    <2>1. DOMAIN cfg = DOMAIN file
      BY DEF WithDefaults
    <2>2. /\ cfg.plain = file.plain /\ cfg.outbound = file.outbound
          /\ cfg.mtls = Encrypts(file) /\ cfg.mtlsPort = MTLSPort(file)
      BY <1>1 DEF WithDefaults
    <2>3. /\ cfg.metrics = (IF file.metrics = 0 THEN 9090 ELSE file.metrics)
          /\ cfg.exclude = Given(file.exclude, {9090})
          /\ cfg.algorithm = Given(file.algorithm, "roundRobin")
          /\ cfg.timeout = Given(file.timeout, 5)
      BY <1>1 DEF WithDefaults
    <2>4. /\ cfg.attempts = (IF file.attempts = 0 THEN 3 ELSE file.attempts)
          /\ cfg.threshold = (IF file.threshold = 0 THEN 5 ELSE file.threshold)
          /\ cfg.recovery = Given(file.recovery, 30)
      BY <1>1 DEF WithDefaults
    <2> HIDE DEF cfg
    <2> QED
      BY <2>1, <2>2, <2>3, <2>4
  <1>3. cfg.plain > 0 /\ cfg.outbound > 0 /\ cfg.mtlsPort >= 0 /\ (cfg.mtls => cfg.mtlsPort > 0)
    BY DEF Installable
  <1> HIDE DEF cfg
  <1>4. /\ hook.timeout = Env(cfg.timeout, 5) /\ hook.recovery = Env(cfg.recovery, 30)
        /\ DOMAIN hook = DOMAIN cfg
        /\ \A x \in DOMAIN cfg \ {"timeout", "recovery"} : hook[x] = cfg[x]
    <2>1. hook = [cfg EXCEPT !.timeout = Env(@, 5), !.recovery = Env(@, 30)]
      BY DEF HookConfig, cfg
    <2>2. {"timeout", "recovery"} \subseteq DOMAIN cfg
      BY <1>1, <1>2
    <2> QED
      BY <2>1, <2>2
  <1>5. /\ hook.plain = cfg.plain /\ hook.outbound = cfg.outbound /\ hook.mtls = cfg.mtls
        /\ hook.mtlsPort = cfg.mtlsPort /\ hook.metrics = cfg.metrics
        /\ hook.exclude = cfg.exclude /\ hook.algorithm = cfg.algorithm
        /\ hook.attempts = cfg.attempts /\ hook.threshold = cfg.threshold
    BY <1>1, <1>2, <1>4
  <1>6. file.plain \in Int /\ file.outbound \in Int /\ file.mtlsPort \in Int
    BY FileSettings
  <1>7. MTLSPort(file) \in Int
    BY <1>6 DEF MTLSPort
  <1>8. hook.mtlsPort \in Nat /\ (hook.mtlsPort > 0 <=> Encrypts(file))
    <2>1. CASE Encrypts(file)
      BY <1>2, <1>3, <1>5, <1>7, <2>1
    <2>2. CASE ~Encrypts(file)
      <3>1. MTLSPort(file) = 0
        BY <2>2 DEF MTLSPort
      <3> QED
        BY <1>2, <1>5, <2>2, <3>1
    <2> QED
      BY <2>1, <2>2
  <1>9. hook.timeout = Env(file.timeout, 5) /\ hook.recovery = Env(file.recovery, 30)
    BY <1>2, <1>4 DEF Env, Given
  <1>10. hook.exclude \in SUBSET Nat
    <2>1. file.exclude \in {Unset} \union SUBSET Nat
      BY FileSettings
    <2> QED
      BY <1>2, <1>5, <2>1 DEF Given
  <1>11. hook.plain \in Nat \ {0} /\ hook.outbound \in Nat \ {0}
    BY <1>2, <1>3, <1>5, <1>6
  <1> QED
    BY <1>2, <1>4, <1>5, <1>8, <1>9, <1>10, <1>11

\* Everything but the exclusions reaches the sidecar as the webhook has it.
LEMMA SidecarSettings ==
    ASSUME NEW file \in Files, Installable(file), NEW hook, hook = HookConfig(file),
           NEW env, env = SidecarEnv(hook)
    PROVE  /\ env.exclude = {9090}
           /\ env.plain = hook.plain /\ env.outbound = hook.outbound
           /\ env.mtls = hook.mtls /\ env.mtlsPort = hook.mtlsPort
           /\ env.metrics = hook.metrics /\ env.algorithm = hook.algorithm
           /\ env.timeout = hook.timeout /\ env.attempts = hook.attempts
           /\ env.threshold = hook.threshold /\ env.recovery = hook.recovery
  <1>0. DOMAIN hook = DOMAIN file
    BY HookSettings
  <1>1. DOMAIN hook = {"plain", "outbound", "mtlsPort", "mtls", "metrics", "exclude",
                       "algorithm", "timeout", "attempts", "threshold", "recovery"}
    BY <1>0, FileSettings
  <1>2. EnvWithAliases(Unset, {9090}) = {9090}
    BY DEF EnvWithAliases, Env
  <1>3. /\ env.exclude = {9090}
        /\ \A x \in DOMAIN hook \ {"exclude"} : env[x] = hook[x]
    BY <1>1, <1>2 DEF SidecarEnv
  <1> QED
    BY <1>1, <1>3

\* When the webhook ends over a file that mesh install has let through.
LEMMA WebhookRefusals ==
    ASSUME NEW file \in Files, Installable(file), NEW hook, hook = HookConfig(file)
    PROVE  Serves(hook) <=> WebhookTakes(file)
  <1>1. /\ hook.plain \in Nat \ {0} /\ hook.outbound \in Nat \ {0}
        /\ hook.mtlsPort \in Nat /\ (hook.mtls => hook.mtlsPort > 0)
    BY HookSettings
  <1>2. /\ hook.metrics = (IF file.metrics = 0 THEN 9090 ELSE file.metrics)
        /\ hook.attempts = (IF file.attempts = 0 THEN 3 ELSE file.attempts)
        /\ hook.threshold = (IF file.threshold = 0 THEN 5 ELSE file.threshold)
        /\ hook.timeout = Env(file.timeout, 5) /\ hook.recovery = Env(file.recovery, 30)
    BY HookSettings
  <1>3. /\ file.metrics \in Int /\ file.attempts \in Int /\ file.threshold \in Int
        /\ file.timeout \in {Unset, Malformed} \union Int
        /\ file.recovery \in {Unset, Malformed} \union Int
    BY FileSettings
  <1>4. /\ hook.metrics \in Nat \ {0} <=> file.metrics >= 0
        /\ hook.attempts \in Nat <=> file.attempts >= 0
        /\ hook.threshold \in Nat <=> file.threshold >= 0
    BY <1>2, <1>3
  <1>5. hook.timeout \in Nat <=> file.timeout \in {Unset, Malformed} \/ file.timeout >= 0
    BY <1>2, <1>3 DEF Env
  <1>6. hook.recovery > 0 <=> file.recovery \in {Unset, Malformed} \/ file.recovery > 0
    BY <1>2, <1>3 DEF Env
  <1>7. Serves(hook) <=>
            /\ hook.metrics \in Nat \ {0}
            /\ hook.attempts \in Nat /\ hook.timeout \in Nat /\ hook.threshold \in Nat
            /\ hook.recovery > 0
    BY <1>1 DEF Serves
  <1> QED
    BY <1>4, <1>5, <1>6, <1>7 DEF WebhookTakes

\* When the sidecars of a webhook that serves refuse to start: their ports are the
\* sockets of SidecarsTake.
LEMMA SidecarRefusals ==
    ASSUME NEW file \in Files, Installable(file), NEW hook, hook = HookConfig(file),
           Serves(hook)
    PROVE  Starts(SidecarEnv(hook)) <=> SidecarsTake(file)
  <1> DEFINE env == SidecarEnv(hook)
             mtlsPort == IF file.mtlsPort = 0 THEN 15001 ELSE file.mtlsPort
             secure == file.mtls = TRUE \/ (file.mtls = Unset /\ file.mtlsPort >= 0)
             sockets == {file.plain, file.outbound, 9090}
                            \union (IF secure THEN {mtlsPort} ELSE {})
  <1>0. SidecarsTake(file) <=>
            /\ file.metrics \in {0, 9090}
            /\ file.algorithm \in {Unset, "none", "roundRobin", "random"}
            /\ Cardinality(sockets) = (IF secure THEN 4 ELSE 3)
            /\ sockets \subseteq PortNumbers
    BY DEF SidecarsTake
  <1>6. secure <=> Encrypts(file)
    <2>1. file.mtls \in {Unset} \union BOOLEAN /\ Unset \notin BOOLEAN
      BY EnrolmentAssumption DEF IsFile
    <2> QED
      BY <2>1 DEF Encrypts
  <1> HIDE DEF secure
  <1>1. /\ hook.plain = file.plain /\ hook.outbound = file.outbound
        /\ hook.mtls = Encrypts(file)
        /\ hook.mtlsPort = MTLSPort(file) /\ hook.mtlsPort \in Nat
        /\ hook.mtlsPort > 0 <=> Encrypts(file)
        /\ hook.metrics = (IF file.metrics = 0 THEN 9090 ELSE file.metrics)
        /\ hook.algorithm = Given(file.algorithm, "roundRobin")
    BY HookSettings
  <1>2. /\ {hook.metrics, hook.plain, hook.outbound} \subseteq Nat \ {0}
        /\ {hook.timeout, hook.attempts} \subseteq Nat
        /\ hook.recovery > 0
    BY DEF Serves
  <1>3. /\ env.exclude = {9090}
        /\ env.plain = hook.plain /\ env.outbound = hook.outbound
        /\ env.mtls = hook.mtls /\ env.mtlsPort = hook.mtlsPort
        /\ env.metrics = hook.metrics /\ env.algorithm = hook.algorithm
        /\ env.timeout = hook.timeout /\ env.attempts = hook.attempts
        /\ env.threshold = hook.threshold /\ env.recovery = hook.recovery
    BY SidecarSettings
  <1>4. CASE hook.metrics # 9090
    <2> HIDE DEF env, sockets
    <2>1. ~Starts(env)
      BY <1>3, <1>4 DEF Starts, Accepts
    <2> QED
      BY <1>0, <1>1, <1>4, <2>1 DEF env
  <1>5. CASE hook.metrics = 9090
    <2> HIDE DEF env
    <2>1. PortsOf(env) = sockets
      <3>1. CASE Encrypts(file)
        <4>1. env.mtlsPort = mtlsPort
          BY <1>1, <1>3, <3>1 DEF MTLSPort
        <4> QED
          BY <1>1, <1>3, <1>5, <1>6, <3>1, <4>1 DEF PortsOf
      <3>2. CASE ~Encrypts(file)
        BY <1>1, <1>3, <1>5, <1>6, <3>2 DEF PortsOf
      <3> QED
        BY <3>1, <3>2
    <2> HIDE DEF sockets
    <2>2. CanListen(env) <=>
              /\ Cardinality(sockets) = (IF secure THEN 4 ELSE 3)
              /\ sockets \subseteq PortNumbers
      BY <1>1, <1>3, <1>6, <2>1 DEF CanListen
    <2>3. env.algorithm \in {"none", "roundRobin", "random"}
             <=> file.algorithm \in {Unset, "none", "roundRobin", "random"}
      BY <1>1, <1>3 DEF Given
    <2>4. file.metrics \in {0, 9090}
      BY <1>1, <1>5
    <2>5. ASSUME CanListen(env), env.algorithm \in {"none", "roundRobin", "random"}
          PROVE  Accepts(env)
      <3>1. /\ {env.plain, env.outbound, env.metrics} \subseteq Nat \ {0}
            /\ {env.timeout, env.attempts} \subseteq Nat
            /\ env.metrics \in env.exclude
            /\ env.recovery > 0
        BY <1>2, <1>3, <1>5
      <3>2. Cardinality(PortsOf(env)) \in {3, 4}
        BY <2>5 DEF CanListen
      <3>3. env.mtlsPort >= 0 /\ (env.mtls => env.mtlsPort > 0)
        BY <1>1, <1>3
      <3> QED
        BY <2>5, <3>1, <3>2, <3>3 DEF Accepts
    <2>6. Starts(env) <=> /\ env.algorithm \in {"none", "roundRobin", "random"}
                          /\ CanListen(env)
      BY <2>5 DEF Starts, Accepts
    <2> QED
      BY <1>0, <2>2, <2>3, <2>4, <2>6 DEF env
  <1> QED
    BY <1>4, <1>5

-----------------------------------------------------------------------------
(* Pods *)

\* What an owner writes has no container of the mesh.
LEMMA Own ==
    ASSUME NEW spec \in Specs
    PROVE  /\ spec.init \in Seq(OwnContainer) /\ spec.containers \in Seq(OwnContainer)
           /\ ~Has(spec.containers, "sidecar") /\ ~Has(spec.init, "iptables-init")
           /\ CollectInboundPorts(spec.containers) \in SUBSET Nat
  <1>1. spec.init \in Seq(OwnContainer) /\ spec.containers \in Seq(OwnContainer)
    BY EnrolmentAssumption
  <1>2. /\ \A i \in DOMAIN spec.containers : spec.containers[i] \in OwnContainer
        /\ \A i \in DOMAIN spec.init : spec.init[i] \in OwnContainer
    BY <1>1
  <1>3. \A i \in DOMAIN spec.containers : spec.containers[i].ports \subseteq Nat
    <2>1. PortNumbers \subseteq Nat
      BY DEF PortNumbers
    <2> QED
      BY <1>2, <2>1 DEF OwnContainer
  <1>4. CollectInboundPorts(spec.containers) \in SUBSET Nat
    BY <1>3 DEF CollectInboundPorts
  <1>5. ~Has(spec.containers, "sidecar") /\ ~Has(spec.init, "iptables-init")
    BY <1>2 DEF Has, OwnContainer
  <1> QED
    BY <1>1, <1>4, <1>5

\* The sidecar's own ports are not collected.
LEMMA Collected ==
    ASSUME NEW spec \in Specs, NEW x, x.name = "sidecar"
    PROVE  CollectInboundPorts(Append(spec.containers, x)) = CollectInboundPorts(spec.containers)
  <1> DEFINE s == spec.containers
             t == Append(s, x)
             I(q) == {j \in DOMAIN q : q[j].name # "sidecar"}
  <1>1. s \in Seq(OwnContainer)
    BY Own
  <1>2. /\ DOMAIN s = 1..Len(s) /\ DOMAIN t = 1..(Len(s) + 1) /\ Len(s) \in Nat
        /\ \A i \in 1..Len(s) : t[i] = s[i]
        /\ t[Len(s) + 1] = x
    BY <1>1
  <1>3. I(t) = I(s)
    BY <1>2
  <1>4. {t[i].ports : i \in I(t)} = {s[i].ports : i \in I(s)}
    BY <1>2, <1>3
  <1> QED
    BY <1>4 DEF CollectInboundPorts

\* The sidecar found in an injected pod is the one the webhook has built.
LEMMA SidecarFound ==
    ASSUME NEW spec \in Specs, NEW x, x.name = "sidecar", NEW pod,
           pod.containers = Append(spec.containers, x)
    PROVE  Meshed(pod) /\ Sidecar(pod) = x
  <1> DEFINE n == Len(spec.containers) + 1
  <1>1. spec.containers \in Seq(OwnContainer)
    BY Own
  <1>2. /\ DOMAIN pod.containers = 1..n /\ n \in 1..n /\ pod.containers[n] = x
        /\ \A i \in 1..n : i # n => pod.containers[i] = spec.containers[i]
        /\ DOMAIN spec.containers = 1..(n - 1) /\ n - 1 \in Nat
    BY <1>1
  <1>3. \A i \in DOMAIN pod.containers : pod.containers[i].name = "sidecar" <=> i = n
    BY <1>2, Own DEF Has
  <1>4. Meshed(pod)
    BY <1>2 DEF Meshed, Has
  <1>5. (CHOOSE j \in DOMAIN pod.containers : pod.containers[j].name = "sidecar") = n
    BY <1>2, <1>3
  <1> QED
    BY <1>2, <1>4, <1>5 DEF Sidecar

\* What admission changes in a pod that has not opted out.
LEMMA Patched ==
    ASSUME NEW pod, DOMAIN pod = PodFields, ~Skipped(pod), NEW hook,
           NEW ports, ports = CollectInboundPorts(pod.containers),
           NEW account, account = Given(pod.account, DeriveServiceAccountName(pod)),
           NEW new, new = BuildPatch(hook, pod)
    PROVE  /\ DOMAIN new = PodFields
           /\ new.account = account
           /\ new.volumes = pod.volumes \union {"mesh-ca"}
           /\ new.init = AddFirst(BuildIptablesContainer(hook, ports), pod.init)
           /\ new.containers = AddLast(
                  BuildSidecarContainer(hook, account, DeriveAppTargetAddr(ports)), pod.containers)
           /\ new.service = pod.service /\ new.optOut = pod.optOut /\ new.done = pod.done
           /\ new.rules = pod.rules /\ new.up = pod.up /\ new.cert = pod.cert
  <1>1. new = [pod EXCEPT
            !.account = account,
            !.scrape = Annotated(hook),
            !.volumes = MeshVolumes(@),
            !.init = AddFirst(BuildIptablesContainer(hook, ports), @),
            !.containers =
                AddLast(BuildSidecarContainer(hook, account, DeriveAppTargetAddr(ports)), @)]
    BY DEF BuildPatch
  <1> QED
    BY <1>1 DEF PodFields, MeshVolumes

\* The same of an injected pod: it has all that would be added.
LEMMA ReadmittedSame ==
    ASSUME NEW spec \in Specs, NEW file \in Files, NEW pod, Injected(pod, spec, file),
           DOMAIN pod = PodFields, NEW hook, NEW new, new = BuildPatch(hook, pod)
    PROVE  /\ Immutable(new) = Immutable(pod)
           /\ DOMAIN new = PodFields
           /\ new.service = pod.service /\ new.optOut = pod.optOut /\ new.done = pod.done
           /\ new.rules = pod.rules /\ new.up = pod.up /\ new.cert = pod.cert
  <1> DEFINE h == HookConfig(file)
             ports == CollectInboundPorts(spec.containers)
             iptables == BuildIptablesContainer(h, ports)
             sidecar == BuildSidecarContainer(h, AccountFor(spec), DeriveAppTargetAddr(ports))
  <1>1. /\ pod.account = AccountFor(spec) /\ ~pod.optOut
        /\ pod.init = <<iptables>> \o spec.init
        /\ pod.containers = Append(spec.containers, sidecar)
        /\ pod.volumes = {"mesh-ca"}
    BY DEF Injected
  <1>2. Has(pod.containers, "sidecar")
    BY <1>1, SidecarFound DEF BuildSidecarContainer, Meshed
  <1>3. Has(pod.init, "iptables-init")
    <2>1. spec.init \in Seq(OwnContainer) /\ iptables.name = "iptables-init"
      BY Own DEF BuildIptablesContainer
    <2> HIDE DEF iptables
    <2>2. 1 \in DOMAIN pod.init /\ pod.init[1] = iptables
      BY <1>1, <2>1
    <2> QED
      BY <2>1, <2>2 DEF Has
  <1>4. Given(pod.account, DeriveServiceAccountName(pod)) = pod.account
    BY <1>1, EnrolmentAssumption DEF Given, AccountFor, DeriveServiceAccountName
  <1>5. /\ AddFirst(BuildIptablesContainer(hook, CollectInboundPorts(pod.containers)), pod.init)
              = pod.init
        /\ \A x : x.name = "sidecar" => AddLast(x, pod.containers) = pod.containers
    BY <1>2, <1>3 DEF AddFirst, AddLast, BuildIptablesContainer
  <1>6. \A a, t : BuildSidecarContainer(hook, a, t).name = "sidecar"
    BY DEF BuildSidecarContainer
  <1>7. ~Skipped(pod)
    BY <1>1 DEF Skipped
  <1>8. /\ DOMAIN new = PodFields
        /\ new.account = pod.account
        /\ new.volumes = pod.volumes \union {"mesh-ca"}
        /\ new.init = pod.init
        /\ new.containers = pod.containers
        /\ new.service = pod.service /\ new.optOut = pod.optOut /\ new.done = pod.done
        /\ new.rules = pod.rules /\ new.up = pod.up /\ new.cert = pod.cert
    BY <1>4, <1>5, <1>6, <1>7, Patched
  <1> QED
    BY <1>1, <1>8 DEF Immutable

\* The first admission makes an injected pod of what the owner wrote.
LEMMA FirstAdmission ==
    ASSUME NEW spec \in Specs, ~spec.optOut, NEW file \in Files,
           NEW new, new = BuildPatch(HookConfig(file), Fresh(spec))
    PROVE  DOMAIN new = PodFields /\ new.up = FALSE /\ Injected(new, spec, file)
  <1> DEFINE h == HookConfig(file)
             pod == Fresh(spec)
             ports == CollectInboundPorts(spec.containers)
             iptables == BuildIptablesContainer(h, ports)
             sidecar == BuildSidecarContainer(h, AccountFor(spec), DeriveAppTargetAddr(ports))
  <1>1. /\ DOMAIN pod = PodFields /\ pod.service = spec.service /\ pod.account = spec.account
        /\ pod.optOut = spec.optOut /\ pod.init = spec.init
        /\ pod.containers = spec.containers /\ pod.volumes = {}
        /\ pod.done = 0 /\ pod.rules = Unset /\ pod.up = FALSE /\ pod.cert = Unset
    BY DEF Fresh, PodFields
  <1> HIDE DEF pod
  <1>2. Given(pod.account, DeriveServiceAccountName(pod)) = AccountFor(spec)
    BY <1>1 DEF AccountFor, DeriveServiceAccountName
  <1>3. ~Skipped(pod)
    BY <1>1 DEF Skipped
  <1>4. new = BuildPatch(h, pod)
    BY DEF pod
  <1>5. /\ DOMAIN new = PodFields
        /\ new.account = AccountFor(spec)
        /\ new.volumes = pod.volumes \union {"mesh-ca"}
        /\ new.init = AddFirst(iptables, pod.init)
        /\ new.containers = AddLast(sidecar, pod.containers)
        /\ new.service = pod.service /\ new.optOut = pod.optOut /\ new.done = pod.done
        /\ new.rules = pod.rules /\ new.up = pod.up /\ new.cert = pod.cert
    BY <1>1, <1>2, <1>3, <1>4, Patched
  <1>6. new.init = <<iptables>> \o spec.init
    BY <1>1, <1>5, Own DEF AddFirst, BuildIptablesContainer
  <1>7. new.containers = Append(spec.containers, sidecar)
    BY <1>1, <1>5, Own DEF AddLast, BuildSidecarContainer
  <1>8. Len(spec.init) \in Nat
    BY Own
  <1>9. new.volumes = {"mesh-ca"}
    BY <1>1, <1>5
  <1> QED
    BY <1>1, <1>5, <1>6, <1>7, <1>8, <1>9 DEF Injected

-----------------------------------------------------------------------------
(* The inductive invariant *)

\* A step of one pod keeps the invariant if it keeps that of the pod.
LEMMA OnePod ==
    ASSUME IInv, NEW p \in Pods, NEW new, pods' = [pods EXCEPT ![p] = new],
           new # Unset => PodInv(new), UNCHANGED <<mesh, copied>>
    PROVE  IInv'
  BY DEF IInv, Installed, Exists

\* Creation, with a webhook, past it or without a mesh.
LEMMA CreateKeeps ==
    ASSUME IInv, NEW p \in Pods, CreatePod(p)
    PROVE  IInv'
  <1>1. PICK spec \in Specs : pods' = [pods EXCEPT ![p] = Admitted(Fresh(spec))]
    BY DEF CreatePod
  <1> DEFINE pod == Fresh(spec)
  <1>2. DOMAIN pod = PodFields /\ pod.up = FALSE /\ Native(pod, spec) /\ pod.optOut = spec.optOut
    BY Own DEF Fresh, PodFields, Native
  <1>3. spec.optOut \in BOOLEAN
    BY EnrolmentAssumption
  <1> HIDE DEF pod
  <1>4. PodInv(Admitted(pod))
    <2>1. CASE ~Installed \/ spec.optOut
      <3>1. Admitted(pod) = pod
        BY <1>2, <2>1 DEF Admitted, BuildPatch, Skipped
      <3> QED
        BY <1>2, <3>1 DEF PodInv
    <2>2. CASE Installed /\ ~spec.optOut
      <3>1. mesh.file \in Files /\ Installable(mesh.file)
        BY <2>2 DEF IInv
      <3>2. Admitted(pod) = BuildPatch(HookConfig(mesh.file), Fresh(spec))
        BY <2>2 DEF Admitted, Hook, pod
      <3> QED
        BY <2>2, <3>1, <3>2, FirstAdmission DEF PodInv
    <2> QED
      BY <1>3, <2>1, <2>2
  <1> QED
    BY <1>1, <1>4, OnePod DEF CreatePod, pod

\* An update gives a pod of the mesh nothing new, and no other pod a sidecar.
LEMMA UpdateKeeps ==
    ASSUME IInv, NEW p \in Pods, UpdatePod(p)
    PROVE  IInv'
  <1> DEFINE pod == pods[p]
             new == Admitted(pod)
  <1>1. /\ PodInv(pod) /\ Immutable(new) = Immutable(pod)
        /\ pods' = [pods EXCEPT ![p] = new] /\ UNCHANGED <<mesh, copied>>
    BY DEF IInv, UpdatePod
  <1> HIDE DEF pod
  <1>2. CASE new = pod
    BY <1>1, <1>2, OnePod
  <1>3. CASE new # pod
    <2>1. Installed /\ ~Skipped(pod) /\ new = BuildPatch(Hook, pod)
      BY <1>3 DEF Admitted, BuildPatch
    <2>2. PICK spec \in Specs :
               \/ Native(pod, spec)
               \/ \E file \in Files : Installable(file) /\ Injected(pod, spec, file)
      BY <1>1 DEF PodInv
    <2>3. ~Native(pod, spec)
      <3> SUFFICES ASSUME Native(pod, spec)
                   PROVE  FALSE
        OBVIOUS
      <3> DEFINE ports == CollectInboundPorts(pod.containers)
                 account == Given(pod.account, DeriveServiceAccountName(pod))
                 sidecar == BuildSidecarContainer(Hook, account, DeriveAppTargetAddr(ports))
      <3>1. new.containers = AddLast(sidecar, pod.containers)
        BY <1>1, <2>1, Patched DEF PodInv
      <3>2. pod.containers \in Seq(OwnContainer) /\ ~Has(pod.containers, "sidecar")
        BY Own DEF Native
      <3>3. sidecar.name = "sidecar"
        BY DEF BuildSidecarContainer
      <3> HIDE DEF sidecar
      <3>4. new.containers = Append(pod.containers, sidecar)
        BY <3>1, <3>2, <3>3 DEF AddLast
      <3>5. new.containers = pod.containers
        BY <1>1 DEF Immutable
      <3>6. Len(Append(pod.containers, sidecar)) = Len(pod.containers) + 1
            /\ Len(pod.containers) \in Nat
        BY <3>2
      <3> QED
        BY <3>4, <3>5, <3>6
    <2>4. PICK file \in Files : Installable(file) /\ Injected(pod, spec, file)
      BY <2>2, <2>3
    <2> HIDE DEF new
    <2>5. /\ DOMAIN new = PodFields /\ Immutable(new) = Immutable(pod)
          /\ new.service = pod.service /\ new.optOut = pod.optOut /\ new.done = pod.done
          /\ new.rules = pod.rules /\ new.up = pod.up /\ new.cert = pod.cert
      BY <1>1, <2>1, <2>4, ReadmittedSame DEF PodInv
    <2>6. Injected(new, spec, file)
      BY <2>4, <2>5 DEF Injected, Immutable
    <2>7. PodInv(new)
      BY <1>1, <2>4, <2>5, <2>6 DEF PodInv
    <2> QED
      BY <1>1, <2>7, OnePod
  <1> QED
    BY <1>2, <1>3

\* The container that runs next: that of the mesh first, then the owner's.
LEMMA NextInit ==
    ASSUME NEW spec \in Specs, NEW file \in Files, NEW pod, Injected(pod, spec, file),
           NEW iptables,
           iptables = BuildIptablesContainer(HookConfig(file), CollectInboundPorts(spec.containers))
    PROVE  /\ Len(pod.init) = 1 + Len(spec.init) /\ Len(spec.init) \in Nat
           /\ pod.init[1] = iptables /\ iptables.name = "iptables-init"
           /\ \A i \in 1..Len(pod.init) : i > 1 => pod.init[i].name # "iptables-init"
  <1>1. /\ pod.init = <<iptables>> \o spec.init
        /\ spec.init \in Seq(OwnContainer) /\ ~Has(spec.init, "iptables-init")
    BY Own DEF Injected
  <1>2. iptables.name = "iptables-init"
    BY DEF BuildIptablesContainer
  <1>3. /\ Len(pod.init) = 1 + Len(spec.init) /\ Len(spec.init) \in Nat
        /\ pod.init[1] = iptables
        /\ \A i \in 1..Len(pod.init) : i > 1 =>
               i - 1 \in DOMAIN spec.init /\ pod.init[i] = spec.init[i - 1]
    BY <1>1
  <1> QED
    BY <1>1, <1>2, <1>3 DEF Has

\* Init containers: the first one of an injected pod sets the rules for good.
LEMMA RunInitKeeps ==
    ASSUME IInv, NEW p \in Pods, RunInit(p)
    PROVE  IInv'
  <1> DEFINE pod == pods[p]
             container == pod.init[pod.done + 1]
             Advanced(rules) == [pod EXCEPT !.done = @ + 1, !.rules = rules]
  <1>1. /\ PodInv(pod) /\ pod.done < Len(pod.init) /\ UNCHANGED <<mesh, copied>>
        /\ \/ /\ container.name = "iptables-init" /\ RulesApply(container.env)
              /\ pods' = [pods EXCEPT ![p] = Advanced(container.env)]
           \/ /\ container.name # "iptables-init"
              /\ pods' = [pods EXCEPT ![p] = Advanced(pod.rules)]
    BY DEF IInv, RunInit
  <1> HIDE DEF pod
  <1>2. ASSUME NEW rules
        PROVE  /\ DOMAIN Advanced(rules) = PodFields
               /\ Advanced(rules).done = pod.done + 1 /\ Advanced(rules).rules = rules
               /\ \A x \in PodFields \ {"done", "rules"} : Advanced(rules)[x] = pod[x]
    BY <1>1 DEF PodInv, PodFields
  <1> HIDE DEF Advanced
  <1>3. ASSUME NEW rules
        PROVE  /\ Advanced(rules).service = pod.service /\ Advanced(rules).account = pod.account
               /\ Advanced(rules).optOut = pod.optOut /\ Advanced(rules).init = pod.init
               /\ Advanced(rules).containers = pod.containers
               /\ Advanced(rules).volumes = pod.volumes
               /\ Advanced(rules).up = pod.up /\ Advanced(rules).cert = pod.cert
    BY <1>2 DEF PodFields
  <1>4. PICK spec \in Specs :
             \/ Native(pod, spec)
             \/ \E file \in Files : Installable(file) /\ Injected(pod, spec, file)
    BY <1>1 DEF PodInv
  <1>5. CASE Native(pod, spec)
    <2>1. /\ pod.init = spec.init /\ spec.init \in Seq(OwnContainer)
          /\ ~Has(spec.init, "iptables-init") /\ pod.done \in 0..Len(spec.init)
      BY <1>5, Own DEF Native
    <2>2. pod.done + 1 \in DOMAIN pod.init /\ pod.done + 1 \in 0..Len(spec.init)
      BY <1>1, <2>1
    <2>3. container.name # "iptables-init"
      BY <2>1, <2>2 DEF Has
    <2>4. Native(Advanced(pod.rules), spec)
      BY <1>2, <1>3, <1>5, <2>2 DEF Native
    <2>5. PodInv(Advanced(pod.rules))
      BY <1>1, <1>2, <1>3, <2>4 DEF PodInv
    <2> QED
      BY <1>1, <2>3, <2>5, OnePod
  <1>6. ASSUME NEW file \in Files, Installable(file), Injected(pod, spec, file)
        PROVE  IInv'
    <2> DEFINE ports == CollectInboundPorts(spec.containers)
               iptables == BuildIptablesContainer(HookConfig(file), ports)
    <2>1. /\ Len(pod.init) = 1 + Len(spec.init) /\ Len(spec.init) \in Nat
          /\ pod.init[1] = iptables /\ iptables.name = "iptables-init"
          /\ \A i \in 1..Len(pod.init) : i > 1 => pod.init[i].name # "iptables-init"
      BY <1>6, NextInit
    <2>2. pod.done \in 0..(1 + Len(spec.init)) /\ ~pod.up
      BY <1>1, <1>6, <2>1 DEF Injected
    <2>3. pod.done + 1 \in 1..(1 + Len(spec.init))
      BY <1>1, <2>1, <2>2
    <2>4. CASE pod.done = 0
      <3>1. container = iptables
        BY <2>1, <2>4
      <3>2. pods' = [pods EXCEPT ![p] = Advanced(iptables.env)] /\ RulesApply(iptables.env)
        BY <1>1, <2>1, <3>1
      <3>3. iptables.env.inbound = ports
        BY DEF BuildIptablesContainer
      <3>4. ports # {}
        BY <3>2, <3>3 DEF RulesApply
      <3> HIDE DEF ports
      <3>5. Injected(Advanced(iptables.env), spec, file)
        BY <1>2, <1>3, <1>6, <2>2, <2>3, <2>4, <3>4 DEF Injected, ports
      <3>6. PodInv(Advanced(iptables.env))
        BY <1>1, <1>2, <1>3, <1>6, <3>5 DEF PodInv
      <3> QED
        BY <1>1, <3>2, <3>6, OnePod
    <2>5. CASE pod.done > 0
      <3>1. container.name # "iptables-init"
        <4>1. pod.done + 1 \in 1..Len(pod.init) /\ pod.done + 1 > 1
          BY <2>1, <2>2, <2>3, <2>5
        <4> QED
          BY <2>1, <4>1
      <3>2. Injected(Advanced(pod.rules), spec, file)
        BY <1>2, <1>3, <1>6, <2>2, <2>3, <2>5 DEF Injected
      <3>3. PodInv(Advanced(pod.rules))
        BY <1>1, <1>2, <1>3, <1>6, <3>2 DEF PodInv
      <3> QED
        BY <1>1, <3>1, <3>3, OnePod
    <2> QED
      BY <2>2, <2>4, <2>5
  <1> QED
    BY <1>4, <1>5, <1>6

\* The start of a sidecar, with the certificate of its account.
LEMMA StartKeeps ==
    ASSUME IInv, NEW p \in Pods, StartSidecar(p)
    PROVE  IInv'
  <1> DEFINE pod == pods[p]
             Started(cert) == [pod EXCEPT !.up = TRUE, !.cert = cert]
  <1>1. /\ PodInv(pod) /\ Meshed(pod) /\ ~pod.up /\ pod.done = Len(pod.init)
        /\ UNCHANGED <<mesh, copied>>
    BY DEF IInv, StartSidecar
  <1>2. PICK cert \in Certificates \union {Unset} :
               /\ BootstrapTLSConfig(pod, cert)
               /\ pods' = [pods EXCEPT ![p].up = TRUE, ![p].cert = cert]
    BY DEF StartSidecar
  <1>3. pods' = [pods EXCEPT ![p] = Started(cert)]
    BY <1>2 DEF IInv
  <1> HIDE DEF pod
  <1>4. /\ DOMAIN Started(cert) = PodFields
        /\ Started(cert).up = TRUE /\ Started(cert).cert = cert
        /\ Started(cert).service = pod.service /\ Started(cert).account = pod.account
        /\ Started(cert).optOut = pod.optOut /\ Started(cert).init = pod.init
        /\ Started(cert).containers = pod.containers /\ Started(cert).volumes = pod.volumes
        /\ Started(cert).done = pod.done /\ Started(cert).rules = pod.rules
    BY <1>1 DEF PodInv, PodFields
  <1> HIDE DEF Started
  <1>5. PICK spec \in Specs :
             \/ Native(pod, spec)
             \/ \E file \in Files : Installable(file) /\ Injected(pod, spec, file)
    BY <1>1 DEF PodInv
  <1>6. ~Native(pod, spec)
    BY <1>1, Own DEF Native, Meshed
  <1>7. PICK file \in Files : Installable(file) /\ Injected(pod, spec, file)
    BY <1>5, <1>6
  <1> DEFINE hook == HookConfig(file)
             ports == CollectInboundPorts(spec.containers)
             sidecar == BuildSidecarContainer(hook, AccountFor(spec), DeriveAppTargetAddr(ports))
  <1>8. Sidecar(pod) = sidecar
    BY <1>7, SidecarFound DEF Injected, BuildSidecarContainer
  <1>9. sidecar.env.mtlsPort \in Nat
    <2>1. sidecar.env = SidecarEnv(hook)
      BY DEF BuildSidecarContainer
    <2>2. hook.mtlsPort \in Nat
      BY <1>7, HookSettings
    <2>3. SidecarEnv(hook).mtlsPort = hook.mtlsPort
      BY <1>7, SidecarSettings
    <2> QED
      BY <2>1, <2>2, <2>3
  <1>10. pod.account = AccountFor(spec)
    BY <1>7 DEF Injected
  <1>11. /\ cert # Unset <=> sidecar.env.mtlsPort > 0
         /\ cert # Unset => cert \in Certificates /\ cert.name = pod.account
    <2>1. CASE sidecar.env.mtlsPort = 0
      BY <1>2, <1>8, <2>1 DEF BootstrapTLSConfig
    <2>2. CASE sidecar.env.mtlsPort > 0
      <3>1. Installed /\ cert = Sign(pod)
        BY <1>2, <1>8, <1>9, <2>2 DEF BootstrapTLSConfig, Issued, ServeHTTP
      <3>2. cert = [root |-> mesh.root, name |-> pod.account]
        BY <3>1 DEF Sign, SignCSR, Identity
      <3>3. mesh.root \in Roots
        BY <3>1 DEF IInv
      <3>4. pod.account \in {spec.service, spec.account, "default"}
        BY <1>10 DEF AccountFor, Given, DeriveServiceAccountName
      <3>5. cert \in Certificates
        BY <3>2, <3>3, <3>4 DEF Certificates
      <3> QED
        BY <2>2, <3>2, <3>5, EnrolmentAssumption
    <2> QED
      BY <1>9, <2>1, <2>2
  <1>12. pod.done = 1 + Len(spec.init)
    BY <1>1, <1>7, NextInit
  <1> HIDE DEF sidecar
  <1>13. Injected(Started(cert), spec, file)
    BY <1>4, <1>7, <1>11, <1>12 DEF Injected, sidecar
  <1>14. PodInv(Started(cert))
    BY <1>4, <1>7, <1>13 DEF PodInv
  <1> QED
    BY <1>1, <1>3, <1>14, OnePod

\* Restarts of the sidecar and of the pod.
LEMMA RestartKeeps ==
    ASSUME IInv, NEW p \in Pods, Restart(p)
    PROVE  IInv'
  <1> DEFINE pod == pods[p]
             stopped == [pod EXCEPT !.up = FALSE, !.cert = Unset]
             again == [stopped EXCEPT !.done = 0, !.rules = Unset]
  <1>1. /\ PodInv(pod) /\ UNCHANGED <<mesh, copied>>
        /\ pods' = [pods EXCEPT ![p] = stopped] \/ pods' = [pods EXCEPT ![p] = again]
    BY DEF IInv, Restart
  <1> HIDE DEF pod
  <1>2. /\ DOMAIN stopped = PodFields /\ stopped.up = FALSE /\ stopped.cert = Unset
        /\ stopped.service = pod.service /\ stopped.account = pod.account
        /\ stopped.optOut = pod.optOut /\ stopped.init = pod.init
        /\ stopped.containers = pod.containers /\ stopped.volumes = pod.volumes
        /\ stopped.done = pod.done /\ stopped.rules = pod.rules
    BY <1>1 DEF PodInv, PodFields
  <1> HIDE DEF stopped
  <1>3. /\ DOMAIN again = PodFields /\ again.up = FALSE /\ again.cert = Unset
        /\ again.service = pod.service /\ again.account = pod.account
        /\ again.optOut = pod.optOut /\ again.init = pod.init
        /\ again.containers = pod.containers /\ again.volumes = pod.volumes
        /\ again.done = 0 /\ again.rules = Unset
    BY <1>2 DEF PodFields
  <1> HIDE DEF again
  <1>4. PICK spec \in Specs :
             \/ Native(pod, spec)
             \/ \E file \in Files : Installable(file) /\ Injected(pod, spec, file)
    BY <1>1 DEF PodInv
  <1>5. Len(spec.init) \in Nat
    BY Own
  <1>6. CASE Native(pod, spec)
    <2>1. Native(stopped, spec) /\ Native(again, spec)
      BY <1>2, <1>3, <1>5, <1>6 DEF Native
    <2> QED
      BY <1>1, <1>2, <1>3, <2>1, OnePod DEF PodInv
  <1>7. ASSUME NEW file \in Files, Installable(file), Injected(pod, spec, file)
        PROVE  IInv'
    <2>1. Injected(stopped, spec, file)
      BY <1>2, <1>7 DEF Injected
    <2>2. Injected(again, spec, file)
      BY <1>3, <1>5, <1>7 DEF Injected
    <2>3. PodInv(stopped) /\ PodInv(again)
      BY <1>2, <1>3, <1>7, <2>1, <2>2 DEF PodInv
    <2> QED
      BY <1>1, <2>3, OnePod
  <1> QED
    BY <1>4, <1>6, <1>7

\* The inductive invariant holds initially.
LEMMA InitIInv == Init => IInv
  BY DEF Init, IInv, Installed, Exists

\* Every step keeps the inductive invariant.
LEMMA NextIInv == IInv /\ [Next]_vars => IInv'
  <1> SUFFICES ASSUME IInv, [Next]_vars
               PROVE  IInv'
    OBVIOUS
  <1>1. CASE Install
    BY <1>1 DEF Install, IInv, Installed, Exists
  <1>2. CASE Uninstall
    BY <1>2 DEF Uninstall, IInv, Installed, Exists
  <1>3. CASE CopySecret
    BY <1>3 DEF CopySecret, IInv, Installed, Exists
  <1>4. ASSUME NEW p \in Pods, DeletePod(p)
        PROVE  IInv'
    BY <1>4, OnePod DEF DeletePod
  <1>5. CASE UNCHANGED vars
    BY <1>5 DEF vars, IInv, Installed, Exists
  <1> QED
    BY <1>1, <1>2, <1>3, <1>4, <1>5, CreateKeeps, UpdateKeeps, RunInitKeeps, StartKeeps,
       RestartKeeps DEF Next

-----------------------------------------------------------------------------
(* The theorems. *)

\* The inductive invariant is an invariant of the pods and the meshes.
THEOREM Inductive == Spec => []IInv
  BY InitIInv, NextIInv, PTL DEF Spec

\* What the theorems use of an injected pod that may serve.
LEMMA InjectedFacts ==
    ASSUME NEW spec \in Specs, NEW file \in Files, Installable(file), NEW pod,
           Injected(pod, spec, file), NEW hook, hook = HookConfig(file),
           NEW ports, ports = CollectInboundPorts(spec.containers),
           NEW iptables, iptables = BuildIptablesContainer(hook, ports),
           NEW sidecar,
           sidecar = BuildSidecarContainer(hook, AccountFor(spec), DeriveAppTargetAddr(ports))
    PROVE  /\ Meshed(pod) /\ Sidecar(pod) = sidecar
           /\ CollectInboundPorts(pod.containers) = ports /\ ports \in SUBSET Nat
           /\ sidecar.env = SidecarEnv(hook) /\ sidecar.uid = SidecarUID
           /\ sidecar.account = pod.account /\ sidecar.target = DeriveAppTargetAddr(ports)
           /\ iptables.env \in IptablesEnv /\ iptables.env # Unset
           /\ iptables.env.inbound = ports /\ iptables.env.uid = SidecarUID
           /\ iptables.env.plain = sidecar.env.plain
           /\ iptables.env.outbound = sidecar.env.outbound /\ sidecar.env.outbound \in Nat \ {0}
           /\ sidecar.env.mtlsPort \in Nat /\ (sidecar.env.mtlsPort > 0 => sidecar.env.mtls)
           /\ pod.rules = IF pod.done = 0 THEN Unset ELSE iptables.env
  <1>1. sidecar.name = "sidecar" /\ pod.containers = Append(spec.containers, sidecar)
    BY DEF Injected, BuildSidecarContainer
  <1>2. Meshed(pod) /\ Sidecar(pod) = sidecar
    BY <1>1, SidecarFound
  <1>3. CollectInboundPorts(pod.containers) = ports /\ ports \in SUBSET Nat
    BY <1>1, Collected, Own
  <1>4. /\ sidecar.env = SidecarEnv(hook) /\ sidecar.uid = SidecarUID
        /\ sidecar.account = pod.account /\ sidecar.target = DeriveAppTargetAddr(ports)
        /\ pod.rules = IF pod.done = 0 THEN Unset ELSE iptables.env
    BY DEF Injected, BuildSidecarContainer
  <1>5. /\ hook.plain \in Nat /\ hook.outbound \in Nat \ {0} /\ hook.exclude \in SUBSET Nat
        /\ hook.mtlsPort \in Nat
    BY HookSettings
  <1>6. /\ iptables.env = [inbound |-> ports, plain |-> hook.plain, outbound |-> hook.outbound,
                           exclude |-> hook.exclude, uid |-> SidecarUID]
    BY DEF BuildIptablesContainer
  <1>7. iptables.env \in IptablesEnv
    BY <1>3, <1>5, <1>6 DEF IptablesEnv, SidecarUID
  <1>8. iptables.env # Unset
    BY <1>7, EnrolmentAssumption
  <1>9. /\ SidecarEnv(hook).plain = hook.plain /\ SidecarEnv(hook).outbound = hook.outbound
        /\ SidecarEnv(hook).mtlsPort = hook.mtlsPort /\ SidecarEnv(hook).mtls = hook.mtls
    BY SidecarSettings
  <1>10. hook.mtlsPort > 0 => hook.mtls
    BY HookSettings
  <1> QED
    BY <1>2, <1>3, <1>4, <1>5, <1>6, <1>7, <1>8, <1>9, <1>10

\* Every variable keeps its type: an injected pod that serves has run all its
\* init containers, has the rules of its own mesh and a certificate if it needs one.
THEOREM TypeCorrect == Spec => []TypeOK
  <1>1. IInv => TypeOK
    <2> SUFFICES ASSUME IInv, NEW p \in Pods, Exists(p), NEW pod, pod = pods[p]
                 PROVE  /\ pod.done \in 0..Len(pod.init)
                        /\ pod.up => Meshed(pod) /\ pod.done = Len(pod.init)
                        /\ pod.cert \in Certificates \union {Unset}
                        /\ pod.cert # Unset <=> pod.up /\ Sidecar(pod).env.mtlsPort > 0
                        /\ pod.rules # Unset <=>
                              \E i \in 1..pod.done : pod.init[i].name = "iptables-init"
                        /\ Meshed(pod) =>
                              /\ Has(pod.init, "iptables-init")
                              /\ pod.account = Sidecar(pod).account
                              /\ "mesh-ca" \in pod.volumes
      BY DEF IInv, TypeOK
    <2>1. PICK spec \in Specs :
               \/ Native(pod, spec)
               \/ \E file \in Files : Installable(file) /\ Injected(pod, spec, file)
      BY DEF IInv, PodInv
    <2>2. CASE Native(pod, spec)
      <3>1. /\ spec.init \in Seq(OwnContainer) /\ ~Has(spec.init, "iptables-init")
            /\ ~Meshed(pod) /\ pod.done \in 0..Len(spec.init)
        BY <2>2, Own DEF Native, Meshed
      <3>2. \A i \in 1..pod.done : pod.init[i].name # "iptables-init"
        BY <2>2, <3>1 DEF Native, Has
      <3> QED
        BY <2>2, <3>1, <3>2 DEF Native
    <2>3. ASSUME NEW file \in Files, Installable(file), Injected(pod, spec, file)
          PROVE  /\ pod.done \in 0..Len(pod.init)
                 /\ pod.up => Meshed(pod) /\ pod.done = Len(pod.init)
                 /\ pod.cert \in Certificates \union {Unset}
                 /\ pod.cert # Unset <=> pod.up /\ Sidecar(pod).env.mtlsPort > 0
                 /\ pod.rules # Unset <=>
                       \E i \in 1..pod.done : pod.init[i].name = "iptables-init"
                 /\ Meshed(pod) =>
                       /\ Has(pod.init, "iptables-init")
                       /\ pod.account = Sidecar(pod).account
                       /\ "mesh-ca" \in pod.volumes
      <3> DEFINE hook == HookConfig(file)
                 ports == CollectInboundPorts(spec.containers)
                 iptables == BuildIptablesContainer(hook, ports)
                 sidecar == BuildSidecarContainer(hook, AccountFor(spec),
                                                  DeriveAppTargetAddr(ports))
      <3>1. /\ Len(pod.init) = 1 + Len(spec.init) /\ Len(spec.init) \in Nat
            /\ pod.init[1] = iptables /\ iptables.name = "iptables-init"
        BY <2>3, NextInit
      <3>8. pod.init = <<iptables>> \o spec.init /\ spec.init \in Seq(OwnContainer)
        BY <2>3, Own DEF Injected
      <3>2. /\ Meshed(pod) /\ Sidecar(pod) = sidecar /\ sidecar.account = pod.account
            /\ iptables.env # Unset
            /\ pod.rules = IF pod.done = 0 THEN Unset ELSE iptables.env
        BY <2>3, InjectedFacts
      <3>3. /\ pod.done \in 0..(1 + Len(spec.init))
            /\ pod.up => pod.done = 1 + Len(spec.init)
            /\ pod.cert # Unset <=> pod.up /\ sidecar.env.mtlsPort > 0
            /\ pod.cert # Unset => pod.cert \in Certificates
            /\ pod.volumes = {"mesh-ca"}
        BY <2>3 DEF Injected
      <3> HIDE DEF iptables, sidecar
      <3>4. 1 \in DOMAIN pod.init
        BY <3>1, <3>8
      <3>5. pod.done > 0 <=> \E i \in 1..pod.done : pod.init[i].name = "iptables-init"
        <4>1. CASE pod.done = 0
          BY <4>1
        <4>2. CASE pod.done > 0
          <5>1. 1 \in 1..pod.done
            BY <3>1, <3>3, <4>2
          <5> QED
            BY <3>1, <4>2, <5>1
        <4> QED
          BY <3>1, <3>3, <4>1, <4>2
      <3>6. Has(pod.init, "iptables-init")
        BY <3>1, <3>4 DEF Has
      <3>7. pod.rules # Unset <=> pod.done > 0
        BY <3>1, <3>2, <3>3
      <3> QED
        BY <3>1, <3>2, <3>3, <3>5, <3>6, <3>7
    <2> QED
      BY <2>1, <2>2, <2>3
  <1> QED
    BY <1>1, Inductive, PTL

\* Whatever mesh admitted a pod first and whatever mesh is installed now, an
\* update of an injected pod is never refused.
THEOREM NeverRefused == Spec => []InjectedPodsUpdatable
  <1>1. IInv => InjectedPodsUpdatable
    <2> SUFFICES ASSUME IInv, NEW p \in Pods, Exists(p), Meshed(pods[p])
                 PROVE  Immutable(Admitted(pods[p])) = Immutable(pods[p])
      BY DEF InjectedPodsUpdatable
    <2>1. PodInv(pods[p])
      BY DEF IInv
    <2>2. PICK spec \in Specs :
               \/ Native(pods[p], spec)
               \/ \E file \in Files : Installable(file) /\ Injected(pods[p], spec, file)
      BY <2>1 DEF PodInv
    <2>3. ~Native(pods[p], spec)
      BY Own DEF Native, Meshed
    <2>4. PICK file \in Files : Injected(pods[p], spec, file)
      BY <2>2, <2>3
    <2>5. CASE Installed
      BY <2>1, <2>4, <2>5, ReadmittedSame DEF Admitted, PodInv
    <2>6. CASE ~Installed
      BY <2>6 DEF Admitted
    <2> QED
      BY <2>5, <2>6
  <1> QED
    BY <1>1, Inductive, PTL

\* Of the files that mesh install lets through, the webhook and the sidecars refuse
\* exactly those that WebhookTakes and SidecarsTake leave out, whatever the numbers and
\* durations in them.
THEOREM RefusalsKnown == Spec => []RefusalsExplained
  <1>1. IInv => RefusalsExplained
    <2> SUFFICES ASSUME IInv, Installed
                 PROVE  /\ Serves(Hook) <=> WebhookTakes(mesh.file)
                        /\ Serves(Hook) =>
                              (Starts(SidecarEnv(Hook)) <=> SidecarsTake(mesh.file))
      BY DEF RefusalsExplained
    <2>1. mesh.file \in Files /\ Installable(mesh.file) /\ Hook = HookConfig(mesh.file)
      BY DEF IInv, Hook
    <2> QED
      BY <2>1, WebhookRefusals, SidecarRefusals
  <1> QED
    BY <1>1, Inductive, PTL

\* Two serving pods of one configuration and one root reach each other exactly if
\* they use no TLS or the account of the called one has the name of its service.
THEOREM PeersConnect == Spec => []PeersReachEachOther
  <1>1. IInv => PeersReachEachOther
    <2> SUFFICES ASSUME IInv, NEW c \in Pods, NEW s \in Pods, NEW ports,
                        ports = CollectInboundPorts(pods[s].containers),
                        Serving(c), Serving(s),
                        Sidecar(pods[c]).env = Sidecar(pods[s]).env,
                        pods[c].cert # Unset => pods[c].cert.root = pods[s].cert.root,
                        ports \intersect PortsOf(Sidecar(pods[s]).env) = {}
                 PROVE  Delivers(c, s) =
                            IF pods[s].account = pods[s].service \/ pods[c].cert = Unset
                            THEN Min(ports) ELSE 0
      BY DEF PeersReachEachOther
    <2> DEFINE env == Sidecar(pods[s]).env
               secure == env.mtlsPort > 0
    <2>1. ASSUME NEW p \in Pods, Serving(p)
          PROVE  \E rules \in IptablesEnv :
                    LET e == Sidecar(pods[p]).env
                        own == CollectInboundPorts(pods[p].containers)
                    IN  /\ pods[p].rules = rules /\ rules # Unset /\ rules.uid = SidecarUID
                        /\ rules.inbound = own /\ own # {}
                        /\ Sidecar(pods[p]).uid = SidecarUID
                        /\ Sidecar(pods[p]).target = DeriveAppTargetAddr(own)
                        /\ rules.plain = e.plain /\ rules.outbound = e.outbound
                        /\ e.outbound \in Nat \ {0} /\ e.mtlsPort \in Nat
                        /\ e.mtlsPort > 0 => e.mtls
                        /\ pods[p].cert # Unset <=> e.mtlsPort > 0
                        /\ pods[p].cert # Unset => pods[p].cert.name = pods[p].account
      <3>1. PodInv(pods[p]) /\ pods[p].up
        BY <2>1 DEF IInv, Serving
      <3>2. PICK spec \in Specs :
                 \/ Native(pods[p], spec)
                 \/ \E file \in Files : Installable(file) /\ Injected(pods[p], spec, file)
        BY <3>1 DEF PodInv
      <3>3. PICK file \in Files : Installable(file) /\ Injected(pods[p], spec, file)
        BY <3>1, <3>2 DEF Native
      <3> DEFINE pod == pods[p]
                 hook == HookConfig(file)
                 own == CollectInboundPorts(spec.containers)
                 iptables == BuildIptablesContainer(hook, own)
                 sidecar == BuildSidecarContainer(hook, AccountFor(spec),
                                                  DeriveAppTargetAddr(own))
      <3>4. /\ Sidecar(pod) = sidecar
            /\ CollectInboundPorts(pod.containers) = own
            /\ sidecar.uid = SidecarUID /\ sidecar.target = DeriveAppTargetAddr(own)
            /\ iptables.env \in IptablesEnv /\ iptables.env # Unset
            /\ iptables.env.inbound = own /\ iptables.env.uid = SidecarUID
            /\ iptables.env.plain = sidecar.env.plain
            /\ iptables.env.outbound = sidecar.env.outbound
            /\ sidecar.env.outbound \in Nat \ {0}
            /\ sidecar.env.mtlsPort \in Nat /\ (sidecar.env.mtlsPort > 0 => sidecar.env.mtls)
            /\ pod.rules = IF pod.done = 0 THEN Unset ELSE iptables.env
        BY <3>3, InjectedFacts
      <3>5. /\ pod.done = 1 + Len(spec.init) /\ Len(spec.init) \in Nat
            /\ pod.done > 0 => own # {}
            /\ pod.cert # Unset <=> sidecar.env.mtlsPort > 0
            /\ pod.cert # Unset => pod.cert.name = pod.account
        BY <3>1, <3>3, Own DEF Injected
      <3> HIDE DEF iptables, sidecar, own, pod
      <3>6. pod.done > 0 /\ own # {} /\ pod.rules = iptables.env
        BY <3>4, <3>5
      <3> QED
        BY <3>4, <3>5, <3>6 DEF pod
    <2> DEFINE from == Sidecar(pods[c])
               expected == IF secure THEN env.mtlsPort ELSE env.plain
    <2>2. /\ Outbound(pods[c].rules, 0) = from.env.outbound
          /\ Unhindered(pods[c])
          /\ pods[c].cert # Unset <=> secure
      BY <2>1 DEF Outbound, Unhindered, SidecarUID
    <2>3. /\ Sidecar(pods[s]).target = Min(ports)
          /\ pods[s].rules.inbound = ports
          /\ secure => env.mtls
          /\ secure => pods[s].cert.name = pods[s].account
      BY <2>1 DEF DeriveAppTargetAddr
    <2>4. expected \in PortsOf(env)
      BY DEF PortsOf
    <2>5. Inbound(pods[s].rules, expected) = expected
      BY <2>3, <2>4 DEF Inbound
    <2>6. CASE ~secure
      BY <2>2, <2>3, <2>5, <2>6 DEF Delivers
    <2>7. CASE secure
      <3>1. Handshake(c, s) <=> pods[s].account = pods[s].service
        BY <2>2, <2>3, <2>7 DEF Handshake
      <3> QED
        BY <2>2, <2>3, <2>5, <2>7, <3>1 DEF Delivers
    <2> QED
      BY <2>6, <2>7
  <1> QED
    BY <1>1, Inductive, PTL
=============================================================================
