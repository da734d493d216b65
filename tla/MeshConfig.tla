---------------------------- MODULE MeshConfig ----------------------------
(***************************************************************************)
(* The way of the settings from the file given to mesh install to the      *)
(* sidecar of a pod: defaults and validation of the file (meshconfig.go),  *)
(* environment and configuration of the webhook (hook/config.go), and      *)
(* environment and configuration of the sidecar (sidecar/config.go).  Each *)
(* hop has its own defaults and its own validation.                        *)
(***************************************************************************)
EXTENDS Integers, FiniteSets

CONSTANTS Unset,     \* nothing: a setting left out, an object that is not there
          Malformed  \* a text that is no duration, which no YAML parser rejects

Given(value, default) == IF value = Unset THEN default ELSE value

-----------------------------------------------------------------------------
(* mesh install *)

\* Mutual TLS is on unless its own setting says otherwise or, when that is left
\* out, its port is below zero; the port follows.
Encrypts(file) == IF file.mtls = Unset THEN file.mtlsPort >= 0 ELSE file.mtls
MTLSPort(file) ==
    IF ~Encrypts(file) THEN 0 ELSE IF file.mtlsPort = 0 THEN 15001 ELSE file.mtlsPort

\* ApplyDefaults.  A number left out reads as 0, and 0 as left out.
WithDefaults(file) ==
    [file EXCEPT !.mtls = Encrypts(file),
                 !.mtlsPort = MTLSPort(file),
                 !.metrics = IF @ = 0 THEN 9090 ELSE @,
                 !.exclude = Given(@, {9090}),
                 !.algorithm = Given(@, "roundRobin"),
                 !.timeout = Given(@, 5),
                 !.attempts = IF @ = 0 THEN 3 ELSE @,
                 !.threshold = IF @ = 0 THEN 5 ELSE @,
                 !.recovery = Given(@, 30)]

\* Validate: only three ports are looked at, and these only for their sign.
Installable(file) ==
    LET cfg == WithDefaults(file)
    IN  /\ cfg.plain > 0
        /\ cfg.outbound > 0
        /\ cfg.mtlsPort >= 0
        /\ cfg.mtls => cfg.mtlsPort > 0

-----------------------------------------------------------------------------
(* The webhook *)

EnvReadsZero(value, fallback) ==
    IF value = Unset THEN fallback ELSE IF value = Malformed THEN 0 ELSE value
\* The env functions of the webhook: what does not parse gives way to the default.
Env(value, fallback) == IF value \in {Unset, Malformed} THEN fallback ELSE value

\* LoadFromEnv of the webhook, in the environment that mesh install writes.
HookConfig(file) ==
    [WithDefaults(file) EXCEPT !.timeout = Env(@, 5), !.recovery = Env(@, 30)]

\* Validate of the webhook, which ends the process when it fails.
Serves(hook) ==
    /\ {hook.metrics, hook.plain, hook.outbound} \subseteq Nat \ {0}
    /\ hook.mtlsPort >= 0
    /\ hook.mtls => hook.mtlsPort > 0
    /\ {hook.attempts, hook.timeout, hook.threshold} \subseteq Nat
    /\ hook.recovery > 0

-----------------------------------------------------------------------------
(* The sidecar *)

\* The env functions of the sidecar do the same, under several names for a setting.
EnvWithAliases(value, fallback) == Env(value, fallback)

\* What of it reaches the sidecar of a pod: EXCLUDE_INBOUND_PORTS is given to the
\* iptables container only, and the sidecar falls back to a default of its own.
SidecarEnv(hook) == [hook EXCEPT !.exclude = EnvWithAliases(Unset, {9090})]

\* The ports the sidecar listens on: two or three listeners and the metrics server.
PortsOf(env) == {env.plain, env.outbound, env.metrics}
                    \union (IF env.mtlsPort > 0 THEN {env.mtlsPort} ELSE {})

\* Validate of the sidecar.  Its test for a clash counts the distinct ports and
\* lets three pass for four.
Accepts(env) ==
    /\ {env.plain, env.outbound, env.metrics} \subseteq Nat \ {0}
    /\ env.mtlsPort >= 0
    /\ env.mtls => env.mtlsPort > 0
    /\ Cardinality(PortsOf(env)) \in {3, 4}
    /\ {env.timeout, env.attempts} \subseteq Nat
    /\ env.algorithm \in {"none", "roundRobin", "random"}
    /\ env.threshold > 0 => env.recovery > 0
    /\ env.metrics \in env.exclude

PortNumbers == 1..(2^16 - 1)

\* buildListeners and the metrics server: a port can be bound once, if it is one.
CanListen(env) ==
    /\ PortsOf(env) \subseteq PortNumbers
    /\ Cardinality(PortsOf(env)) = (IF env.mtlsPort > 0 THEN 4 ELSE 3)

Starts(env) == Accepts(env) /\ CanListen(env)
=============================================================================
