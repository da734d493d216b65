----------------------------- MODULE Installer -----------------------------
(***************************************************************************)
(* mesh install and mesh uninstall.  Every invocation of the command line  *)
(* is a sequence of calls to the API server of the cluster: an install     *)
(* reads and then writes each object of its plan, with the version it has  *)
(* read, stops at the first error and waits for the two deployments; an    *)
(* uninstall deletes in groups, and goes on to the next group after an     *)
(* error.  Invocations may overlap, fail and be killed; the controllers of *)
(* the cluster start, restart and stop the pods meanwhile.                 *)
(***************************************************************************)
EXTENDS Naturals, Sequences

CONSTANTS Runs,         \* invocations of the command line
          Overlapping,  \* bound: the commands that may run at the same time, as pairs
          None          \* no object, no pod

VARIABLES command,      \* what a run was asked for
          pc,           \* where a run is
          step,         \* position of a run in its plan
          read,         \* what an install has read of the object it is about to write
          erred,        \* uninstalls with an error to report
          objects,      \* per object of the cluster, the run that wrote it last
          created,      \* per deployment, the run that created it
          loaded,       \* per deployment, the writer of the secret its available pod has loaded
          terminating,  \* the mesh namespace is being deleted
          alone,        \* history: the run that no other has overlapped or followed
          mixed         \* history: an install and an uninstall have overlapped

cli == <<command, pc, step, read, erred>>
cluster == <<objects, created, loaded, terminating>>
history == <<alone, mixed>>
vars == <<cli, cluster, history>>

-----------------------------------------------------------------------------
(* What is installed and removed, in which order *)

Prologue == <<"namespace", "rootCA", "webhookTLS">>
CertManagerResources ==
    <<"certManagerAccount", "clusterRole", "clusterRoleBinding", "certManager", "certManagerService">>
ConfigurationBeforeWebhook ==
    <<"webhookAccount", "webhookConfiguration", "webhook", "webhookService">>
WebhookResources ==
    <<"webhookAccount", "webhook", "webhookService", "webhookConfiguration">>
\* The calls of Install, in their order.
Plan == Prologue \o CertManagerResources \o <<"sidecarConfig">> \o WebhookResources
Objects == {Plan[i] : i \in DOMAIN Plan}

\* The critical components, in the order they are waited for, with the secret
\* their pods mount.
Critical == <<"certManager", "webhook">>
Deployments == {"certManager", "webhook"}
Secret == [certManager |-> "rootCA", webhook |-> "webhookTLS"]

ClusterScoped == {"namespace", "clusterRole", "clusterRoleBinding", "webhookConfiguration"}

DeletionsForgettingSecret ==
    <<"webhookConfiguration", "webhook", "webhookService", "webhookAccount", "certManager",
      "certManagerService", "rootCA", "sidecarConfig", "clusterRoleBinding", "clusterRole",
      "certManagerAccount", "namespace", "namespace">>
\* What Uninstall deletes; the namespace only on demand.
Deletions ==
    <<"webhookConfiguration", "webhook", "webhookService", "webhookAccount", "webhookTLS",
      "certManager", "certManagerService", "rootCA", "sidecarConfig", "clusterRoleBinding",
      "clusterRole", "certManagerAccount", "namespace">>

\* Where the next Delete method of the uninstaller begins: one that fails is left at once.
NextGroup(i) == CASE i = 1 -> 2
                  [] i \in 2..5 -> 6
                  [] i \in 6..7 -> 8
                  [] i = 8 -> 9
                  [] i = 9 -> 10
                  [] i \in 10..12 -> 13
                  [] OTHER -> 14

\* mesh install, with --wait (the default) or --wait=false; mesh uninstall, also
\* with --delete-namespace.
Installs == {"install", "installWithoutWait"}
Uninstalls == {"uninstall", "uninstallWithNamespace"}
EndsOneEarly(c) == CASE c = "install" -> Len(Plan) + Len(Critical) + 1
                     [] c = "installWithoutWait" -> Len(Plan)
                     [] c = "uninstall" -> Len(Deletions)
                     [] OTHER -> Len(Deletions) + 1
\* One past the last step of a command.
End(c) == CASE c = "install" -> Len(Plan) + Len(Critical) + 1
            [] c = "installWithoutWait" -> Len(Plan) + 1
            [] c = "uninstall" -> Len(Deletions)
            [] OTHER -> Len(Deletions) + 1

ASSUME InstallerAssumption ==
    /\ None \notin Runs \union Installs \union Uninstalls
    /\ Overlapping \subseteq (Installs \union Uninstalls) \X (Installs \union Uninstalls)

Present(o) == objects[o] # None
Active == {r \in Runs : pc[r] = "running"}
Installing(r) == pc[r] = "running" /\ command[r] \in Installs
Uninstalling(r) == pc[r] = "running" /\ command[r] \in Uninstalls

TypeOK ==
    /\ command \in [Runs -> Installs \union Uninstalls \union {None}]
    /\ pc \in [Runs -> {"idle", "running", "ok", "failed"}]
    /\ step \in [Runs -> 1..(Len(Plan) + Len(Critical) + 1)]
    /\ read \in [Runs -> {"none", "absent", "present", "stale"}]
    /\ \A r \in Runs : read[r] # "none" => Installing(r) /\ step[r] \in DOMAIN Plan
    /\ erred \subseteq Runs
    /\ objects \in [Objects -> Runs \union {None}]
    /\ created \in [Deployments -> Runs \union {None}]
    /\ loaded \in [Deployments -> Runs \union {None}]
    /\ terminating \in BOOLEAN
    /\ alone \in Runs \union {None}
    /\ mixed \in BOOLEAN

Init ==
    /\ command = [r \in Runs |-> None]
    /\ pc = [r \in Runs |-> "idle"]
    /\ step = [r \in Runs |-> 1]
    /\ read = [r \in Runs |-> "none"]
    /\ erred = {}
    /\ objects = [o \in Objects |-> None]
    /\ created = [d \in Deployments |-> None]
    /\ loaded = [d \in Deployments |-> None]
    /\ terminating = FALSE
    /\ alone = None
    /\ mixed = FALSE

\* A run is alone until another one starts, unless it finds one running or the
\* namespace on its way out.
Start(r) ==
    /\ pc[r] = "idle"
    /\ pc' = [pc EXCEPT ![r] = "running"]
    /\ \E c \in Installs \union Uninstalls :
          /\ \A q \in Active : {<<c, command[q]>>, <<command[q], c>>} \intersect Overlapping # {}
          /\ command' = [command EXCEPT ![r] = c]
          /\ mixed' = (mixed \/ \E q \in Active : (command[q] \in Installs) # (c \in Installs))
    /\ alone' = IF Active = {} /\ ~terminating THEN r ELSE None
    /\ UNCHANGED <<step, read, erred, cluster>>

\* A run is over, and its position with it.
Ends(r, result) ==
    /\ pc' = [pc EXCEPT ![r] = result]
    /\ step' = [step EXCEPT ![r] = 1]
    /\ read' = [read EXCEPT ![r] = "none"]
    /\ UNCHANGED <<command, erred, cluster, history>>

-----------------------------------------------------------------------------
(* Install *)

At(r, o) == Installing(r) /\ step[r] \in DOMAIN Plan /\ Plan[step[r]] = o

OutdateOthers(r, o) ==
    read' = [q \in Runs |-> IF q # r /\ At(q, o) /\ read[q] = "present" THEN "stale" ELSE read[q]]

\* Run r is done with o, and what the others have read of it is out of date.
Outdate(r, o) ==
    read' = [q \in Runs |-> IF q = r THEN "none"
                            ELSE IF At(q, o) /\ read[q] = "present" THEN "stale"
                            ELSE read[q]]

\* The Get of an upsert.
Get(r) ==
    /\ Installing(r)
    /\ step[r] \in DOMAIN Plan
    /\ read[r] = "none"
    /\ read' = [read EXCEPT ![r] = IF Present(Plan[step[r]]) THEN "present" ELSE "absent"]
    /\ UNCHANGED <<command, pc, step, erred, cluster, history>>

\* The API server takes a new object where there is none, in a namespace that
\* stays, and an update of the version that was read.
Accepted(r, o) ==
    \/ /\ read[r] = "absent"
       /\ ~Present(o)
       /\ o \in ClusterScoped \/ (Present("namespace") /\ ~terminating)
    \/ read[r] = "present"

KeepsSecrets(r, o) == IF o \in {"rootCA", "webhookTLS"} /\ Present(o) THEN objects[o] ELSE r
\* What a run writes into o: its own version, over what was there.
Desired(r, o) == r

\* The Create or the Update of an upsert.
Put(r) ==
    /\ Installing(r)
    /\ step[r] \in DOMAIN Plan
    /\ LET o == Plan[step[r]] IN
          /\ Accepted(r, o)
          /\ objects' = [objects EXCEPT ![o] = Desired(r, o)]
          /\ created' = IF o \in Deployments /\ ~Present(o) THEN [created EXCEPT ![o] = r] ELSE created
          /\ Outdate(r, o)
    /\ step' = [step EXCEPT ![r] = @ + 1]
    /\ UNCHANGED <<command, pc, erred, loaded, terminating, history>>

Available(d) == Present(d) /\ loaded[d] # None

\* WaitDeploymentReady has seen the deployment available.
WaitDeploymentReady(r) ==
    /\ Installing(r)
    /\ step[r] - Len(Plan) \in DOMAIN Critical
    /\ step[r] < End(command[r])
    /\ Available(Critical[step[r] - Len(Plan)])
    /\ step' = [step EXCEPT ![r] = @ + 1]
    /\ UNCHANGED <<command, pc, read, erred, cluster, history>>

\* An install returns the first error: a call refused or lost, a certificate
\* that cannot be made, a deployment not ready in time.  One that is killed
\* leaves the same behind.
InstallFails(r) ==
    /\ Installing(r)
    /\ step[r] < End(command[r])
    /\ Ends(r, "failed")

InstallReturns(r) ==
    /\ Installing(r)
    /\ step[r] = End(command[r])
    /\ Ends(r, "ok")

-----------------------------------------------------------------------------
(* Uninstall *)

\* The object leaves the cluster, a deployment with its pods; the namespace
\* first empties.
Gone(o) ==
    /\ objects' = IF o = "namespace" THEN objects ELSE [objects EXCEPT ![o] = None]
    /\ terminating' = (terminating \/ (o = "namespace" /\ Present(o)))
    /\ created' = [d \in Deployments |-> IF d = o THEN None ELSE created[d]]
    /\ loaded' = [d \in Deployments |-> IF d = o THEN None ELSE loaded[d]]

\* One Delete call, of an object that may already be gone.
Delete(r) ==
    /\ Uninstalling(r)
    /\ step[r] < End(command[r])
    /\ LET o == Deletions[step[r]] IN
          /\ ~(o = "namespace" /\ terminating)
          /\ Gone(o)
          /\ Outdate(r, o)
    /\ step' = [step EXCEPT ![r] = @ + 1]
    /\ UNCHANGED <<command, pc, erred, history>>

\* The call fails, before or after the server has acted on it: the rest of the
\* group is skipped.
DeleteFails(r) ==
    /\ Uninstalling(r)
    /\ step[r] < End(command[r])
    /\ erred' = erred \union {r}
    /\ LET o == Deletions[step[r]] IN
          \/ Gone(o) /\ Outdate(r, o)
          \/ UNCHANGED <<cluster, read>>
    /\ step' = [step EXCEPT ![r] = IF NextGroup(@) < End(command[r]) THEN NextGroup(@)
                                   ELSE End(command[r])]
    /\ UNCHANGED <<command, pc, history>>

UninstallReturns(r) ==
    /\ Uninstalling(r)
    /\ step[r] = End(command[r])
    /\ Ends(r, IF r \in erred THEN "failed" ELSE "ok")

\* An uninstall is killed: what it has done stays, and nothing is reported.
Killed(r) == Uninstalling(r) /\ Ends(r, "failed")

-----------------------------------------------------------------------------
(* The cluster *)

\* A pod starts, or starts again, and reads the secret it mounts.
PodStarts(d) ==
    /\ Present(d) /\ Present(Secret[d])
    /\ loaded' = [loaded EXCEPT ![d] = objects[Secret[d]]]
    /\ UNCHANGED <<cli, objects, created, terminating, history>>

PodStops(d) ==
    /\ loaded[d] # None
    /\ loaded' = [loaded EXCEPT ![d] = None]
    /\ UNCHANGED <<cli, objects, created, terminating, history>>

\* A terminating namespace goes, with everything in it.
Finalize ==
    /\ terminating
    /\ objects' = [o \in Objects |-> IF o \in ClusterScoped \ {"namespace"} THEN objects[o] ELSE None]
    /\ created' = [d \in Deployments |-> None]
    /\ loaded' = [d \in Deployments |-> None]
    /\ terminating' = FALSE
    /\ read' = [r \in Runs |-> IF read[r] = "present" /\ Plan[step[r]] \notin ClusterScoped \ {"namespace"}
                               THEN "stale" ELSE read[r]]
    /\ UNCHANGED <<command, pc, step, erred, history>>

-----------------------------------------------------------------------------

Run(r) == \/ Get(r) \/ Put(r) \/ WaitDeploymentReady(r) \/ InstallFails(r) \/ InstallReturns(r)
          \/ Delete(r) \/ DeleteFails(r) \/ UninstallReturns(r)

Next == \/ \E r \in Runs : Start(r) \/ Run(r) \/ Killed(r)
        \/ \E d \in Deployments : PodStarts(d) \/ PodStops(d)
        \/ Finalize

Spec == Init /\ [][Next]_vars

-----------------------------------------------------------------------------
(* Properties *)

\* An install that succeeded, and that no other command overlapped or
\* followed, has left its own version of every object: no step is skipped, and
\* the webhook configuration trusts the certificate in the webhook's secret
\* (service.go of the installer, Install).
InstallComplete ==
    \A r \in Runs : alone = r /\ pc[r] = "ok" /\ command[r] \in Installs =>
        \A o \in Objects : objects[o] = r

\* An uninstall that reported no error, alone, has left nothing behind,
\* whatever failed, half-done or killed installs came before it (service.go of
\* the uninstaller, Uninstall).
UninstallComplete ==
    \A r \in Runs : alone = r /\ pc[r] = "ok" /\ command[r] \in Uninstalls =>
        /\ \A o \in Objects \ {"namespace"} : objects[o] = None
        /\ command[r] = "uninstallWithNamespace" => terminating \/ ~Present("namespace")

\* The configuration is registered with failurePolicy Fail: without a webhook
\* behind it no pod of the mesh can be created.
Stranded == Present("webhookConfiguration") /\ ~(Present("webhook") /\ Present("webhookService"))

\* No order of failures and kills strands the registration silently: it
\* outlives its workload only when an uninstall that could not delete it has an
\* error to report, or when an install and an uninstall ran against each other
\* (the order of ApplyWebhookResources and of Uninstall).
NeverStrandedSilently == Stranded => mixed \/ erred # {}

\* A deployment that the last install created, alone, never runs with the
\* secret of an earlier installation: the secrets are written before it.  (One
\* that was there already keeps the pod, and the secret, it has.)
FreshPodsTrusted ==
    \A d \in Deployments : alone # None /\ created[d] = alone => loaded[d] \in {None, alone}

-----------------------------------------------------------------------------
(* The inductive invariant of InstallerProofs *)

\* A run that is over, or has not begun, holds no position in its plan.
PositionsInPlan ==
    \A r \in Runs : /\ pc[r] = "idle" <=> command[r] = None
                    /\ pc[r] # "running" => step[r] = 1 /\ read[r] = "none"
                    /\ pc[r] = "running" => step[r] <= End(command[r])

\* What an install has read present is there until it writes it.
ReadCurrent == \A r \in Runs, o \in Objects : At(r, o) /\ read[r] = "present" => Present(o)

\* Only the run that is alone is running; while it installs the namespace stays.
AloneActs ==
    alone # None => /\ Active \subseteq {alone}
                    /\ pc[alone] # "idle"
                    /\ command[alone] \in Installs => ~terminating

\* A deployment has one creator, and an install that ran; no deployment, no pod.
CreatedByInstalls ==
    \A d \in Deployments : /\ created[d] # None <=> Present(d)
                           /\ loaded[d] # None => Present(d)
                           /\ created[d] # None => command[created[d]] \in Installs

InstalledSoFar ==
    \A r \in Runs : alone = r /\ Installing(r) =>
        \A i \in DOMAIN Plan : i < step[r] => objects[Plan[i]] = r

\* The deletions that a run has behind it.
RemovedSoFar(r) ==
    /\ \A i \in 1..12 : i < step[r] => ~Present(Deletions[i])
    /\ step[r] > 13 => terminating \/ ~Present("namespace")
RemovedAlone == \A r \in Runs : alone = r /\ Uninstalling(r) /\ r \notin erred => RemovedSoFar(r)

SecretsBeforePods ==
    \A d \in Deployments : alone # None /\ created[d] = alone => objects[Secret[d]] = alone

\* As long as no install meets an uninstall and no deletion fails.
OneKindAtATime == \A q, r \in Active : command[q] \in Installs <=> command[r] \in Installs
InstalledInOrder ==
    \A r \in Runs : Installing(r) => \A i \in 2..13 : i < step[r] => Present(Plan[i])
RemovedInOrder == \A r \in Runs : Uninstalling(r) => RemovedSoFar(r)
TerminatingEmpty ==
    terminating => /\ \A o \in Objects \ {"namespace"} : ~Present(o)
                   /\ \A r \in Runs : Installing(r) => step[r] <= 2
Orderly == InstalledInOrder /\ RemovedInOrder /\ TerminatingEmpty /\ ~Stranded

IInv ==
    /\ TypeOK
    /\ PositionsInPlan
    /\ ReadCurrent
    /\ AloneActs
    /\ CreatedByInstalls
    /\ InstalledSoFar
    /\ InstallComplete
    /\ RemovedAlone
    /\ UninstallComplete
    /\ SecretsBeforePods
    /\ FreshPodsTrusted
    /\ ~mixed => OneKindAtATime
    /\ ~mixed /\ erred = {} => Orderly
=============================================================================
