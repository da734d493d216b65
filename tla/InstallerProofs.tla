-------------------------- MODULE InstallerProofs --------------------------
(***************************************************************************)
(* Proofs about mesh install and mesh uninstall, for any number of         *)
(* commands and any overlap of them.                                       *)
(***************************************************************************)
EXTENDS Installer, TLAPS

-----------------------------------------------------------------------------
(* The plan and the deletions *)

LEMMA PlanIs ==
    /\ DOMAIN Plan = 1..13 /\ Len(Plan) = 13
    /\ Plan[1] = "namespace" /\ Plan[2] = "rootCA" /\ Plan[3] = "webhookTLS"
    /\ Plan[4] = "certManagerAccount" /\ Plan[5] = "clusterRole"
    /\ Plan[6] = "clusterRoleBinding" /\ Plan[7] = "certManager"
    /\ Plan[8] = "certManagerService" /\ Plan[9] = "sidecarConfig"
    /\ Plan[10] = "webhookAccount" /\ Plan[11] = "webhook" /\ Plan[12] = "webhookService"
    /\ Plan[13] = "webhookConfiguration"
  BY DEF Plan, Prologue, CertManagerResources, WebhookResources

LEMMA DeploymentPositions ==
    ASSUME NEW i \in 1..13
    PROVE  /\ Plan[i] = "certManager" => i = 7
           /\ Plan[i] = "webhook" => i = 11
           /\ Plan[i] = "webhookConfiguration" => i = 13
  <1>1. i = 1 \/ i = 2 \/ i = 3 \/ i = 4 \/ i = 5 \/ i = 6 \/ i = 7 \/ i = 8 \/ i = 9
        \/ i = 10 \/ i = 11 \/ i = 12 \/ i = 13
    OBVIOUS
  <1> QED
    BY <1>1, PlanIs

LEMMA ObjectsAre ==
    Objects = {"namespace", "rootCA", "webhookTLS", "certManagerAccount", "clusterRole",
               "clusterRoleBinding", "certManager", "certManagerService", "sidecarConfig",
               "webhookAccount", "webhook", "webhookService", "webhookConfiguration"}
  BY PlanIs DEF Objects

\* An uninstall deletes every object but the namespace.
LEMMA DeletionsAre ==
    /\ Len(Deletions) = 13
    /\ Deletions[1] = "webhookConfiguration" /\ Deletions[13] = "namespace"
    /\ \A i \in 1..12 : Deletions[i] \in Objects \ {"namespace"}
    /\ \A o \in Objects \ {"namespace"} : \E i \in 1..12 : Deletions[i] = o
  <1>1. /\ Len(Deletions) = 13
        /\ Deletions[1] = "webhookConfiguration" /\ Deletions[2] = "webhook"
        /\ Deletions[3] = "webhookService" /\ Deletions[4] = "webhookAccount"
        /\ Deletions[5] = "webhookTLS" /\ Deletions[6] = "certManager"
        /\ Deletions[7] = "certManagerService" /\ Deletions[8] = "rootCA"
        /\ Deletions[9] = "sidecarConfig" /\ Deletions[10] = "clusterRoleBinding"
        /\ Deletions[11] = "clusterRole" /\ Deletions[12] = "certManagerAccount"
        /\ Deletions[13] = "namespace"
    BY DEF Deletions
  <1>2. \A o \in Objects \ {"namespace"} : \E i \in 1..12 : Deletions[i] = o
    BY <1>1, ObjectsAre
  <1>3. \A i \in 1..12 : Deletions[i] \in Objects \ {"namespace"}
    BY <1>1, ObjectsAre
  <1> QED
    BY <1>1, <1>2, <1>3

LEMMA EndIs ==
    /\ End("install") = 16 /\ End("installWithoutWait") = 14
    /\ End("uninstall") = 13 /\ End("uninstallWithNamespace") = 14
  BY PlanIs, DeletionsAre DEF End, Critical

LEMMA EndType ==
    ASSUME NEW c \in Installs \union Uninstalls
    PROVE  /\ End(c) \in 1..16
           /\ c \in Installs => End(c) \in {14, 16}
           /\ c \in Uninstalls => End(c) \in {13, 14}
  <1>1. \/ c = "install" \/ c = "installWithoutWait"
        \/ c = "uninstall" \/ c = "uninstallWithNamespace"
    BY DEF Installs, Uninstalls
  <1>2. CASE c = "install"
    BY <1>2, EndIs DEF Installs, Uninstalls
  <1>3. CASE c = "installWithoutWait"
    BY <1>3, EndIs DEF Installs, Uninstalls
  <1>4. CASE c = "uninstall"
    BY <1>4, EndIs DEF Installs, Uninstalls
  <1>5. CASE c = "uninstallWithNamespace"
    BY <1>5, EndIs DEF Installs, Uninstalls
  <1> QED
    BY <1>1, <1>2, <1>3, <1>4, <1>5

LEMMA StepBound == Len(Plan) + Len(Critical) + 1 = 16 /\ Len(Critical) = 2
  BY PlanIs DEF Critical

LEMMA StepType ==
    ASSUME TypeOK
    PROVE  step \in [Runs -> 1..16]
  <1>1. step \in [Runs -> 1..(Len(Plan) + Len(Critical) + 1)]
    BY DEF TypeOK
  <1> QED
    BY <1>1, StepBound

LEMMA NextGroupType ==
    ASSUME NEW i \in 1..16
    PROVE  NextGroup(i) \in 1..14
  BY DEF NextGroup

LEMMA KindsDiffer == Installs \intersect Uninstalls = {}
  BY DEF Installs, Uninstalls

LEMMA DeploymentsAreObjects ==
    /\ Deployments \subseteq Objects
    /\ \A d \in Deployments : Secret[d] \in Objects \ (ClusterScoped \union Deployments)
    /\ Deployments \intersect ClusterScoped = {}
    /\ ClusterScoped \subseteq Objects
  BY ObjectsAre DEF Deployments, Secret, ClusterScoped

-----------------------------------------------------------------------------
(* Type correctness *)

LEMMA InitTypeOK == Init => TypeOK
  <1> SUFFICES ASSUME Init PROVE TypeOK
    OBVIOUS
  <1>1. step \in [Runs -> 1..(Len(Plan) + Len(Critical) + 1)]
    BY StepBound DEF Init
  <1> QED
    BY <1>1 DEF Init, TypeOK

LEMMA NextTypeOK == TypeOK /\ PositionsInPlan /\ [Next]_vars => TypeOK'
  <1> SUFFICES ASSUME TypeOK, PositionsInPlan, [Next]_vars PROVE TypeOK'
    OBVIOUS
  <1>a. step \in [Runs -> 1..16] /\ Len(Plan) + Len(Critical) + 1 = 16 /\ Len(Critical) = 2
    BY StepType, StepBound
  <1>1. ASSUME NEW r \in Runs, Start(r) PROVE TypeOK'
    <2>1. /\ command' \in [Runs -> Installs \union Uninstalls \union {None}]
          /\ pc' \in [Runs -> {"idle", "running", "ok", "failed"}]
          /\ alone' \in Runs \union {None} /\ mixed' \in BOOLEAN
      BY <1>1 DEF Start, TypeOK
    <2>2. read[r] = "none"
      BY <1>1 DEF Start, PositionsInPlan
    <2>3. \A q \in Runs : read'[q] # "none" => Installing(q)' /\ step'[q] \in DOMAIN Plan
      BY <1>1, <2>2 DEF Start, TypeOK, Installing
    <2> QED
      BY <1>1, <2>1, <2>3 DEF Start, TypeOK, cluster
  <1>2. ASSUME NEW r \in Runs, Get(r) PROVE TypeOK'
    BY <1>2 DEF Get, TypeOK, Installing, cluster, history
  <1>3. ASSUME NEW r \in Runs, Put(r) PROVE TypeOK'
    <2> DEFINE o == Plan[step[r]]
    <2>1. o \in Objects /\ step[r] \in 1..13
      BY <1>3, PlanIs DEF Put, Objects
    <2>2. step' \in [Runs -> 1..16]
      BY <1>3, <1>a, <2>1 DEF Put
    <2>3. /\ objects' \in [Objects -> Runs \union {None}]
          /\ created' \in [Deployments -> Runs \union {None}]
      BY <1>3, <2>1 DEF Put, TypeOK, Desired
    <2>4. read' \in [Runs -> {"none", "absent", "present", "stale"}]
      BY <1>3 DEF Put, Outdate, TypeOK
    <2>5. \A q \in Runs : read'[q] # "none" => q # r /\ read[q] # "none"
      BY <1>3 DEF Put, Outdate, TypeOK
    <2>6. \A q \in Runs : read'[q] # "none" => Installing(q)' /\ step'[q] \in DOMAIN Plan
      BY <1>3, <2>5 DEF Put, Installing, TypeOK
    <2> QED
      BY <1>3, <1>a, <2>2, <2>3, <2>4, <2>6 DEF Put, TypeOK, history
  <1>4. ASSUME NEW r \in Runs, WaitDeploymentReady(r) PROVE TypeOK'
    <2>1. step[r] \notin DOMAIN Plan /\ step[r] + 1 \in 1..16
      BY <1>4, <1>a, PlanIs DEF WaitDeploymentReady, TypeOK
    <2> QED
      BY <1>4, <1>a, <2>1 DEF WaitDeploymentReady, TypeOK, Installing, cluster, history
  <1>5. ASSUME NEW r \in Runs, NEW result \in {"ok", "failed"}, Ends(r, result) PROVE TypeOK'
    BY <1>5, <1>a DEF Ends, TypeOK, Installing, cluster, history
  <1>6. ASSUME NEW o \in Objects, Gone(o)
        PROVE  /\ objects' \in [Objects -> Runs \union {None}]
               /\ created' \in [Deployments -> Runs \union {None}]
               /\ loaded' \in [Deployments -> Runs \union {None}]
               /\ terminating' \in BOOLEAN
    BY <1>6 DEF Gone, TypeOK
  <1>7. ASSUME NEW r, NEW o, Outdate(r, o)
        PROVE  /\ read' \in [Runs -> {"none", "absent", "present", "stale"}]
               /\ \A q \in Runs : read'[q] # "none" => q # r /\ read[q] # "none"
    BY <1>7 DEF Outdate, TypeOK
  <1>8. \A i \in 1..13 : Deletions[i] \in Objects
    BY DeletionsAre, ObjectsAre
  <1>9. ASSUME NEW r \in Runs, Uninstalling(r), step[r] < End(command[r])
        PROVE  /\ step[r] \in 1..13 /\ End(command[r]) \in 13..14
               /\ Deletions[step[r]] \in Objects /\ ~Installing(r) /\ read[r] = "none"
    BY <1>9, <1>8, <1>a, EndIs, KindsDiffer DEF Uninstalling, Installing, Uninstalls, TypeOK
  <1>10. ASSUME NEW r \in Runs, Delete(r) PROVE TypeOK'
    <2>1. step' \in [Runs -> 1..16]
      <3>1. step[r] \in 1..13
        BY <1>10, <1>9 DEF Delete
      <3> QED
        BY <1>10, <3>1, <1>a DEF Delete
    <2>2. PICK o \in Objects : Gone(o) /\ Outdate(r, o)
      BY <1>10, <1>9 DEF Delete
    <2>3. \A q \in Runs : read'[q] # "none" => Installing(q)' /\ step'[q] \in DOMAIN Plan
      BY <1>10, <2>2, <1>7 DEF Delete, Installing, TypeOK
    <2> QED
      BY <1>10, <1>a, <1>6, <1>7, <2>1, <2>2, <2>3 DEF Delete, TypeOK, history
  <1>11. ASSUME NEW r \in Runs, DeleteFails(r) PROVE TypeOK'
    <2>1. step[r] \in 1..13 /\ End(command[r]) \in 13..14 /\ read[r] = "none"
      BY <1>11, <1>9 DEF DeleteFails
    <2>2. step' \in [Runs -> 1..16]
      <3>1. NextGroup(step[r]) \in 1..14
        BY <2>1, NextGroupType
      <3> QED
        BY <1>11, <1>a, <2>1, <3>1 DEF DeleteFails
    <2>3. \/ \E o \in Objects : Gone(o) /\ Outdate(r, o)
          \/ UNCHANGED <<cluster, read>>
      BY <1>11, <1>9 DEF DeleteFails
    <2>4. /\ read' \in [Runs -> {"none", "absent", "present", "stale"}]
          /\ \A q \in Runs : read'[q] # "none" => q # r /\ read[q] # "none"
      BY <2>1, <2>3, <1>7 DEF TypeOK
    <2>5. /\ objects' \in [Objects -> Runs \union {None}]
          /\ created' \in [Deployments -> Runs \union {None}]
          /\ loaded' \in [Deployments -> Runs \union {None}]
          /\ terminating' \in BOOLEAN
      BY <2>3, <1>6 DEF TypeOK, cluster
    <2>6. \A q \in Runs : read'[q] # "none" => Installing(q)' /\ step'[q] \in DOMAIN Plan
      BY <1>11, <2>4 DEF DeleteFails, Installing, TypeOK
    <2> QED
      BY <1>11, <1>a, <2>2, <2>4, <2>5, <2>6 DEF DeleteFails, TypeOK, history
  <1>12. ASSUME NEW d \in Deployments, PodStarts(d) \/ PodStops(d) PROVE TypeOK'
    <2>1. loaded' \in [Deployments -> Runs \union {None}]
      <3>1. objects[Secret[d]] \in Runs \union {None}
        BY DeploymentsAreObjects DEF TypeOK
      <3> QED
        BY <1>12, <3>1 DEF PodStarts, PodStops, TypeOK
    <2> QED
      BY <1>12, <2>1 DEF PodStarts, PodStops, TypeOK, cli, history, Installing
  <1>13. CASE Finalize
    <2>1. /\ read' \in [Runs -> {"none", "absent", "present", "stale"}]
          /\ \A q \in Runs : read'[q] # "none" => read[q] # "none"
      BY <1>13 DEF Finalize, TypeOK
    <2> QED
      BY <1>13, <2>1, <1>a DEF Finalize, TypeOK, history, Installing
  <1>14. CASE UNCHANGED vars
    BY <1>14 DEF vars, cli, cluster, history, TypeOK, Installing
  <1> QED
    BY <1>1, <1>2, <1>3, <1>4, <1>5, <1>10, <1>11, <1>12, <1>13, <1>14
    DEF Next, Run, InstallFails, InstallReturns, UninstallReturns, Killed

-----------------------------------------------------------------------------
(* What runs have done so far *)

\* A run that moves on in its command, without a change to the cluster.
Moves(r) == \/ Get(r) \/ WaitDeploymentReady(r) \/ InstallFails(r) \/ InstallReturns(r)
            \/ UninstallReturns(r) \/ Killed(r)

\* A deletion has been tried: it has happened, or nothing has.
Deletes(r) == Delete(r) \/ DeleteFails(r)

\* The kinds of steps.
LEMMA StepKinds ==
    ASSUME [Next]_vars
    PROVE  \/ \E r \in Runs : Start(r) \/ Put(r) \/ Moves(r) \/ Deletes(r)
           \/ \E d \in Deployments : PodStarts(d) \/ PodStops(d)
           \/ Finalize
           \/ UNCHANGED vars
  BY DEF Next, Run, Moves, Deletes

LEMMA MovesIs ==
    ASSUME TypeOK, NEW r \in Runs, Moves(r)
    PROVE  /\ UNCHANGED <<cluster, history, command, erred>>
           /\ pc[r] = "running" /\ pc'[r] \in {"running", "ok", "failed"}
           /\ \A q \in Runs \ {r} : pc'[q] = pc[q] /\ step'[q] = step[q] /\ read'[q] = read[q]
           /\ \/ pc'[r] = "running" /\ step'[r] = step[r]
              \/ pc'[r] = "running" /\ WaitDeploymentReady(r) /\ step'[r] = step[r] + 1
              \/ pc'[r] # "running" /\ step'[r] = 1 /\ read'[r] = "none"
  BY DEF Moves, Get, WaitDeploymentReady, InstallFails, InstallReturns, UninstallReturns, Killed,
         Ends, TypeOK, Installing, Uninstalling, cluster, history

LEMMA DeletesIs ==
    ASSUME TypeOK, PositionsInPlan, NEW r \in Runs, Deletes(r)
    PROVE  /\ UNCHANGED <<command, pc, history>>
           /\ Uninstalling(r) /\ step[r] \in 1..13 /\ step[r] < End(command[r])
           /\ \/ Gone(Deletions[step[r]]) /\ Outdate(r, Deletions[step[r]])
              \/ UNCHANGED <<cluster, read>> /\ r \in erred'
           /\ step'[r] \in 1..End(command[r])
           /\ \A q \in Runs \ {r} : step'[q] = step[q]
           /\ erred \subseteq erred'
           /\ r \notin erred' => Delete(r)
  <1>1. step \in [Runs -> 1..16] /\ command[r] \in Uninstalls
    BY StepType DEF Deletes, Delete, DeleteFails, Uninstalling
  <1>2. End(command[r]) \in {13, 14}
    BY <1>1, EndType
  <1>3. step[r] \in 1..13 /\ step[r] < End(command[r])
    BY <1>1, <1>2 DEF Deletes, Delete, DeleteFails
  <1>4. NextGroup(step[r]) \in 1..14
    BY <1>3, NextGroupType
  <1>5. CASE Delete(r)
    BY <1>1, <1>2, <1>3, <1>5 DEF Delete, history
  <1>6. CASE DeleteFails(r)
    BY <1>1, <1>2, <1>3, <1>4, <1>6 DEF DeleteFails, history, TypeOK
  <1> QED
    BY <1>5, <1>6 DEF Deletes

LEMMA PutIs ==
    ASSUME TypeOK, NEW r \in Runs, Put(r)
    PROVE  /\ Installing(r) /\ step[r] \in 1..13 /\ Plan[step[r]] \in Objects
           /\ UNCHANGED <<command, pc, erred, loaded, terminating, history>>
           /\ objects' = [objects EXCEPT ![Plan[step[r]]] = r]
           /\ step' = [step EXCEPT ![r] = @ + 1]
           /\ Accepted(r, Plan[step[r]])
           /\ Outdate(r, Plan[step[r]])
  BY PlanIs DEF Put, Desired, Objects

LEMMA NextPositions == TypeOK /\ PositionsInPlan /\ [Next]_vars => PositionsInPlan'
  <1> SUFFICES ASSUME TypeOK, PositionsInPlan, [Next]_vars PROVE PositionsInPlan'
    OBVIOUS
  <1>0. step \in [Runs -> 1..16]
    BY StepType
  <1>1. ASSUME NEW r \in Runs, Start(r) PROVE PositionsInPlan'
    <2>1. PICK c \in Installs \union Uninstalls : command' = [command EXCEPT ![r] = c]
      BY <1>1 DEF Start
    <2>2. End(c) \in 1..16 /\ c # None
      BY EndType, InstallerAssumption
    <2> QED
      BY <1>0, <1>1, <2>1, <2>2 DEF Start, PositionsInPlan, TypeOK
  <1>2. ASSUME NEW r \in Runs, Put(r) PROVE PositionsInPlan'
    <2>1. End(command[r]) \in {14, 16}
      BY <1>2, EndType DEF Put, Installing
    <2>2. \A q \in Runs : read'[q] # "none" => read[q] # "none"
      BY <1>2, PutIs DEF Outdate, TypeOK
    <2>3. /\ UNCHANGED <<command, pc>> /\ pc[r] = "running"
          /\ step'[r] <= 14 /\ \A q \in Runs \ {r} : step'[q] = step[q]
      BY <1>0, <1>2, PutIs DEF Installing
    <2>4. read' \in [Runs -> {"none", "absent", "present", "stale"}]
      BY <1>2, PutIs DEF Outdate, TypeOK
    <2>5. step'[r] \in Nat
      BY <1>0, <1>2, PutIs
    <2> QED
      BY <2>1, <2>2, <2>3, <2>4, <2>5 DEF PositionsInPlan
  <1>3. ASSUME NEW r \in Runs, Moves(r) PROVE PositionsInPlan'
    <2>1. Installing(r) => End(command[r]) \in {14, 16}
      BY EndType DEF Installing
    <2>2. WaitDeploymentReady(r) => step[r] + 1 <= End(command[r])
      BY <1>0, <2>1 DEF WaitDeploymentReady
    <2> QED
      BY <1>3, <2>2, MovesIs DEF PositionsInPlan
  <1>4. ASSUME NEW r \in Runs, Deletes(r) PROVE PositionsInPlan'
    <2>1. \A q \in Runs : read'[q] # "none" => read[q] # "none"
      BY <1>4, DeletesIs DEF Outdate, TypeOK
    <2> QED
      BY <1>0, <1>4, <2>1, DeletesIs DEF PositionsInPlan, Uninstalling, TypeOK
  <1>5. ASSUME NEW d \in Deployments, PodStarts(d) \/ PodStops(d) PROVE PositionsInPlan'
    BY <1>5 DEF PodStarts, PodStops, PositionsInPlan, cli
  <1>6. CASE Finalize
    BY <1>6 DEF Finalize, PositionsInPlan, TypeOK
  <1>7. CASE UNCHANGED vars
    BY <1>7 DEF vars, cli, PositionsInPlan
  <1> QED
    BY <1>1, <1>2, <1>3, <1>4, <1>5, <1>6, <1>7, StepKinds

\* What a deletion leaves of the other objects.
LEMMA GoneIs ==
    ASSUME TypeOK, NEW o \in Objects, Gone(o)
    PROVE  /\ \A q \in Objects : objects'[q] # objects[q] => q = o /\ o # "namespace" /\ objects'[q] = None
           /\ o # "namespace" => objects'[o] = None
           /\ \A d \in Deployments : created'[d] # created[d] => d = o /\ created'[d] = None
           /\ \A d \in Deployments : loaded'[d] # loaded[d] => d = o /\ loaded'[d] = None
           /\ o \in Deployments => created'[o] = None /\ loaded'[o] = None
           /\ terminating => terminating'
           /\ terminating' => terminating \/ o = "namespace"
           /\ o = "namespace" => terminating' \/ objects'[o] = None
  BY DEF Gone, TypeOK, Present

LEMMA DeletionInObjects ==
    ASSUME NEW i \in 1..13
    PROVE  Deletions[i] \in Objects
  BY DeletionsAre, ObjectsAre

LEMMA FinalizeIs ==
    ASSUME TypeOK, Finalize
    PROVE  /\ UNCHANGED <<command, pc, step, erred, history>>
           /\ \A o \in ClusterScoped \ {"namespace"} : objects'[o] = objects[o]
           /\ \A o \in Objects \ (ClusterScoped \ {"namespace"}) : objects'[o] = None
           /\ \A d \in Deployments : objects'[d] = None /\ created'[d] = None /\ loaded'[d] = None
           /\ terminating /\ ~terminating'
  BY DeploymentsAreObjects DEF Finalize, TypeOK

LEMMA PodsIs ==
    ASSUME TypeOK, NEW d \in Deployments, PodStarts(d) \/ PodStops(d)
    PROVE  /\ UNCHANGED <<cli, objects, created, terminating, history>>
           /\ \A e \in Deployments : loaded'[e] # loaded[e] =>
                 loaded'[e] = None \/ (Present(e) /\ loaded'[e] = objects[Secret[e]])
  BY DEF PodStarts, PodStops, TypeOK

LEMMA NextReadCurrent == TypeOK /\ PositionsInPlan /\ ReadCurrent /\ [Next]_vars => ReadCurrent'
  <1> SUFFICES ASSUME TypeOK, PositionsInPlan, ReadCurrent, [Next]_vars,
                      NEW q \in Runs, NEW o \in Objects, At(q, o)', read'[q] = "present"
               PROVE  Present(o)'
    BY DEF ReadCurrent
  <1>1. ASSUME NEW r \in Runs, Start(r) PROVE Present(o)'
    BY <1>1 DEF Start, PositionsInPlan, ReadCurrent, At, Installing, Present, TypeOK, cluster
  <1>2. ASSUME NEW r \in Runs, Put(r) PROVE Present(o)'
    <2>1. q # r /\ read[q] = "present" /\ step'[q] = step[q] /\ At(q, o)
      BY <1>2, PutIs DEF Outdate, TypeOK, At, Installing
    <2>2. Present(o)
      BY <2>1 DEF ReadCurrent
    <2> QED
      BY <1>2, <2>2, PutIs, InstallerAssumption DEF Present, TypeOK
  <1>3. ASSUME NEW r \in Runs, Get(r) PROVE Present(o)'
    BY <1>3 DEF Get, ReadCurrent, At, Installing, Present, TypeOK, cluster
  <1>4. ASSUME NEW r \in Runs, Moves(r), ~Get(r) PROVE Present(o)'
    <2>1. ASSUME q = r PROVE FALSE
      <3>1. pc'[r] = "running" /\ read'[r] = "present" /\ step'[r] \in 1..13
        BY <2>1, PlanIs DEF At, Installing
      <3>2. WaitDeploymentReady(r)
        BY <1>4, <3>1 DEF Moves, InstallFails, InstallReturns, UninstallReturns, Killed, Ends, TypeOK
      <3>3. step[r] \in 1..16 /\ step[r] - 13 \in 1..2
        BY <3>2, StepType, PlanIs DEF WaitDeploymentReady, Critical
      <3> QED
        BY <3>1, <3>2, <3>3, StepType DEF WaitDeploymentReady
    <2> QED
      BY <1>4, <2>1, MovesIs DEF ReadCurrent, At, Installing, Present, cluster
  <1>5. ASSUME NEW r \in Runs, Deletes(r) PROVE Present(o)'
    <2>1. pc' = pc /\ command' = command /\ Uninstalling(r) /\ step[r] \in 1..13
      BY <1>5, DeletesIs
    <2>2. q # r
      BY <2>1, KindsDiffer DEF At, Installing, Uninstalling
    <2>3. At(q, o)
      BY <1>5, <2>1, <2>2, DeletesIs DEF At, Installing
    <2>4. CASE UNCHANGED <<cluster, read>>
      BY <2>3, <2>4 DEF cluster, ReadCurrent, Present
    <2>5. CASE Gone(Deletions[step[r]]) /\ Outdate(r, Deletions[step[r]])
      <3>1. read[q] = "present" /\ Deletions[step[r]] # o
        BY <2>2, <2>3, <2>5 DEF Outdate
      <3> QED
        BY <2>1, <2>3, <2>5, <3>1, GoneIs, DeletionInObjects DEF ReadCurrent, Present
    <2> QED
      BY <1>5, <2>4, <2>5, DeletesIs
  <1>6. ASSUME NEW d \in Deployments, PodStarts(d) \/ PodStops(d) PROVE Present(o)'
    BY <1>6, PodsIs DEF cli, ReadCurrent, At, Installing, Present
  <1>7. CASE Finalize
    <2>1. read[q] = "present" /\ Plan[step[q]] \in ClusterScoped \ {"namespace"}
      BY <1>7 DEF Finalize
    <2> QED
      BY <1>7, <2>1, FinalizeIs DEF ReadCurrent, At, Installing, Present
  <1>8. CASE UNCHANGED vars
    BY <1>8 DEF vars, cli, cluster, ReadCurrent, At, Installing, Present
  <1> QED
    BY <1>1, <1>2, <1>3, <1>4, <1>5, <1>6, <1>7, <1>8, StepKinds

LEMMA NextAloneActs == TypeOK /\ PositionsInPlan /\ AloneActs /\ [Next]_vars => AloneActs'
  <1> SUFFICES ASSUME TypeOK, PositionsInPlan, AloneActs, [Next]_vars, alone' # None
               PROVE  AloneActs'
    BY DEF AloneActs
  <1>1. ASSUME NEW r \in Runs, Start(r) PROVE AloneActs'
    <2>1. alone' = r /\ Active = {} /\ ~terminating
      BY <1>1 DEF Start
    <2>2. Active' \subseteq {r} /\ pc'[r] = "running" /\ ~terminating'
      BY <1>1, <2>1 DEF Start, Active, TypeOK, cluster
    <2> QED
      BY <2>1, <2>2 DEF AloneActs
  <1>2. ASSUME NEW r \in Runs, Put(r) PROVE AloneActs'
    BY <1>2, PutIs DEF AloneActs, Active, history
  <1>3. ASSUME NEW r \in Runs, Moves(r) PROVE AloneActs'
    <2>1. Active' \subseteq Active /\ \A q \in Runs : pc'[q] = "idle" => pc[q] = "idle"
      BY <1>3, MovesIs DEF Active
    <2>2. UNCHANGED <<alone, command, terminating>>
      BY <1>3, MovesIs DEF cluster, history
    <2> QED
      BY <2>1, <2>2 DEF AloneActs, TypeOK
  <1>4. ASSUME NEW r \in Runs, Deletes(r) PROVE AloneActs'
    <2>1. UNCHANGED <<alone, command, pc>> /\ Uninstalling(r)
      BY <1>4, DeletesIs DEF history
    <2>2. r = alone
      BY <2>1 DEF AloneActs, Active, Uninstalling
    <2> QED
      BY <2>1, <2>2, KindsDiffer DEF AloneActs, Active, Uninstalling
  <1>5. ASSUME NEW d \in Deployments, PodStarts(d) \/ PodStops(d) PROVE AloneActs'
    BY <1>5, PodsIs DEF cli, history, AloneActs, Active
  <1>6. CASE Finalize
    BY <1>6, FinalizeIs DEF history, AloneActs, Active
  <1>7. CASE UNCHANGED vars
    BY <1>7 DEF vars, cli, cluster, history, AloneActs, Active
  <1> QED
    BY <1>1, <1>2, <1>3, <1>4, <1>5, <1>6, <1>7, StepKinds

\* Who acts when a run is alone.
LEMMA AloneIs ==
    ASSUME AloneActs, NEW q \in Runs, alone = q, NEW r \in Runs, pc[r] = "running"
    PROVE  r = q
  BY InstallerAssumption DEF AloneActs, Active

-----------------------------------------------------------------------------
(* What an install alone has written *)

LEMMA PutCreates ==
    ASSUME TypeOK, NEW r \in Runs, Put(r)
    PROVE  \A d \in Deployments :
              \/ created'[d] = created[d] /\ (Present(d) \/ objects'[d] = objects[d])
              \/ created'[d] = r /\ ~Present(d) /\ d = Plan[step[r]] /\ objects'[d] = r
  <1> DEFINE o == Plan[step[r]]
  <1>1. created' = IF o \in Deployments /\ ~Present(o) THEN [created EXCEPT ![o] = r] ELSE created
    BY DEF Put
  <1>2. objects' = [objects EXCEPT ![o] = r] /\ o \in Objects
    BY PutIs
  <1> QED
    BY <1>1, <1>2, DeploymentsAreObjects DEF TypeOK

LEMMA NextCreated ==
    TypeOK /\ PositionsInPlan /\ CreatedByInstalls /\ [Next]_vars => CreatedByInstalls'
  <1> SUFFICES ASSUME TypeOK, PositionsInPlan, CreatedByInstalls, [Next]_vars,
                      NEW d \in Deployments
               PROVE  /\ created'[d] # None <=> objects'[d] # None
                      /\ loaded'[d] # None => objects'[d] # None
                      /\ created'[d] # None => command'[created'[d]] \in Installs
    BY DEF CreatedByInstalls, Present
  <1> DEFINE Goal == /\ created'[d] # None <=> objects'[d] # None
                     /\ loaded'[d] # None => objects'[d] # None
                     /\ created'[d] # None => command'[created'[d]] \in Installs
  <1>0. /\ created[d] # None <=> objects[d] # None
        /\ loaded[d] # None => objects[d] # None
        /\ created[d] # None => command[created[d]] \in Installs /\ created[d] \in Runs
    BY DEF CreatedByInstalls, Present, TypeOK
  <1>1. ASSUME NEW r \in Runs, Start(r) PROVE Goal
    <2>1. created[d] # r \/ created[d] = None
      BY <1>0, <1>1, InstallerAssumption DEF Start, PositionsInPlan
    <2>2. \A q \in Runs \ {r} : command'[q] = command[q]
      BY <1>1 DEF Start, TypeOK
    <2> QED
      BY <1>0, <1>1, <2>1, <2>2 DEF Start, cluster
  <1>2. ASSUME NEW r \in Runs, Put(r) PROVE Goal
    <2>1. command' = command /\ loaded' = loaded /\ command[r] \in Installs /\ r # None
      BY <1>2, PutIs, InstallerAssumption DEF Installing
    <2>2. objects'[d] = objects[d] \/ objects'[d] = r
      BY <1>2, PutIs, DeploymentsAreObjects DEF TypeOK
    <2>3. \/ created'[d] = created[d] /\ (objects[d] # None \/ objects'[d] = objects[d])
          \/ created'[d] = r /\ objects[d] = None /\ objects'[d] = r
      BY <1>2, PutCreates DEF Present
    <2> QED
      BY <1>0, <2>1, <2>2, <2>3
  <1>3. ASSUME NEW r \in Runs, Moves(r) PROVE Goal
    BY <1>0, <1>3, MovesIs DEF cluster
  <1>4. ASSUME NEW r \in Runs, Deletes(r) PROVE Goal
    <2>1. command' = command /\ step[r] \in 1..13
      BY <1>4, DeletesIs
    <2>2. CASE UNCHANGED <<cluster, read>>
      BY <1>0, <2>1, <2>2 DEF cluster
    <2>3. CASE Gone(Deletions[step[r]])
      <3>1. d \in Objects /\ d # "namespace"
        BY DeploymentsAreObjects DEF ClusterScoped
      <3> QED
        BY <1>0, <2>1, <2>3, <3>1, GoneIs, DeletionInObjects
    <2> QED
      BY <1>4, <2>2, <2>3, DeletesIs
  <1>5. ASSUME NEW e \in Deployments, PodStarts(e) \/ PodStops(e) PROVE Goal
    BY <1>0, <1>5, PodsIs DEF cli, Present
  <1>6. CASE Finalize
    BY <1>6, FinalizeIs
  <1>7. CASE UNCHANGED vars
    BY <1>0, <1>7 DEF vars, cli, cluster
  <1> QED
    BY <1>1, <1>2, <1>3, <1>4, <1>5, <1>6, <1>7, StepKinds

LEMMA NextInstalled ==
    TypeOK /\ PositionsInPlan /\ AloneActs /\ InstalledSoFar /\ [Next]_vars => InstalledSoFar'
  <1> SUFFICES ASSUME TypeOK, PositionsInPlan, AloneActs, InstalledSoFar, [Next]_vars,
                      NEW q \in Runs, alone' = q, Installing(q)',
                      NEW i \in 1..13, i < step'[q]
               PROVE  objects'[Plan[i]] = q
    BY PlanIs DEF InstalledSoFar
  <1>0. Plan[i] \in Objects /\ step \in [Runs -> 1..16]
    BY PlanIs, StepType DEF Objects
  <1>a. alone = q /\ Installing(q) /\ i < step[q] => objects[Plan[i]] = q
    BY PlanIs DEF InstalledSoFar
  <1>1. ASSUME NEW r \in Runs, Start(r) PROVE FALSE
    <2>1. q = r /\ step'[q] = 1
      BY <1>1, InstallerAssumption DEF Start, PositionsInPlan
    <2> QED
      BY <2>1
  <1>2. ASSUME NEW r \in Runs, Put(r) PROVE objects'[Plan[i]] = q
    <2>1. alone = q /\ q = r /\ Installing(q)
      BY <1>2, PutIs, AloneIs DEF history, Installing
    <2>2. i < step[q] \/ i = step[q]
      BY <1>0, <1>2, <2>1, PutIs
    <2> QED
      BY <1>0, <1>2, <1>a, <2>1, <2>2, PutIs DEF TypeOK
  <1>3. ASSUME NEW r \in Runs, Moves(r) PROVE objects'[Plan[i]] = q
    <2>1. alone = q /\ Installing(q) /\ objects' = objects
      BY <1>3, MovesIs DEF history, cluster, Installing
    <2>2. i < step[q]
      <3>1. WaitDeploymentReady(q) => step[q] > 13
        BY <1>0, PlanIs DEF WaitDeploymentReady, Critical
      <3> QED
        BY <1>0, <1>3, <3>1, MovesIs DEF Installing
    <2> QED
      BY <1>a, <2>1, <2>2
  <1>4. ASSUME NEW r \in Runs, Deletes(r) PROVE FALSE
    <2>1. alone = q /\ command' = command /\ Uninstalling(r)
      BY <1>4, DeletesIs DEF history
    <2> QED
      BY <2>1, AloneIs, KindsDiffer DEF Installing, Uninstalling
  <1>5. ASSUME NEW d \in Deployments, PodStarts(d) \/ PodStops(d) PROVE objects'[Plan[i]] = q
    BY <1>5, <1>a, PodsIs DEF cli, history, Installing
  <1>6. CASE Finalize
    BY <1>6, FinalizeIs, InstallerAssumption DEF history, AloneActs, Installing
  <1>7. CASE UNCHANGED vars
    BY <1>7, <1>a DEF vars, cli, cluster, history, Installing
  <1> QED
    BY <1>1, <1>2, <1>3, <1>4, <1>5, <1>6, <1>7, StepKinds

LEMMA NextInstallComplete ==
    TypeOK /\ PositionsInPlan /\ AloneActs /\ InstalledSoFar /\ InstallComplete /\ [Next]_vars
    => InstallComplete'
  <1> SUFFICES ASSUME TypeOK, PositionsInPlan, AloneActs, InstalledSoFar, InstallComplete,
                      [Next]_vars, NEW q \in Runs, alone' = q, pc'[q] = "ok",
                      command'[q] \in Installs, NEW o \in Objects
               PROVE  objects'[o] = q
    BY DEF InstallComplete
  <1>a. alone = q /\ pc[q] = "ok" /\ command[q] \in Installs => objects[o] = q
    BY DEF InstallComplete
  <1>b. q # None
    BY InstallerAssumption
  <1>1. ASSUME NEW r \in Runs, Start(r) PROVE FALSE
    BY <1>1, <1>b DEF Start, TypeOK
  <1>2. ASSUME NEW r \in Runs, Put(r) PROVE FALSE
    BY <1>2, PutIs, AloneIs DEF history, Installing
  <1>3. ASSUME NEW r \in Runs, Moves(r) PROVE objects'[o] = q
    <2>1. /\ alone = q /\ r = q /\ objects' = objects /\ command' = command
      BY <1>3, MovesIs, AloneIs DEF history, cluster
    <2>2. InstallReturns(q)
      BY <1>3, <2>1, KindsDiffer DEF Moves, Get, WaitDeploymentReady, InstallFails, UninstallReturns,
         Killed, Ends, TypeOK, Installing, Uninstalling
    <2>3. Installing(q) /\ step[q] \in {14, 16}
      BY <2>2, EndType DEF InstallReturns, Installing
    <2>4. PICK i \in 1..13 : o = Plan[i]
      BY PlanIs DEF Objects
    <2> QED
      BY <2>1, <2>3, <2>4, PlanIs DEF InstalledSoFar
  <1>4. ASSUME NEW r \in Runs, Deletes(r) PROVE FALSE
    BY <1>4, DeletesIs, AloneIs DEF history, Uninstalling
  <1>5. ASSUME NEW d \in Deployments, PodStarts(d) \/ PodStops(d) PROVE objects'[o] = q
    BY <1>5, <1>a, PodsIs DEF cli, history
  <1>6. CASE Finalize
    BY <1>6, <1>b, FinalizeIs DEF history, AloneActs
  <1>7. CASE UNCHANGED vars
    BY <1>7, <1>a DEF vars, cli, cluster, history
  <1> QED
    BY <1>1, <1>2, <1>3, <1>4, <1>5, <1>6, <1>7, StepKinds

LEMMA NextSecrets ==
    /\ TypeOK /\ PositionsInPlan /\ AloneActs /\ CreatedByInstalls /\ InstalledSoFar
    /\ SecretsBeforePods /\ [Next]_vars
    => SecretsBeforePods'
  <1> SUFFICES ASSUME TypeOK, PositionsInPlan, AloneActs, CreatedByInstalls, InstalledSoFar,
                      SecretsBeforePods, [Next]_vars, NEW d \in Deployments, alone' # None,
                      created'[d] = alone'
               PROVE  objects'[Secret[d]] = alone'
    BY DEF SecretsBeforePods
  <1>0. Secret[d] \in Objects \ (ClusterScoped \union Deployments)
    BY DeploymentsAreObjects
  <1>a. alone # None /\ created[d] = alone => objects[Secret[d]] = alone
    BY DEF SecretsBeforePods
  <1>1. ASSUME NEW r \in Runs, Start(r) PROVE FALSE
    <2>1. created[d] = r /\ command[r] = None /\ created[d] # None
      BY <1>1, InstallerAssumption DEF Start, PositionsInPlan, cluster
    <2> QED
      BY <2>1, InstallerAssumption DEF CreatedByInstalls
  <1>2. ASSUME NEW r \in Runs, Put(r) PROVE objects'[Secret[d]] = alone'
    <2>1. alone' = alone /\ r = alone /\ Installing(r)
      BY <1>2, PutIs, AloneIs DEF history, Installing, TypeOK
    <2>2. CASE created'[d] = created[d]
      BY <1>0, <1>2, <1>a, <2>1, <2>2, PutIs DEF TypeOK
    <2>3. CASE d = Plan[step[r]]
      <3>1. PICK i \in 1..13 : i < step[r] /\ Plan[i] = Secret[d] /\ Plan[i] # d
        <4>1. step[r] \in 1..13
          BY <1>2, PutIs
        <4>2. CASE d = "certManager"
          <5>1. step[r] = 7
            BY <2>3, <4>1, <4>2, DeploymentPositions
          <5>2. 2 < step[r] /\ Plan[2] = Secret[d] /\ Plan[2] # d
            BY <5>1, <4>2, PlanIs DEF Secret
          <5> QED
            BY <5>2
        <4>3. CASE d = "webhook"
          <5>1. step[r] = 11
            BY <2>3, <4>1, <4>3, DeploymentPositions
          <5>2. 3 < step[r] /\ Plan[3] = Secret[d] /\ Plan[3] # d
            BY <5>1, <4>3, PlanIs DEF Secret
          <5> QED
            BY <5>2
        <4> QED
          BY <4>2, <4>3 DEF Deployments
      <3>2. objects[Plan[i]] = r
        BY <2>1, <3>1, PlanIs DEF InstalledSoFar
      <3> QED
        BY <1>0, <1>2, <2>1, <3>1, <3>2, PutIs DEF TypeOK
    <2> QED
      BY <1>2, <2>2, <2>3, PutCreates
  <1>3. ASSUME NEW r \in Runs, Moves(r) PROVE objects'[Secret[d]] = alone'
    BY <1>3, <1>a, MovesIs DEF cluster, history
  <1>4. ASSUME NEW r \in Runs, Deletes(r) PROVE FALSE
    <2>1. alone' = alone /\ r = alone /\ Uninstalling(r) /\ step[r] \in 1..13
      BY <1>4, DeletesIs, AloneIs DEF history, Uninstalling, TypeOK
    <2>2. created'[d] = created[d]
      BY <1>4, <2>1, DeletesIs, GoneIs, DeletionInObjects DEF cluster
    <2> QED
      BY <2>1, <2>2, KindsDiffer DEF CreatedByInstalls, Uninstalling
  <1>5. ASSUME NEW e \in Deployments, PodStarts(e) \/ PodStops(e) PROVE objects'[Secret[d]] = alone'
    BY <1>5, <1>a, PodsIs DEF history
  <1>6. CASE Finalize
    BY <1>6, FinalizeIs
  <1>7. CASE UNCHANGED vars
    BY <1>7, <1>a DEF vars, cluster, history
  <1> QED
    BY <1>1, <1>2, <1>3, <1>4, <1>5, <1>6, <1>7, StepKinds

LEMMA NextFreshPods ==
    /\ TypeOK /\ PositionsInPlan /\ AloneActs /\ CreatedByInstalls /\ SecretsBeforePods
    /\ FreshPodsTrusted /\ [Next]_vars
    => FreshPodsTrusted'
  <1> SUFFICES ASSUME TypeOK, PositionsInPlan, AloneActs, CreatedByInstalls, SecretsBeforePods,
                      FreshPodsTrusted, [Next]_vars, NEW d \in Deployments, alone' # None,
                      created'[d] = alone'
               PROVE  loaded'[d] \in {None, alone'}
    BY DEF FreshPodsTrusted
  <1>a. alone # None /\ created[d] = alone => loaded[d] \in {None, alone}
    BY DEF FreshPodsTrusted
  <1>1. ASSUME NEW r \in Runs, Start(r) PROVE FALSE
    <2>1. created[d] = r /\ command[r] = None /\ created[d] # None
      BY <1>1, InstallerAssumption DEF Start, PositionsInPlan, cluster
    <2> QED
      BY <2>1, InstallerAssumption DEF CreatedByInstalls
  <1>2. ASSUME NEW r \in Runs, Put(r) PROVE loaded'[d] \in {None, alone'}
    <2>1. ~Present(d) => loaded[d] = None
      BY DEF CreatedByInstalls
    <2> QED
      BY <1>2, <1>a, <2>1, PutIs, PutCreates DEF history
  <1>3. ASSUME NEW r \in Runs, Moves(r) PROVE loaded'[d] \in {None, alone'}
    BY <1>3, <1>a, MovesIs DEF cluster, history
  <1>4. ASSUME NEW r \in Runs, Deletes(r) PROVE loaded'[d] \in {None, alone'}
    <2>1. alone' = alone /\ step[r] \in 1..13
      BY <1>4, DeletesIs DEF history
    <2> QED
      BY <1>4, <1>a, <2>1, DeletesIs, GoneIs, DeletionInObjects DEF cluster
  <1>5. ASSUME NEW e \in Deployments, PodStarts(e) \/ PodStops(e)
        PROVE  loaded'[d] \in {None, alone'}
    BY <1>5, <1>a, PodsIs DEF history, SecretsBeforePods
  <1>6. CASE Finalize
    BY <1>6, FinalizeIs
  <1>7. CASE UNCHANGED vars
    BY <1>7, <1>a DEF vars, cluster, history
  <1> QED
    BY <1>1, <1>2, <1>3, <1>4, <1>5, <1>6, <1>7, StepKinds

-----------------------------------------------------------------------------
(* What an uninstall has removed *)

\* Another deletion takes nothing back.
LEMMA DeleteKeepsRemoved ==
    ASSUME TypeOK, PositionsInPlan, NEW r \in Runs, Delete(r), NEW q \in Runs, RemovedSoFar(q)
    PROVE  RemovedSoFar(q)'
  <1>0. step \in [Runs -> 1..16] /\ step[r] \in 1..13 /\ step' = [step EXCEPT ![r] = @ + 1]
    BY StepType, DeletesIs DEF Delete, Deletes
  <1>1. Gone(Deletions[step[r]]) /\ Deletions[step[r]] \in Objects
    BY <1>0, DeletionInObjects DEF Delete
  <1>2. \A o \in Objects : objects[o] = None => objects'[o] = None
    BY <1>1, GoneIs
  <1>3. ASSUME NEW i \in 1..12, i < step'[q] PROVE ~Present(Deletions[i])'
    <2>1. CASE i < step[q]
      BY <1>2, <2>1, DeletionsAre DEF RemovedSoFar, Present
    <2>2. CASE ~(i < step[q])
      <3>1. q = r /\ i = step[r]
        BY <1>0, <1>3, <2>2
      <3> QED
        BY <1>1, <3>1, GoneIs, DeletionsAre DEF Present
    <2> QED
      BY <2>1, <2>2
  <1>4. ASSUME step'[q] > 13 PROVE terminating' \/ ~Present("namespace")'
    <2>1. CASE step[q] > 13
      BY <1>1, <1>2, <2>1, GoneIs, ObjectsAre DEF RemovedSoFar, Present
    <2>2. CASE ~(step[q] > 13)
      <3>1. q = r /\ step[r] = 13
        BY <1>0, <1>4, <2>2
      <3> QED
        BY <1>1, <3>1, GoneIs, DeletionsAre DEF Present
    <2> QED
      BY <2>1, <2>2
  <1> QED
    BY <1>3, <1>4 DEF RemovedSoFar

\* Neither do the controllers.
LEMMA FinalizeKeepsRemoved ==
    ASSUME TypeOK, Finalize, NEW q \in Runs, RemovedSoFar(q)
    PROVE  RemovedSoFar(q)'
  <1>1. \A o \in Objects : objects[o] = None => objects'[o] = None
    BY FinalizeIs
  <1>2. objects'["namespace"] = None
    BY FinalizeIs, ObjectsAre
  <1>3. step' = step
    BY FinalizeIs
  <1> QED
    BY <1>1, <1>2, <1>3, DeletionsAre DEF RemovedSoFar, Present

\* A run that goes on uninstalling without a deletion stays where it is.
LEMMA MovesKeepRemoved ==
    ASSUME TypeOK, NEW r \in Runs, Moves(r), NEW q \in Runs, Uninstalling(q)', RemovedSoFar(q)
    PROVE  RemovedSoFar(q)'
  <1>1. step'[q] = step[q]
    <2>1. CASE q = r
      <3>1. ~WaitDeploymentReady(r)
        BY <2>1, MovesIs, KindsDiffer DEF WaitDeploymentReady, Installing, Uninstalling
      <3> QED
        BY <2>1, <3>1, MovesIs DEF Uninstalling
    <2> QED
      BY <2>1, MovesIs
  <1> QED
    BY <1>1, MovesIs DEF RemovedSoFar, Present, cluster

LEMMA NextRemovedAlone ==
    TypeOK /\ PositionsInPlan /\ AloneActs /\ RemovedAlone /\ [Next]_vars => RemovedAlone'
  <1> SUFFICES ASSUME TypeOK, PositionsInPlan, AloneActs, RemovedAlone, [Next]_vars,
                      NEW q \in Runs, alone' = q, Uninstalling(q)', q \notin erred'
               PROVE  RemovedSoFar(q)'
    BY DEF RemovedAlone
  <1>a. alone = q /\ Uninstalling(q) /\ q \notin erred => RemovedSoFar(q)
    BY DEF RemovedAlone
  <1>1. ASSUME NEW r \in Runs, Start(r) PROVE RemovedSoFar(q)'
    <2>1. step'[q] = 1
      BY <1>1, InstallerAssumption DEF Start, PositionsInPlan
    <2> QED
      BY <2>1 DEF RemovedSoFar
  <1>2. ASSUME NEW r \in Runs, Put(r) PROVE FALSE
    BY <1>2, PutIs, AloneIs, KindsDiffer DEF history, Installing, Uninstalling
  <1>3. ASSUME NEW r \in Runs, Moves(r) PROVE RemovedSoFar(q)'
    <2>1. alone = q /\ Uninstalling(q) /\ q \notin erred
      BY <1>3, MovesIs DEF history, Uninstalling
    <2> QED
      BY <1>3, <1>a, <2>1, MovesKeepRemoved
  <1>4. ASSUME NEW r \in Runs, Deletes(r) PROVE RemovedSoFar(q)'
    <2>1. alone = q /\ r = q /\ Uninstalling(q) /\ q \notin erred /\ Delete(q)
      BY <1>4, DeletesIs, AloneIs DEF history, Uninstalling
    <2> QED
      BY <1>a, <2>1, DeleteKeepsRemoved
  <1>5. ASSUME NEW d \in Deployments, PodStarts(d) \/ PodStops(d) PROVE RemovedSoFar(q)'
    BY <1>5, <1>a, PodsIs DEF cli, history, Uninstalling, RemovedSoFar, Present
  <1>6. CASE Finalize
    BY <1>6, <1>a, FinalizeIs, FinalizeKeepsRemoved DEF history, Uninstalling
  <1>7. CASE UNCHANGED vars
    BY <1>7, <1>a DEF vars, cli, cluster, history, Uninstalling, RemovedSoFar, Present
  <1> QED
    BY <1>1, <1>2, <1>3, <1>4, <1>5, <1>6, <1>7, StepKinds

LEMMA NextUninstallComplete ==
    TypeOK /\ PositionsInPlan /\ AloneActs /\ RemovedAlone /\ UninstallComplete /\ [Next]_vars
    => UninstallComplete'
  <1> SUFFICES ASSUME TypeOK, PositionsInPlan, AloneActs, RemovedAlone, UninstallComplete,
                      [Next]_vars, NEW q \in Runs, alone' = q, pc'[q] = "ok",
                      command'[q] \in Uninstalls
               PROVE  /\ \A o \in Objects \ {"namespace"} : objects'[o] = None
                      /\ command'[q] = "uninstallWithNamespace" =>
                            terminating' \/ objects'["namespace"] = None
    BY DEF UninstallComplete, Present
  <1> DEFINE Goal == /\ \A o \in Objects \ {"namespace"} : objects'[o] = None
                     /\ command'[q] = "uninstallWithNamespace" =>
                           terminating' \/ objects'["namespace"] = None
  <1>a. alone = q /\ pc[q] = "ok" /\ command[q] \in Uninstalls =>
           /\ \A o \in Objects \ {"namespace"} : objects[o] = None
           /\ command[q] = "uninstallWithNamespace" => terminating \/ objects["namespace"] = None
    BY DEF UninstallComplete, Present
  <1>b. q # None
    BY InstallerAssumption
  <1>1. ASSUME NEW r \in Runs, Start(r) PROVE FALSE
    BY <1>1, <1>b DEF Start, TypeOK
  <1>2. ASSUME NEW r \in Runs, Put(r) PROVE FALSE
    BY <1>2, PutIs, AloneIs DEF history, Installing
  <1>3. ASSUME NEW r \in Runs, Moves(r) PROVE Goal
    <2>1. /\ alone = q /\ r = q /\ command' = command
          /\ objects' = objects /\ terminating' = terminating
      BY <1>3, MovesIs, AloneIs DEF history, cluster
    <2>2. UninstallReturns(q) /\ q \notin erred
      BY <1>3, <2>1, KindsDiffer DEF Moves, Get, WaitDeploymentReady, InstallFails, InstallReturns,
         UninstallReturns, Killed, Ends, TypeOK, Installing, Uninstalling
    <2>3. RemovedSoFar(q) /\ step[q] = End(command[q]) /\ command[q] \in Uninstalls
      BY <2>1, <2>2 DEF UninstallReturns, RemovedAlone, Uninstalling
    <2>4. step[q] \in {13, 14} /\ (command[q] = "uninstallWithNamespace" => step[q] = 14)
      BY <2>3, EndType, EndIs
    <2>5. \A i \in 1..12 : objects[Deletions[i]] = None
      BY <2>3, <2>4 DEF RemovedSoFar, Present
    <2>6. \A o \in Objects \ {"namespace"} : objects[o] = None
      BY <2>5, DeletionsAre
    <2>7. step[q] = 14 => terminating \/ objects["namespace"] = None
      BY <2>3 DEF RemovedSoFar, Present
    <2> QED
      BY <2>1, <2>4, <2>6, <2>7
  <1>4. ASSUME NEW r \in Runs, Deletes(r) PROVE FALSE
    BY <1>4, DeletesIs, AloneIs DEF history, Uninstalling
  <1>5. ASSUME NEW d \in Deployments, PodStarts(d) \/ PodStops(d) PROVE Goal
    BY <1>5, <1>a, PodsIs DEF cli, history
  <1>6. CASE Finalize
    <2>1. \A o \in Objects : objects[o] = None => objects'[o] = None
      BY <1>6, FinalizeIs
    <2>2. objects'["namespace"] = None
      BY <1>6, FinalizeIs, ObjectsAre
    <2> QED
      BY <1>6, <1>a, <2>1, <2>2, FinalizeIs DEF history
  <1>7. CASE UNCHANGED vars
    BY <1>7, <1>a DEF vars, cli, cluster, history
  <1> QED
    BY <1>1, <1>2, <1>3, <1>4, <1>5, <1>6, <1>7, StepKinds

-----------------------------------------------------------------------------
(* As long as no install meets an uninstall and no deletion fails *)

LEMMA NextOneKind ==
    TypeOK /\ (~mixed => OneKindAtATime) /\ PositionsInPlan /\ [Next]_vars
    => (~mixed' => OneKindAtATime')
  <1> SUFFICES ASSUME TypeOK, ~mixed => OneKindAtATime, PositionsInPlan, [Next]_vars, ~mixed'
               PROVE  OneKindAtATime'
    OBVIOUS
  <1>1. ASSUME NEW r \in Runs, Start(r) PROVE OneKindAtATime'
    <2>1. ~mixed /\ Active' = Active \union {r}
      BY <1>1 DEF Start, Active, TypeOK
    <2>2. PICK c \in Installs \union Uninstalls :
             /\ command' = [command EXCEPT ![r] = c]
             /\ \A q \in Active : (command[q] \in Installs) <=> (c \in Installs)
      BY <1>1 DEF Start
    <2>3. r \notin Active /\ Active \subseteq Runs
      BY <1>1 DEF Start, Active
    <2>4. command'[r] = c /\ \A q \in Active : command'[q] = command[q]
      BY <2>2, <2>3 DEF TypeOK
    <2> QED
      BY <2>1, <2>2, <2>4 DEF OneKindAtATime
  <1>2. ASSUME Active' \subseteq Active, UNCHANGED <<command, mixed>> PROVE OneKindAtATime'
    BY <1>2 DEF OneKindAtATime
  <1>3. ASSUME NEW r \in Runs, Put(r) PROVE OneKindAtATime'
    BY <1>2, <1>3, PutIs DEF history, Active
  <1>4. ASSUME NEW r \in Runs, Moves(r) PROVE OneKindAtATime'
    BY <1>2, <1>4, MovesIs DEF history, Active
  <1>5. ASSUME NEW r \in Runs, Deletes(r) PROVE OneKindAtATime'
    BY <1>2, <1>5, DeletesIs DEF history, Active
  <1>6. ASSUME NEW d \in Deployments, PodStarts(d) \/ PodStops(d) PROVE OneKindAtATime'
    BY <1>2, <1>6, PodsIs DEF cli, history, Active
  <1>7. CASE Finalize
    BY <1>2, <1>7, FinalizeIs DEF history, Active
  <1>8. CASE UNCHANGED vars
    BY <1>2, <1>8 DEF vars, cli, history, Active
  <1> QED
    BY <1>1, <1>3, <1>4, <1>5, <1>6, <1>7, <1>8, StepKinds

\* No install is there to lose what an uninstall removes.
LEMMA OnlyOneKind ==
    ASSUME OneKindAtATime, NEW q \in Runs, Installing(q), NEW r \in Runs, Uninstalling(r)
    PROVE  FALSE
  BY KindsDiffer DEF OneKindAtATime, Active, Installing, Uninstalling

LEMMA StrandedIs ==
    Stranded <=> /\ objects["webhookConfiguration"] # None
                 /\ objects["webhook"] = None \/ objects["webhookService"] = None
  BY DEF Stranded, Present

LEMMA PutOrderly ==
    ASSUME TypeOK, PositionsInPlan, ReadCurrent, OneKindAtATime, Orderly, NEW r \in Runs, Put(r)
    PROVE  Orderly'
  <1> DEFINE o == Plan[step[r]]
  <1>0. /\ Installing(r) /\ step[r] \in 1..13 /\ o \in Objects /\ r # None
        /\ UNCHANGED <<command, pc, terminating>>
        /\ objects' = [objects EXCEPT ![o] = r] /\ step' = [step EXCEPT ![r] = @ + 1]
        /\ step \in [Runs -> 1..16] /\ objects \in [Objects -> Runs \union {None}]
    BY PutIs, StepType, InstallerAssumption DEF TypeOK
  <1>1. objects'[o] # None /\ \A p \in Objects : objects[p] # None => objects'[p] # None
    BY <1>0
  <1>2. InstalledInOrder'
    <2> SUFFICES ASSUME NEW q \in Runs, Installing(q)', NEW i \in 2..13, i < step'[q]
                 PROVE  objects'[Plan[i]] # None
      BY DEF InstalledInOrder, Present
    <2>1. Plan[i] \in Objects /\ Installing(q)
      BY <1>0, PlanIs DEF Objects, Installing
    <2>2. i < step[q] \/ (q = r /\ i = step[r])
      BY <1>0
    <2> QED
      BY <1>1, <2>1, <2>2 DEF Orderly, InstalledInOrder, Present
  <1>3. RemovedInOrder'
    BY <1>0, OnlyOneKind DEF RemovedInOrder, Uninstalling
  <1>4. TerminatingEmpty'
    <2> SUFFICES ASSUME terminating PROVE TerminatingEmpty'
      BY <1>0 DEF TerminatingEmpty
    <2>1. step[r] <= 2 /\ \A p \in Objects \ {"namespace"} : objects[p] = None
      BY <1>0 DEF Orderly, TerminatingEmpty, Present
    <2>2. step[r] = 1
      <3> SUFFICES ASSUME step[r] = 2 PROVE FALSE
        BY <1>0, <2>1
      <3>1. o = "rootCA" /\ o \in Objects \ {"namespace"} /\ o \notin ClusterScoped
        BY PlanIs, <1>0 DEF ClusterScoped
      <3>2. At(r, o) /\ Accepted(r, o)
        BY <1>0, PutIs, PlanIs DEF At
      <3>3. read[r] # "present"
        BY <1>0, <2>1, <3>1, <3>2 DEF ReadCurrent, Present
      <3> QED
        BY <3>1, <3>2, <3>3 DEF Accepted
    <2>3. o = "namespace"
      BY <2>2, PlanIs
    <2>4. \A p \in Objects \ {"namespace"} : objects'[p] = None
      BY <1>0, <2>1, <2>3
    <2>5. \A q \in Runs : Installing(q)' => step'[q] <= 2
      BY <1>0, <2>2 DEF Orderly, TerminatingEmpty, Installing
    <2> QED
      BY <2>4, <2>5 DEF TerminatingEmpty, Present
  <1>5. ~Stranded'
    <2>1. \A p \in {"webhook", "webhookService", "webhookConfiguration"} : p \in Objects
      BY ObjectsAre
    <2>2. CASE step[r] = 13
      <3>1. objects["webhook"] # None /\ objects["webhookService"] # None
        <4>1. \A i \in 2..13 : i < 13 => objects[Plan[i]] # None
          BY <1>0, <2>2 DEF Orderly, InstalledInOrder, Present
        <4> QED
          BY <4>1, PlanIs
      <3> QED
        BY <1>1, <2>1, <3>1 DEF Stranded, Present
    <2>3. CASE step[r] # 13
      <3>1. o # "webhookConfiguration"
        BY <1>0, <2>3, DeploymentPositions
      <3>2. objects'["webhookConfiguration"] = objects["webhookConfiguration"]
        BY <1>0, <2>1, <3>1
      <3> QED
        BY <1>1, <2>1, <3>2, StrandedIs DEF Orderly, Stranded, Present
    <2> QED
      BY <2>2, <2>3
  <1> QED
    BY <1>2, <1>3, <1>4, <1>5 DEF Orderly

LEMMA DeleteOrderly ==
    ASSUME TypeOK, PositionsInPlan, OneKindAtATime, Orderly, NEW r \in Runs, Delete(r)
    PROVE  Orderly'
  <1>0. /\ Uninstalling(r) /\ step[r] \in 1..13 /\ UNCHANGED <<command, pc>>
        /\ Gone(Deletions[step[r]]) /\ Deletions[step[r]] \in Objects
        /\ RemovedSoFar(r)
    BY DeletesIs, DeletionInObjects DEF Delete, Deletes, Orderly, RemovedInOrder
  <1>1. \A q \in Runs : ~Installing(q)'
    BY <1>0, OnlyOneKind DEF Installing
  <1>2. \A o \in Objects : objects[o] = None => objects'[o] = None
    BY <1>0, GoneIs
  <1>3. RemovedInOrder'
    BY <1>0, DeleteKeepsRemoved DEF Orderly, RemovedInOrder, Uninstalling
  <1>4. TerminatingEmpty'
    <2> SUFFICES ASSUME terminating', NEW o \in Objects \ {"namespace"} PROVE objects'[o] = None
      BY <1>1 DEF TerminatingEmpty, Present
    <2>1. CASE terminating
      BY <1>2, <2>1 DEF Orderly, TerminatingEmpty, Present
    <2>2. CASE ~terminating
      <3>1. Deletions[step[r]] = "namespace"
        BY <1>0, <2>2, GoneIs
      <3>2. step[r] = 13
        BY <1>0, <3>1, DeletionsAre
      <3> QED
        BY <1>0, <1>2, <3>2, DeletionsAre DEF RemovedSoFar, Present
    <2> QED
      BY <2>1, <2>2
  <1>5. objects'["webhookConfiguration"] = None
    <2>1. CASE step[r] = 1
      BY <1>0, <2>1, GoneIs, DeletionsAre
    <2>2. CASE step[r] # 1
      BY <1>0, <1>2, <2>2, DeletionsAre DEF RemovedSoFar, Present
    <2> QED
      BY <2>1, <2>2
  <1> QED
    BY <1>1, <1>3, <1>4, <1>5 DEF Orderly, InstalledInOrder, Stranded, Present

LEMMA FinalizeOrderly ==
    ASSUME TypeOK, PositionsInPlan, Orderly, Finalize
    PROVE  Orderly'
  <1>0. step \in [Runs -> 1..16] /\ UNCHANGED <<command, pc, step>> /\ terminating /\ ~terminating'
    BY StepType, FinalizeIs
  <1>1. InstalledInOrder'
    <2>1. \A q \in Runs : Installing(q) => step[q] <= 2
      BY <1>0 DEF Orderly, TerminatingEmpty
    <2>2. \A q \in Runs : Installing(q)' => step'[q] <= 2 /\ step'[q] \in Nat
      BY <1>0, <2>1 DEF Installing
    <2> QED
      BY <2>2 DEF InstalledInOrder
  <1>2. RemovedInOrder'
    BY <1>0, FinalizeKeepsRemoved DEF Orderly, RemovedInOrder, Uninstalling
  <1>3. objects'["webhookConfiguration"] = None
    <2>1. /\ "webhookConfiguration" \in Objects \ {"namespace"}
          /\ "webhookConfiguration" \in ClusterScoped \ {"namespace"}
      BY ObjectsAre DEF ClusterScoped
    <2>2. objects["webhookConfiguration"] = None
      BY <1>0, <2>1 DEF Orderly, TerminatingEmpty, Present
    <2> QED
      BY <2>1, <2>2, FinalizeIs
  <1> QED
    BY <1>0, <1>1, <1>2, <1>3 DEF Orderly, TerminatingEmpty, Stranded, Present

LEMMA MovesOrderly ==
    ASSUME TypeOK, PositionsInPlan, Orderly, NEW r \in Runs, Moves(r)
    PROVE  Orderly'
  <1>0. UNCHANGED <<command, objects, terminating>> /\ step \in [Runs -> 1..16]
    BY MovesIs, StepType DEF cluster
  <1>1. ASSUME NEW q \in Runs, Installing(q)'
        PROVE  /\ Installing(q)
               /\ step'[q] = step[q] \/ (step[q] > 13 /\ step'[q] = step[q] + 1)
    <2>1. Installing(q)
      BY <1>1, MovesIs DEF Installing
    <2>2. WaitDeploymentReady(q) => step[q] > 13
      BY <1>0, PlanIs DEF WaitDeploymentReady, Critical
    <2> QED
      BY <1>1, <2>1, <2>2, MovesIs DEF Installing
  <1>2. InstalledInOrder'
    <2> SUFFICES ASSUME NEW q \in Runs, Installing(q)', NEW i \in 2..13, i < step'[q]
                 PROVE  objects'[Plan[i]] # None
      BY DEF InstalledInOrder, Present
    <2>1. Installing(q) /\ i < step[q]
      BY <1>0, <1>1
    <2> QED
      BY <1>0, <2>1 DEF Orderly, InstalledInOrder, Present
  <1>3. RemovedInOrder'
    BY MovesIs, MovesKeepRemoved DEF Orderly, RemovedInOrder, Uninstalling
  <1>4. TerminatingEmpty'
    <2>1. ASSUME terminating, NEW q \in Runs, Installing(q)' PROVE step'[q] <= 2
      BY <1>0, <1>1, <2>1 DEF Orderly, TerminatingEmpty
    <2> QED
      BY <1>0, <2>1 DEF Orderly, TerminatingEmpty, Present
  <1> QED
    BY <1>0, <1>2, <1>3, <1>4 DEF Orderly, Stranded, Present

LEMMA StartOrderly ==
    ASSUME TypeOK, PositionsInPlan, Orderly, NEW r \in Runs, Start(r)
    PROVE  Orderly'
  <1>0. UNCHANGED <<objects, terminating, step>> /\ step[r] = 1
    BY DEF Start, cluster, PositionsInPlan
  <1>1. \A q \in Runs \ {r} : pc'[q] = pc[q] /\ command'[q] = command[q]
    BY DEF Start, TypeOK
  <1>2. InstalledInOrder'
    BY <1>0, <1>1 DEF Orderly, InstalledInOrder, Installing, Present
  <1>3. RemovedInOrder'
    BY <1>0, <1>1 DEF Orderly, RemovedInOrder, RemovedSoFar, Uninstalling, Present
  <1>4. TerminatingEmpty'
    BY <1>0, <1>1 DEF Orderly, TerminatingEmpty, Installing, Present
  <1> QED
    BY <1>0, <1>2, <1>3, <1>4 DEF Orderly, Stranded, Present

LEMMA NextOrderly ==
    ASSUME TypeOK, PositionsInPlan, ReadCurrent, ~mixed => OneKindAtATime,
           ~mixed /\ erred = {} => Orderly, [Next]_vars, ~mixed', erred' = {}
    PROVE  Orderly'
  <1>1. ~mixed /\ erred = {}
    <2>1. ASSUME NEW r \in Runs, Start(r) PROVE ~mixed /\ erred = {}
      BY <2>1 DEF Start
    <2>2. ASSUME NEW r \in Runs, Put(r) \/ Moves(r) PROVE ~mixed /\ erred = {}
      BY <2>2, PutIs, MovesIs DEF history
    <2>3. ASSUME NEW r \in Runs, Deletes(r) PROVE ~mixed /\ erred = {}
      BY <2>3, DeletesIs DEF history
    <2>4. ASSUME NEW d \in Deployments, PodStarts(d) \/ PodStops(d) PROVE ~mixed /\ erred = {}
      BY <2>4, PodsIs DEF cli, history
    <2>5. ASSUME Finalize \/ UNCHANGED vars PROVE ~mixed /\ erred = {}
      BY <2>5, FinalizeIs DEF vars, cli, history
    <2> QED
      BY <2>1, <2>2, <2>3, <2>4, <2>5, StepKinds
  <1>2. OneKindAtATime /\ Orderly
    BY <1>1
  <1>3. ASSUME NEW r \in Runs, Start(r) PROVE Orderly'
    BY <1>2, <1>3, StartOrderly
  <1>4. ASSUME NEW r \in Runs, Put(r) PROVE Orderly'
    BY <1>2, <1>4, PutOrderly
  <1>5. ASSUME NEW r \in Runs, Moves(r) PROVE Orderly'
    BY <1>2, <1>5, MovesOrderly
  <1>6. ASSUME NEW r \in Runs, Deletes(r) PROVE Orderly'
    BY <1>2, <1>6, DeletesIs, DeleteOrderly
  <1>7. ASSUME UNCHANGED <<cli, objects, terminating>> PROVE Orderly'
    BY <1>2, <1>7 DEF cli, Orderly, InstalledInOrder, RemovedInOrder, RemovedSoFar,
       TerminatingEmpty, Stranded, Installing, Uninstalling, Present
  <1>8. ASSUME NEW d \in Deployments, PodStarts(d) \/ PodStops(d) PROVE Orderly'
    BY <1>7, <1>8, PodsIs
  <1>9. CASE Finalize
    BY <1>2, <1>9, FinalizeOrderly
  <1>10. CASE UNCHANGED vars
    BY <1>7, <1>10 DEF vars, cluster
  <1> QED
    BY <1>3, <1>4, <1>5, <1>6, <1>8, <1>9, <1>10, StepKinds

-----------------------------------------------------------------------------
(* The theorems *)

LEMMA InitIInv == Init => IInv
  <1> SUFFICES ASSUME Init PROVE IInv
    OBVIOUS
  <1>1. TypeOK
    BY InitTypeOK
  <1>2. \A r \in Runs : pc[r] = "idle" /\ command[r] = None /\ step[r] = 1 /\ read[r] = "none"
    BY DEF Init
  <1>3. alone = None /\ ~terminating /\ None \notin Runs
    BY InstallerAssumption DEF Init
  <1>4. PositionsInPlan /\ ReadCurrent /\ AloneActs /\ InstalledSoFar /\ InstallComplete
    BY <1>2, <1>3 DEF PositionsInPlan, ReadCurrent, AloneActs, InstalledSoFar, InstallComplete, At,
       Installing
  <1>5. CreatedByInstalls
    BY DeploymentsAreObjects DEF Init, CreatedByInstalls, Present
  <1>6. RemovedAlone /\ UninstallComplete /\ SecretsBeforePods /\ FreshPodsTrusted
    BY <1>3 DEF RemovedAlone, UninstallComplete, SecretsBeforePods, FreshPodsTrusted
  <1>7. OneKindAtATime
    BY <1>2 DEF OneKindAtATime, Active
  <1>8. ~Stranded
    BY ObjectsAre DEF Init, Stranded, Present
  <1>9. Orderly
    BY <1>2, <1>3, <1>8 DEF Orderly, InstalledInOrder, RemovedInOrder, TerminatingEmpty, Installing,
       Uninstalling
  <1> QED
    BY <1>1, <1>4, <1>5, <1>6, <1>7, <1>9 DEF IInv

LEMMA NextIInv == IInv /\ [Next]_vars => IInv'
  <1> SUFFICES ASSUME IInv, [Next]_vars PROVE IInv'
    OBVIOUS
  <1> USE DEF IInv
  <1>1. TypeOK' /\ PositionsInPlan' /\ ReadCurrent'
    BY NextTypeOK, NextPositions, NextReadCurrent
  <1>2. AloneActs' /\ CreatedByInstalls' /\ InstalledSoFar' /\ InstallComplete'
    BY NextAloneActs, NextCreated, NextInstalled, NextInstallComplete
  <1>3. RemovedAlone' /\ UninstallComplete' /\ SecretsBeforePods' /\ FreshPodsTrusted'
    BY NextRemovedAlone, NextUninstallComplete, NextSecrets, NextFreshPods
  <1>4. ~mixed' => OneKindAtATime'
    BY NextOneKind
  <1>5. ~mixed' /\ erred' = {} => Orderly'
    BY NextOrderly
  <1> QED
    BY <1>1, <1>2, <1>3, <1>4, <1>5

\* The invariant holds in every state that commands, failures, kills and the
\* controllers of the cluster can reach, for any number of commands and any
\* overlap of them.
THEOREM Inductive == Spec => []IInv
  <1>1. Init => IInv
    BY InitIInv
  <1>2. IInv /\ [Next]_vars => IInv'
    BY NextIInv
  <1> QED
    BY <1>1, <1>2, PTL DEF Spec

\* Every variable keeps its type, and what an install has read belongs to a
\* step of its plan.
THEOREM TypeCorrect == Spec => []TypeOK
  <1>1. IInv => TypeOK
    BY DEF IInv
  <1> QED
    BY <1>1, Inductive, PTL

\* An install that succeeded undisturbed has written every object of the plan:
\* it was the only one to act, so that each write is still there.
THEOREM InstallLeavesItAll == Spec => []InstallComplete
  <1>1. IInv => InstallComplete
    BY DEF IInv
  <1> QED
    BY <1>1, Inductive, PTL

\* An uninstall that succeeded undisturbed has removed every object, whatever
\* commands before it left half-done.
THEOREM UninstallLeavesNothing == Spec => []UninstallComplete
  <1>1. IInv => UninstallComplete
    BY DEF IInv
  <1> QED
    BY <1>1, Inductive, PTL

\* The webhook configuration outlives its workload only after an error that is
\* reported, or when an install and an uninstall overlap: it is registered
\* last and removed first.
THEOREM StrandedOnlyWithAnError == Spec => []NeverStrandedSilently
  <1>1. IInv => NeverStrandedSilently
    BY DEF IInv, Orderly, NeverStrandedSilently
  <1> QED
    BY <1>1, Inductive, PTL

\* The pods of a deployment that the last undisturbed install created have its
\* own secret, which was written before the deployment.
THEOREM FreshPodsHaveTheirSecret == Spec => []FreshPodsTrusted
  <1>1. IInv => FreshPodsTrusted
    BY DEF IInv
  <1> QED
    BY <1>1, Inductive, PTL
=============================================================================
