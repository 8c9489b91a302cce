------------------------- MODULE KubeSchedulerProofs -------------------------
(***************************************************************************)
(* What holds of a run on kubernetes for every set of processes, secrets,  *)
(* resources and machines, beside every other process of the namespace and *)
(* whatever the controllers do.                                            *)
(***************************************************************************)
EXTENDS KubeScheduler, FiniteSetTheorems, TLAPS

\* What a step is: of a unit of the run, or of a process, which shares the namespace with
\* the run and never takes it away.
LEMMA StepOfSystem ==
  ASSUME [SchedulerNext]_allVars
  PROVE  \/ at[Me] = "valid" /\ [Next]_vars /\ UNCHANGED processVars
         \/ Cluster!ClusterNext /\ UNCHANGED unitVars
         \/ UNCHANGED allVars
BY DEF SchedulerNext, UnitSteps, Processes, Abandoned

-----------------------------------------------------------------------------
(* The secrets.                                                            *)

Steps == {"start", "validate", "configure", "fetch", "getNamespace", "createNamespace", "getSecret",
          "createSecret", "updateSecret", "nodes", "valid", "invalid", "done", "failed", "killed",
          "panic"}

\* Suitable secrets stay suitable, a secret is only there in a namespace, and what
\* the run has checked it has found.
SecretsFit ==
  /\ at \in [Process -> Steps]
  /\ base \subseteq {"cluster-info"} \cup Registry
  /\ secret \in [Cluster!Name -> Cluster!Content]
  /\ attempt \in [Process -> {1, 2}]
  /\ configs \in [Process -> SUBSET Registry]
  /\ unwritten \in [Process -> SUBSET Cluster!Name]
  /\ unchecked \in [Process -> SUBSET Cluster!Name]
  /\ broken \in 0..MaxBroken
  /\ \A p \in Process :
       /\ at[p] = "fetch" => unwritten[p] \subseteq Registry
       /\ at[p] \in {"getSecret", "createSecret", "updateSecret"} => namespace
       /\ at[p] \in {"validate", "valid"} =>
            \A n \in Cluster!Name \ unchecked[p] : Cluster!Suitable(n)
       /\ at[p] = "valid" => unchecked[p] = {}
  /\ \A n \in Cluster!Name : secret[n] # NoSecret => namespace

\* The registries are not empty names, and a secret that is suitable exists.
LEMMA SuitableExists ==
  ASSUME SecretsFit, NEW n \in Cluster!Name, Cluster!Suitable(n)
  PROVE  namespace
BY SecretAssumption DEF SecretsFit, Cluster!Suitable

LEMMA ForemostIsOne ==
  ASSUME NEW names \in SUBSET Cluster!Name
  PROVE  Cluster!Foremost(names) \subseteq names
BY DEF Cluster!Foremost

LEMMA ConfiguredLeads ==
  ASSUME NEW p \in Process, NEW failed \in BOOLEAN, SecretsFit, Cluster!Configured(p, failed)
  PROVE  /\ at' \in [Process -> Steps] /\ attempt' \in [Process -> {1, 2}]
         /\ unchecked' \in [Process -> SUBSET Cluster!Name]
         /\ at'[p] \in {"failed", "done", "validate"}
         /\ at'[p] = "validate" => unchecked'[p] = Cluster!Name
         /\ \A q \in Process \ {p} : at'[q] = at[q] /\ unchecked'[q] = unchecked[q]
BY DEF SecretsFit, Cluster!Configured, Cluster!GoOn, Steps

LEMMA SecretsAtFirst == SchedulerInit => SecretsFit
BY BrokenAssumption
   DEF SchedulerInit, Cluster!ClusterInit, SecretsFit, Steps, Cluster!Name, Cluster!Content,
       Cluster!Suitable

\* The unit steps keep a namespace that is there.
LEMMA NamespaceStays ==
  ASSUME [Next]_vars, namespace
  PROVE  namespace'
<1> USE DEF storeVars
<1>1. ASSUME NEW u \in Unit, Working(u) PROVE namespace'
  BY <1>1 DEF Working, GetNamespace, CreateNamespace, Get, ListPods, Update, Create, Write, Poll,
     Rotate, PollRotation, Read, Delete, ListSets, DeleteSets, ListDoomedPods, DeletePods,
     ListByLabels
<1>2. ASSUME NEW u \in Unit, Failing(u) \/ Controllers(u) PROVE namespace'
  BY <1>2 DEF Failing, TimesOut, RotationTimesOut, Fails, Controllers, Scale, Report, MakePod,
     RemovePod, PlacePod, RunPod, JobEnds
<1>3. ASSUME Troubles \/ \E h \in Host : HostJoins(h) PROVE namespace'
  BY <1>3 DEF Troubles, PodBreaks, PodFails, HostJoins
<1> QED BY <1>1, <1>2, <1>3 DEF Next, Returned, vars

LEMMA SecretsByProcess ==
  ASSUME SecretsFit, NEW p \in Process, Cluster!Configuring(p) \/ Cluster!Killed(p)
  PROVE  SecretsFit'
<1> USE DEF SecretsFit, Cluster!GoOn, Cluster!clusterVars, Cluster!progress
\* A process that does not write.
<1>0. ASSUME UNCHANGED <<base, namespace, secret>>, at' \in [Process -> Steps],
             attempt' \in [Process -> {1, 2}], configs' \in [Process -> SUBSET Registry],
             unwritten' \in [Process -> SUBSET Cluster!Name],
             unchecked' \in [Process -> SUBSET Cluster!Name], broken' \in 0..MaxBroken,
             \A q \in Process \ {p} : UNCHANGED <<at[q], unwritten[q], unchecked[q]>>,
             at'[p] = "fetch" => unwritten'[p] \subseteq Registry,
             at'[p] \in {"getSecret", "createSecret", "updateSecret"} => namespace,
             at'[p] \in {"validate", "valid"} =>
                \A n \in Cluster!Name \ unchecked'[p] : Cluster!Suitable(n),
             at'[p] = "valid" => unchecked'[p] = {}
      PROVE  SecretsFit'
  <2>1. ASSUME NEW q \in Process
        PROVE  /\ at'[q] = "fetch" => unwritten'[q] \subseteq Registry
               /\ at'[q] \in {"getSecret", "createSecret", "updateSecret"} => namespace
               /\ at'[q] \in {"validate", "valid"} =>
                    \A n \in Cluster!Name \ unchecked'[q] : Cluster!Suitable(n)
               /\ at'[q] = "valid" => unchecked'[q] = {}
    BY <1>0
  <2> QED BY <1>0, <2>1 DEF Cluster!Suitable, Cluster!Name, Cluster!Content
<1>1. CASE Cluster!Begin(p)
  BY <1>0, <1>1 DEF Cluster!Begin, Steps
<1>2. CASE Cluster!Check(p)
  <2>1. unchecked[p] \subseteq Cluster!Name
    OBVIOUS
  <2>2. Cluster!Foremost(unchecked[p]) \subseteq unchecked[p]
    BY <2>1, ForemostIsOne
  <2>3. UNCHANGED <<base, namespace, secret, attempt, configs, unwritten>>
    BY <1>2 DEF Cluster!Check
  <2>4. broken' \in 0..MaxBroken
    BY <1>2, BrokenAssumption DEF Cluster!Check, Cluster!Broken
  <2>5. \/ unchecked[p] = {} /\ at' = [at EXCEPT ![p] = "valid"] /\ UNCHANGED unchecked
        \/ \E n \in unchecked[p] : /\ Cluster!Suitable(n) /\ UNCHANGED at
                                   /\ unchecked' = [unchecked EXCEPT ![p] = @ \ {n}]
        \/ UNCHANGED unchecked /\ \/ at' = [at EXCEPT ![p] = "configure"]
                                  \/ at' = [at EXCEPT ![p] = "invalid"]
    BY <1>2, <2>2 DEF Cluster!Check, Cluster!AfterInvalid
  <2>6. at[p] = "validate"
    BY <1>2 DEF Cluster!Check
  <2>7. CASE unchecked[p] = {} /\ at' = [at EXCEPT ![p] = "valid"] /\ UNCHANGED unchecked
    BY <1>0, <2>3, <2>4, <2>6, <2>7 DEF Steps
  <2>8. ASSUME NEW n \in unchecked[p], Cluster!Suitable(n), UNCHANGED at,
               unchecked' = [unchecked EXCEPT ![p] = @ \ {n}]
        PROVE  SecretsFit'
    BY <1>0, <2>3, <2>4, <2>6, <2>8 DEF Steps
  <2>9. CASE UNCHANGED unchecked /\ \/ at' = [at EXCEPT ![p] = "configure"]
                                    \/ at' = [at EXCEPT ![p] = "invalid"]
    BY <1>0, <2>3, <2>4, <2>9 DEF Steps
  <2> QED BY <2>5, <2>7, <2>8, <2>9
<1>3. CASE Cluster!FetchID(p)
  <2>1. broken' \in 0..MaxBroken
    BY <1>3, BrokenAssumption DEF Cluster!FetchID, Cluster!Broken
  <2>2. unwritten' = [unwritten EXCEPT ![p] = IF Args[p].id THEN {} ELSE Registry]
    BY <1>3 DEF Cluster!FetchID
  <2>3. Registry \subseteq Cluster!Name
    BY DEF Cluster!Name
  <2> QED BY <1>0, <1>3, <2>1, <2>2, <2>3 DEF Cluster!FetchID, Steps
<1>4. CASE Cluster!FetchRegistry(p)
  <2>1. broken' \in 0..MaxBroken
    BY <1>4, BrokenAssumption DEF Cluster!FetchRegistry, Cluster!Broken
  <2>2. PICK n \in unwritten[p] : /\ unwritten' = [unwritten EXCEPT ![p] = @ \ {n}]
                                  /\ \/ UNCHANGED configs
                                     \/ configs' = [configs EXCEPT ![p] = @ \cup {n}]
    BY <1>4 DEF Cluster!FetchRegistry
  <2>3. n \in Registry /\ at[p] = "fetch"
    BY <1>4 DEF Cluster!FetchRegistry
  <2>4. configs' \in [Process -> SUBSET Registry]
    BY <2>2, <2>3
  <2> QED BY <1>0, <1>4, <2>1, <2>2, <2>3, <2>4 DEF Cluster!FetchRegistry
\* The end of ConfigureCluster.
<1>5. ASSUME NEW failed \in BOOLEAN, Cluster!Configured(p, failed), broken' \in 0..MaxBroken,
             UNCHANGED <<base, namespace, secret, configs, unwritten>>
      PROVE  SecretsFit'
  <2>1. /\ at' \in [Process -> Steps] /\ attempt' \in [Process -> {1, 2}]
        /\ unchecked' \in [Process -> SUBSET Cluster!Name]
        /\ at'[p] \in {"failed", "done", "validate"}
        /\ at'[p] = "validate" => unchecked'[p] = Cluster!Name
        /\ \A q \in Process \ {p} : at'[q] = at[q] /\ unchecked'[q] = unchecked[q]
    BY <1>5, ConfiguredLeads
  <2> QED BY <1>0, <1>5, <2>1
<1>6. CASE Cluster!EndFetch(p)
  <2>1. CASE hasID[p]
    BY <1>0, <1>6, <2>1 DEF Cluster!EndFetch, Steps
  <2>2. CASE ~hasID[p]
    BY <1>5, <1>6, <2>2 DEF Cluster!EndFetch
  <2> QED BY <2>1, <2>2
<1>7. Cluster!ToWrite(p) \in SUBSET Cluster!Name
  BY DEF Cluster!ToWrite, Cluster!Name
<1>8. CASE Cluster!FindNamespace(p)
  <2>1. broken' \in 0..MaxBroken
    BY <1>8, BrokenAssumption DEF Cluster!FindNamespace, Cluster!Broken
  <2>2. unwritten' \in [Process -> SUBSET Cluster!Name]
    BY <1>7, <1>8 DEF Cluster!FindNamespace
  <2> QED BY <1>0, <1>8, <2>1, <2>2 DEF Cluster!FindNamespace, Steps
<1>9. CASE Cluster!MakeNamespace(p)
  <2>1. CASE namespace
    BY <1>5, <1>9, <2>1 DEF Cluster!MakeNamespace
  <2>2. CASE ~namespace
    <3>1. namespace' = TRUE /\ UNCHANGED <<base, secret, attempt, unchecked, configs, broken>>
      BY <1>9, <2>2 DEF Cluster!MakeNamespace
    <3>2. at' = [at EXCEPT ![p] = "getSecret"] /\ unwritten' = [unwritten EXCEPT ![p] = Cluster!ToWrite(p)]
      BY <1>9, <2>2 DEF Cluster!MakeNamespace
    <3>3. unwritten' \in [Process -> SUBSET Cluster!Name] /\ at' \in [Process -> Steps]
      BY <1>7, <3>2 DEF Steps
    <3> QED BY <3>1, <3>2, <3>3 DEF Cluster!Suitable, Cluster!Name, Cluster!Content
  <2> QED BY <2>1, <2>2
<1>10. CASE Cluster!GetSecret(p)
  <2>1. broken' \in 0..MaxBroken
    BY <1>10, BrokenAssumption DEF Cluster!GetSecret, Cluster!Broken
  <2>2. \E to \in {"createSecret", "panic", "updateSecret"} : at' = [at EXCEPT ![p] = to]
    BY <1>10 DEF Cluster!GetSecret
  <2> QED BY <1>0, <1>10, <2>1, <2>2 DEF Cluster!GetSecret, Steps
<1>11. CASE Cluster!WriteSecret(p)
  <2>1. unwritten[p] \in SUBSET Cluster!Name
    OBVIOUS
  <2>2. PICK n \in Cluster!Foremost(unwritten[p]) :
          \/ Cluster!Configured(p, TRUE) /\ UNCHANGED <<secret, unwritten, outdated>>
          \/ /\ secret' = [secret EXCEPT ![n] = Cluster!Written(p, n)]
             /\ unwritten' = [unwritten EXCEPT ![p] = @ \ {n}]
             /\ Cluster!GoOn(p, IF unwritten[p] = {n} THEN "nodes" ELSE "getSecret")
             /\ UNCHANGED <<attempt, unchecked>>
    BY <1>11 DEF Cluster!WriteSecret
  <2>3. n \in Cluster!Name
    BY <2>1, ForemostIsOne
  <2>4. UNCHANGED <<base, namespace, configs, broken>> /\ namespace
    BY <1>11 DEF Cluster!WriteSecret
  <2>5. CASE Cluster!Configured(p, TRUE) /\ UNCHANGED <<secret, unwritten, outdated>>
    BY <1>5, <2>4, <2>5
  <2>6. CASE /\ secret' = [secret EXCEPT ![n] = Cluster!Written(p, n)]
             /\ unwritten' = [unwritten EXCEPT ![p] = @ \ {n}]
             /\ Cluster!GoOn(p, IF unwritten[p] = {n} THEN "nodes" ELSE "getSecret")
             /\ UNCHANGED <<attempt, unchecked>>
    <3>1. Cluster!Written(p, n) \in {"set", "empty"}
      BY ArgsAssumption DEF Cluster!Written
    <3>2. secret' \in [Cluster!Name -> Cluster!Content] /\ secret'[n] \in {"set", "empty"}
      BY <2>3, <2>6, <3>1 DEF Cluster!Content
    <3>3. \A m \in Cluster!Name : Cluster!Suitable(m) => Cluster!Suitable(m)'
      BY <2>6, <3>2 DEF Cluster!Suitable
    <3>4. at' \in [Process -> Steps] /\ at'[p] \in {"nodes", "getSecret"}
      BY <2>6 DEF Steps
    <3>5. \A q \in Process \ {p} : UNCHANGED <<at[q], unwritten[q], unchecked[q]>>
      BY <2>6
    <3>6. unwritten' \in [Process -> SUBSET Cluster!Name]
      BY <2>6
    <3>7. ASSUME NEW q \in Process
          PROVE  /\ at'[q] = "fetch" => unwritten'[q] \subseteq Registry
                 /\ at'[q] \in {"validate", "valid"} =>
                      \A m \in Cluster!Name \ unchecked'[q] : Cluster!Suitable(m)'
                 /\ at'[q] = "valid" => unchecked'[q] = {}
      BY <2>6, <3>3, <3>4, <3>5
    <3>8. Cluster!Name' = Cluster!Name /\ Cluster!Content' = Cluster!Content
      BY DEF Cluster!Name, Cluster!Content
    <3> QED BY <2>4, <2>6, <3>2, <3>4, <3>6, <3>7, <3>8
  <2> QED BY <2>2, <2>5, <2>6
<1>12. CASE Cluster!ListNodes(p) \/ Cluster!ConfigureFails(p)
  <2>1. broken' \in 0..MaxBroken
    <3>1. UNCHANGED broken \/ Cluster!Broken
      BY <1>12 DEF Cluster!ListNodes, Cluster!ConfigureFails
    <3> QED BY <3>1, BrokenAssumption DEF Cluster!Broken
  <2> QED BY <1>5, <1>12, <2>1 DEF Cluster!ListNodes, Cluster!ConfigureFails
<1>13. CASE Cluster!Killed(p)
  <2>1. broken' \in 0..MaxBroken
    BY <1>13, BrokenAssumption DEF Cluster!Killed, Cluster!Broken
  <2> QED BY <1>0, <1>13, <2>1 DEF Cluster!Killed, Steps
<1> QED BY <1>1, <1>2, <1>3, <1>4, <1>6, <1>8, <1>9, <1>10, <1>11, <1>12, <1>13
        DEF Cluster!Configuring

LEMMA SecretsAreKept ==
  ASSUME SecretsFit, [SchedulerNext]_allVars
  PROVE  SecretsFit'
<1>1. CASE Cluster!ClusterNext
  BY <1>1, SecretsByProcess DEF Cluster!ClusterNext
<1>2. CASE [Next]_vars /\ UNCHANGED processVars
  <2>1. namespace => namespace'
    BY <1>2, NamespaceStays
  <2> QED BY <1>2, <2>1 DEF processVars, SecretsFit, Cluster!Suitable, Cluster!Name, Cluster!Content
<1>3. CASE UNCHANGED allVars
  BY <1>3 DEF allVars, vars, storeVars, processVars, SecretsFit, Cluster!Suitable, Cluster!Name,
              Cluster!Content
<1> QED BY <1>1, <1>2, <1>3, StepOfSystem

\* Every secret keeps its type, beside any number of processes that make the same ones,
\* fail and are killed.
THEOREM SecretsFitAlways == SchedulerSpec => []SecretsFit
<1>1. SchedulerInit => SecretsFit
  BY SecretsAtFirst
<1>2. SecretsFit /\ [SchedulerNext]_allVars => SecretsFit'
  BY SecretsAreKept
<1> QED BY <1>1, <1>2, PTL DEF SchedulerSpec

\* No unit is applied before the namespace and all of the secrets are there.
THEOREM UnitsFindTheirSecrets == SchedulerSpec => []AppliedWhenConfigured
<1>1. SecretsFit => AppliedWhenConfigured
  <2> SUFFICES ASSUME SecretsFit, at[Me] = "valid"
               PROVE  namespace /\ \A n \in Cluster!Name : secret[n] \in {"empty", "set"}
    BY DEF AppliedWhenConfigured
  <2>1. \A n \in Cluster!Name : Cluster!Suitable(n)
    BY MeAssumption DEF SecretsFit
  <2>2. "vault-info" \in Cluster!Name
    BY DEF Cluster!Name
  <2> QED BY <2>1, <2>2, SuitableExists DEF Cluster!Suitable
<1> QED BY <1>1, SecretsFitAlways, PTL

-----------------------------------------------------------------------------
(* The units.                                                              *)

\* Where a goroutine of Start can be, and where one of Destroy.
OfStart == {"namespace", "createNamespace", "get", "list", "update", "create", "wait0", "wait1",
            "wait2", "rotate", "rotating", "started"}
OfDestroy == {"read", "delete", "listSets", "deleteSets", "listPods", "deletePods", "destroyed"}

\* The places of a goroutine.
Places == Ended \cup
  {"namespace", "createNamespace", "get", "list", "update", "create", "wait0", "wait1", "wait2",
   "rotate", "rotating", "read", "delete", "listSets", "deleteSets", "listPods", "deletePods"}

\* A goroutine does what was asked for, and what its kind of resource calls for, to what
\* has the labels of its resource.
Flow(u) ==
  /\ u \notin request.units => pc[u] = "idle"
  /\ pc[u] \in OfStart => request.op = "start"
  /\ pc[u] \in OfDestroy => request.op = "destroy"
  /\ pc[u] \in {"list", "rotate", "rotating"} => Kind[u] = "daemonset"
  /\ pc[u] \in {"wait0", "wait1", "wait2"} => Kind[u] = "deployment"
  /\ pc[u] \in {"listSets", "deleteSets"} => Kind[u] = "deployment"
  /\ pc[u] \in {"listPods", "deletePods"} => Kind[u] \in {"deployment", "job"}
  /\ todo[u] \subseteq Selected(u) \X Slot

\* Only deployments have replica sets, and only those and jobs want pods.  A resource
\* that is not there, nor to be destroyed, was not there before.
Counts(u) ==
  /\ sets[u] # {} => Kind[u] = "deployment"
  /\ Kind[u] = "deployment" =>
       \A r \in Revision : want[u][r] <= Replicas[u] /\ (r \notin sets[u] => want[u][r] = 0)
  /\ Kind[u] \notin {"deployment", "job"} => \A r \in Revision : want[u][r] = 0
  /\ spec[u] = None /\ (request.op = "start" \/ u \notin request.units) =>
       /\ generation[u] = 0 /\ status[u].observed = 0 /\ sets[u] = {}
       /\ \A r \in Revision : want[u][r] = 0
       /\ \A s \in Slot : pod[u][s] = None
  /\ Kind[u] \notin {"deployment", "daemonset", "job"} => \A s \in Slot : pod[u][s] = None
  /\ request.op = "start" /\ spec[u] = "old" => generation[u] = 1

\* Destroy of a deployment or a job: nothing is left that would make pods when the pods
\* are listed, and what is not on its way out is on a list.
Going(u) ==
  Kind[u] \in {"deployment", "job"} =>
    /\ pc[u] \in {"listSets", "deleteSets", "listPods", "deletePods", "destroyed"} => spec[u] = None
    /\ pc[u] = "deleteSets" => \A r \in sets[u] : <<u, r>> \in doomed[u]
    /\ pc[u] \in {"listPods", "deletePods", "destroyed"} =>
         sets[u] = {} /\ \A r \in Revision : want[u][r] = 0
    /\ pc[u] \in {"deletePods", "destroyed"} => \A s \in Slot :
         \/ pod[u][s] = None
         \/ pod[u][s].going
         \/ <<u, s>> \in todo[u] /\ pc[u] = "deletePods"

\* Start of a deployment: pods of the new revision are not taken away, and a report of
\* the current generation counts no more of them than there are.
Coming(u) ==
  Kind[u] = "deployment" /\ request.op = "start" =>
    /\ spec[u] = "old" => sets[u] \subseteq {"old"}
    /\ Pods(u, "new") <= want[u]["new"]
    /\ status[u].observed <= generation[u]
    /\ spec[u] = "new" /\ status[u].observed = generation[u] =>
         status[u].updated <= Pods(u, "new")
    /\ pc[u] \in {"namespace", "createNamespace", "get", "create"} => lastGeneration[u] = 0
    /\ pc[u] = "update" => written[u] \/ status[u].observed = lastGeneration[u]
    /\ pc[u] \in {"wait0", "wait1", "wait2", "started"} => spec[u] = "new"
    /\ pc[u] = "wait0" => status[u].observed \in {lastGeneration[u], generation[u]}
    /\ pc[u] \in {"wait1", "wait2"} => status[u].observed = generation[u]
    /\ pc[u] \in {"wait2", "started"} => Pods(u, "new") = Replicas[u]

\* Start of a daemon set: what is still on the list, or on its way out, is all that can
\* be of an old revision.
Rotating(u) ==
  Kind[u] = "daemonset" =>
    /\ pc[u] = "update" => \A h \in Host \ unlisted[u] : <<u, h>> \in todo[u]
    /\ pc[u] \in {"rotate", "rotating", "started"} =>
         /\ spec[u] = "new"
         /\ \A h \in Host \ unlisted[u] :
              \/ <<u, h>> \in todo[u] /\ pc[u] # "started"
              \/ pod[u][h] = None
              \/ pod[u][h].rev = "new"
              \/ pod[u][h].going

\* Only the machine whose pod is being rotated is without a pod of its own accord, when
\* no other resource takes pods of the task group away.
Serving(u) ==
  Kind[u] = "daemonset" /\ Alone(u) =>
    /\ \A s \in Slot : pod[u][s] # None =>
         /\ pod[u][s].phase # "succeeded"
         /\ pod[u][s].going =>
              <<u, s>> \in current[u] /\ u \in pod[u][s].by /\ pc[u] \in {"rotating", "failed"}
    /\ \A p, q \in current[u] : p = q
    /\ \A p \in current[u] : p[1] = u
    /\ \A h \in served[u] :
         \/ pod[u][h] # None /\ pod[u][h].phase = "running" /\ ~pod[u][h].going
         \/ <<u, h>> \in current[u] /\ pc[u] # "rotate"
    /\ pc[u] \in {"namespace", "createNamespace", "get", "list", "update"} => current[u] = {}

\* The steps of a resource.
OfUnit(u) ==
  Working(u) \/ Failing(u) \/ Controllers(u) \/ \E s \in Slot : PodBreaks(u, s) \/ PodFails(u, s)

-----------------------------------------------------------------------------
(* The types.                                                              *)

LEMMA ChangeTyped ==
  ASSUME NEW S, NEW f \in [Unit -> S], NEW u \in Unit, NEW x \in S
  PROVE  [f EXCEPT ![u] = x] \in [Unit -> S]
OBVIOUS

LEMMA PartTyped ==
  ASSUME NEW D, NEW S, NEW f \in [Unit -> [D -> S]], NEW u \in Unit, NEW d \in D, NEW x \in S
  PROVE  [f EXCEPT ![u][d] = x] \in [Unit -> [D -> S]]
OBVIOUS

LEMMA FilledIsTyped ==
  ASSUME NEW r, NEW n \in Nat
  PROVE  Filled(r, n) \in [Revision -> Nat]
BY DEF Filled

LEMMA FreshIsPod ==
  ASSUME NEW r \in Revision
  PROVE  FreshPod(r, "pending") \in Pod /\ FreshPod(r, "running") \in Pod
BY DEF FreshPod, Pod

\* The pods that are counted are finitely many.
LEMMA PodsAreCounted ==
  ASSUME NEW u \in Unit, NEW r, NEW phases
  PROVE  IsFiniteSet(PodsIn(u, r, phases)) /\ Cardinality(PodsIn(u, r, phases)) \in Nat
<1>1. PodsIn(u, r, phases) \in SUBSET Slot
  BY DEF PodsIn
<1>2. IsFiniteSet(PodsIn(u, r, phases))
  BY <1>1, SlotAssumption, FS_Subset
<1> QED BY <1>2, FS_CardinalityType

LEMMA CountsAreTyped ==
  ASSUME NEW u \in Unit
  PROVE  /\ \A r : Pods(u, r) \in Nat /\ Ready(u, r) \in Nat
         /\ Available(u) \in Nat
BY PodsAreCounted DEF Pods, Ready, Available

LEMMA UnitsTypedAtFirst == Init => TypeOK
<1> SUFFICES ASSUME Init PROVE TypeOK
  OBVIOUS
<1> USE NumberAssumption
<1>1. spec \in [Unit -> Revision \cup {None}] /\ hosts \in SUBSET Host
  BY DEF Init
<1>2. PICK seen \in SUBSET {u \in Deployments : spec[u] # None} :
       /\ sets = [u \in Unit |-> IF u \in seen THEN {spec[u]} ELSE {}]
       /\ want = [u \in Unit |->
                    CASE u \in seen -> Filled(spec[u], Replicas[u])
                      [] Kind[u] = "job" -> Filled(spec[u], 1)
                      [] OTHER -> Filled(None, 0)]
       /\ status = [u \in Unit |->
                      IF u \in seen
                      THEN [observed |-> 1, updated |-> Replicas[u], available |-> Replicas[u]]
                      ELSE NoStatus]
       /\ pod = [u \in Unit |-> [s \in Slot |->
                   IF \/ u \in seen /\ s \in FirstSlots(u)
                      \/ Kind[u] = "daemonset" /\ spec[u] # None /\ s \in hosts
                   THEN FreshPod(spec[u], "running") ELSE None]]
  BY DEF Init
<1>3. want \in [Unit -> [Revision -> Nat]]
  <2> SUFFICES ASSUME NEW u \in Unit PROVE want[u] \in [Revision -> Nat]
    BY <1>2
  <2> QED BY <1>2, FilledIsTyped
<1>4. /\ status \in [Unit -> [observed : 0..2, updated : Nat, available : Nat]]
      /\ sets \in [Unit -> SUBSET Revision]
  BY <1>1, <1>2 DEF NoStatus, Deployments
<1>5. pod \in [Unit -> [Slot -> Pod \cup {None}]]
  <2>1. ASSUME NEW u \in Unit, spec[u] # None
        PROVE  FreshPod(spec[u], "running") \in Pod
    BY <1>1, <2>1, FreshIsPod
  <2> QED BY <1>2, <2>1 DEF Deployments
<1>6. pc \in [Unit -> Places]
  BY DEF Init, Places, Ended
<1>7. generation \in [Unit -> 0..2]
  BY DEF Init
<1> QED BY <1>3, <1>4, <1>5, <1>6, <1>7 DEF Init, TypeOK, Places

-----------------------------------------------------------------------------
(* The pods.                                                               *)

\* What a step of the resource v does to the pod of u in a slot: it lists it, deletes it
\* by its labels, or does what is done to a pod of its own.
Listed(v, u, s) ==
  /\ u \in Selected(v) /\ pod[u][s] # None /\ (ListPods(v) \/ ListDoomedPods(v))
  /\ pod'[u][s] = [pod[u][s] EXCEPT !.by = @ \cup {v}]

Deleted(v, u, s) ==
  /\ <<u, s>> \in todo[v] /\ IsThere(v, <<u, s>>) /\ (Rotate(v) \/ DeletePods(v))
  /\ pod'[u][s] = [pod[u][s] EXCEPT !.going = TRUE]

Removed(v, s) ==
  /\ pod[v][s] # None
  /\ \E r \in sets[v] : pod[v][s].rev = r /\ Pods(v, r) > want[v][r]
  /\ pod'[v][s] = [pod[v][s] EXCEPT !.going = TRUE]

Made(v, s) ==
  /\ pod[v][s] = None
  /\ \E r \in Revision :
       /\ pod'[v][s] = FreshPod(r, "pending")
       /\ \/ Kind[v] = "daemonset" /\ r = spec[v]
          \/ MakePod(v) /\ Pods(v, r) < want[v][r]

Gone(v, s) ==
  /\ pod[v][s] # None /\ pod'[v][s] = None
  /\ pod[v][s].going \/ (v \notin Deployments /\ s \notin served'[v])

Turned(v, s) ==
  /\ pod[v][s] # None /\ ~pod[v][s].going
  /\ \E phase \in {"pending", "running", "succeeded", "failed"} :
       /\ pod'[v][s] = [pod[v][s] EXCEPT !.phase = phase]
       /\ phase = "succeeded" => Kind[v] = "job"
       /\ v \in Deployments => {pod[v][s].phase, phase} = {"pending", "running"}
       /\ phase # "running" => s \notin served'[v] \/ v \notin DaemonSets

Fate(v, u, s) ==
  \/ pod'[u][s] = pod[u][s]
  \/ Listed(v, u, s)
  \/ Deleted(v, u, s)
  \/ u = v /\ (Removed(v, s) \/ Made(v, s) \/ Gone(v, s) \/ Turned(v, s))

\* The steps that leave all pods.
Podless(v) ==
  \/ GetNamespace(v) \/ CreateNamespace(v) \/ Get(v) \/ Update(v) \/ Create(v) \/ Poll(v)
  \/ PollRotation(v) \/ Read(v) \/ Delete(v) \/ ListSets(v) \/ DeleteSets(v) \/ Failing(v)
  \/ Scale(v) \/ Report(v)

LEMMA PodlessSteps ==
  ASSUME NEW v \in Unit, Podless(v)
  PROVE  UNCHANGED pod
BY DEF Podless, GetNamespace, CreateNamespace, Get, Update, Create, Poll, PollRotation, Read, Delete,
   ListSets, DeleteSets, Failing, TimesOut, RotationTimesOut, Fails, Scale, Report, podVars

LEMMA WhatBecomesOfPods ==
  ASSUME TypeOK, NEW v \in Unit, OfUnit(v)
  PROVE  /\ pod' \in [Unit -> [Slot -> Pod \cup {None}]]
         /\ \A u \in Unit, s \in Slot : Fate(v, u, s)
<1>0. pod \in [Unit -> [Slot -> Pod \cup {None}]]
  BY DEF TypeOK
\* One pod changes.
<1>a. ASSUME NEW w \in Unit, NEW t \in Slot, NEW p \in Pod \cup {None},
             pod' = [pod EXCEPT ![w][t] = p]
      PROVE  /\ pod' \in [Unit -> [Slot -> Pod \cup {None}]]
             /\ pod'[w][t] = p
             /\ \A u \in Unit, s \in Slot : (u = w /\ s = t) \/ pod'[u][s] = pod[u][s]
  BY <1>0, <1>a
<1>f. ASSUME NEW w \in Unit, NEW t \in Slot, NEW p \in Pod \cup {None},
             pod' = [pod EXCEPT ![w][t] = p], Fate(v, w, t)
      PROVE  /\ pod' \in [Unit -> [Slot -> Pod \cup {None}]]
             /\ \A u \in Unit, s \in Slot : Fate(v, u, s)
  <2>1. ASSUME NEW u \in Unit, NEW s \in Slot PROVE Fate(v, u, s)
    <3>1. CASE u = w /\ s = t
      BY <1>f, <3>1
    <3>2. CASE pod'[u][s] = pod[u][s]
      BY <3>2 DEF Fate
    <3> QED BY <1>a, <1>f, <3>1, <3>2
  <2> QED BY <1>a, <1>f, <2>1
<1>b. ASSUME NEW p \in Pod
      PROVE  /\ [p EXCEPT !.going = TRUE] \in Pod
             /\ [p EXCEPT !.by = @ \cup {v}] \in Pod
             /\ \A x \in {"pending", "running", "succeeded", "failed"} :
                  [p EXCEPT !.phase = x] \in Pod
  BY DEF Pod
<1>c. \A w \in Unit, t \in Slot : pod[w][t] # None => pod[w][t] \in Pod
  BY <1>0
<1>1. CASE Podless(v)
  BY <1>0, <1>1, PodlessSteps DEF Fate
<1>2. CASE ListPods(v) \/ ListDoomedPods(v)
  <2>1. ListByLabels(v)
    BY <1>2 DEF ListPods, ListDoomedPods
  <2>2. pod' = [w \in Unit |-> [s \in Slot |->
                 IF w \in Selected(v) /\ pod[w][s] # None
                 THEN [pod[w][s] EXCEPT !.by = @ \cup {v}] ELSE pod[w][s]]]
    BY <2>1 DEF ListByLabels
  <2>3. pod' \in [Unit -> [Slot -> Pod \cup {None}]]
    BY <1>0, <1>b, <1>c, <2>2
  <2> QED BY <1>2, <2>2, <2>3 DEF Fate, Listed
<1>3. CASE Rotate(v) \/ DeletePods(v)
  <2>1. \/ UNCHANGED pod
        \/ \E p \in todo[v] : IsThere(v, p) /\ DeletePod(p)
    BY <1>3 DEF Rotate, DeletePods
  <2>2. ASSUME NEW p \in todo[v], IsThere(v, p), DeletePod(p)
        PROVE  /\ pod' \in [Unit -> [Slot -> Pod \cup {None}]]
               /\ \A u \in Unit, s \in Slot : Fate(v, u, s)
    <3>1. PICK w \in Unit, t \in Slot : p = <<w, t>>
      BY DEF TypeOK
    <3>2. pod[w][t] # None /\ pod' = [pod EXCEPT ![w][t].going = TRUE]
      BY <2>2, <3>1 DEF IsThere, DeletePod
    <3>3. pod' = [pod EXCEPT ![w][t] = [pod[w][t] EXCEPT !.going = TRUE]]
      BY <3>2
    <3>4. [pod[w][t] EXCEPT !.going = TRUE] \in Pod
      BY <1>b, <1>c, <3>2
    <3>5. Fate(v, w, t)
      BY <1>3, <1>a, <2>2, <3>1, <3>3, <3>4 DEF Fate, Deleted
    <3> QED BY <1>f, <3>3, <3>4, <3>5
  <2> QED BY <1>0, <2>1, <2>2 DEF Fate
<1>4. CASE RemovePod(v)
  <2>1. PICK r \in sets[v], t \in Slot :
          /\ Pods(v, r) > want[v][r] /\ pod[v][t] # None /\ pod[v][t].rev = r
          /\ pod' = [pod EXCEPT ![v][t].going = TRUE]
    BY <1>4 DEF RemovePod, PodsIn
  <2>2. pod' = [pod EXCEPT ![v][t] = [pod[v][t] EXCEPT !.going = TRUE]]
    BY <2>1
  <2>3. [pod[v][t] EXCEPT !.going = TRUE] \in Pod
    BY <1>b, <1>c, <2>1
  <2>4. Fate(v, v, t)
    BY <1>a, <2>1, <2>2, <2>3 DEF Fate, Removed
  <2> QED BY <1>f, <2>2, <2>3, <2>4
<1>5. CASE MakePod(v)
  <2>1. PICK r \in Revision, t \in Slot :
          /\ Pods(v, r) < want[v][r] /\ pod[v][t] = None
          /\ pod' = [pod EXCEPT ![v][t] = FreshPod(r, "pending")]
    BY <1>5, SlotAssumption DEF MakePod, Free, TypeOK
  <2>2. Fate(v, v, t)
    BY <1>5, <1>a, <2>1, FreshIsPod DEF Fate, Made
  <2> QED BY <1>f, <2>1, <2>2, FreshIsPod
<1>6. ASSUME NEW h \in Host, PlacePod(v, h)
      PROVE  /\ pod' \in [Unit -> [Slot -> Pod \cup {None}]]
             /\ \A u \in Unit, s \in Slot : Fate(v, u, s)
  <2>1. h \in Slot /\ spec[v] \in Revision /\ Kind[v] = "daemonset"
    BY <1>6, SlotAssumption DEF PlacePod, TypeOK, DaemonSets
  <2>2. pod[v][h] = None /\ pod' = [pod EXCEPT ![v][h] = FreshPod(spec[v], "pending")]
    BY <1>6 DEF PlacePod
  <2>3. Fate(v, v, h)
    BY <1>a, <2>1, <2>2, FreshIsPod DEF Fate, Made
  <2> QED BY <1>f, <2>1, <2>2, <2>3, FreshIsPod
<1>d. ASSUME NEW t \in Slot, NEW x \in {"pending", "running", "succeeded", "failed"},
             pod[v][t] # None, ~pod[v][t].going, pod' = [pod EXCEPT ![v][t].phase = x],
             x = "succeeded" => Kind[v] = "job",
             v \in Deployments => {pod[v][t].phase, x} = {"pending", "running"},
             x # "running" => t \notin served'[v] \/ v \notin DaemonSets
      PROVE  /\ pod' \in [Unit -> [Slot -> Pod \cup {None}]]
             /\ \A u \in Unit, s \in Slot : Fate(v, u, s)
  <2>1. pod' = [pod EXCEPT ![v][t] = [pod[v][t] EXCEPT !.phase = x]]
    BY <1>d
  <2>2. [pod[v][t] EXCEPT !.phase = x] \in Pod
    BY <1>b, <1>c, <1>d
  <2>3. Fate(v, v, t)
    BY <1>a, <1>d, <2>1, <2>2 DEF Fate, Turned
  <2> QED BY <1>f, <2>1, <2>2, <2>3
<1>e. ASSUME NEW t \in Slot, pod[v][t] # None, pod' = [pod EXCEPT ![v][t] = None],
             pod[v][t].going \/ (v \notin Deployments /\ t \notin served'[v])
      PROVE  /\ pod' \in [Unit -> [Slot -> Pod \cup {None}]]
             /\ \A u \in Unit, s \in Slot : Fate(v, u, s)
  <2>1. Fate(v, v, t)
    BY <1>a, <1>e DEF Fate, Gone
  <2> QED BY <1>f, <1>e, <2>1
<1>7. ASSUME NEW t \in Slot, RunPod(v, t)
      PROVE  /\ pod' \in [Unit -> [Slot -> Pod \cup {None}]]
             /\ \A u \in Unit, s \in Slot : Fate(v, u, s)
  BY <1>7, <1>d, <1>e DEF RunPod
<1>8. ASSUME NEW t \in Slot, JobEnds(v, t)
      PROVE  /\ pod' \in [Unit -> [Slot -> Pod \cup {None}]]
             /\ \A u \in Unit, s \in Slot : Fate(v, u, s)
  BY <1>8, <1>d DEF JobEnds, Deployments, DaemonSets
<1>9. ASSUME NEW t \in Slot, PodFails(v, t)
      PROVE  /\ pod' \in [Unit -> [Slot -> Pod \cup {None}]]
             /\ \A u \in Unit, s \in Slot : Fate(v, u, s)
  <2>1. t \notin served'[v]
    BY <1>9 DEF PodFails, TypeOK
  <2>2. v \notin Deployments /\ pod[v][t] # None /\ ~pod[v][t].going
    BY <1>9 DEF PodFails, Deployments
  <2>3. \/ pod' = [pod EXCEPT ![v][t].phase = "failed"]
        \/ pod' = [pod EXCEPT ![v][t] = None]
    BY <1>9 DEF PodFails
  <2> QED BY <1>d, <1>e, <2>1, <2>2, <2>3
<1>10. ASSUME NEW t \in Slot, PodBreaks(v, t)
       PROVE  /\ pod' \in [Unit -> [Slot -> Pod \cup {None}]]
              /\ \A u \in Unit, s \in Slot : Fate(v, u, s)
  BY <1>10, <1>d DEF PodBreaks, Deployments, DaemonSets
<1> QED BY <1>1, <1>2, <1>3, <1>4, <1>5, <1>6, <1>7, <1>8, <1>9, <1>10
        DEF OfUnit, Working, Controllers, Podless

-----------------------------------------------------------------------------
(* What a step leaves of the other resources.                              *)

LEMMA RequestStays ==
  ASSUME NEW v \in Unit, OfUnit(v)
  PROVE  UNCHANGED request
<1> USE DEF callVars
<1>1. CASE Working(v)
  BY <1>1 DEF Working, GetNamespace, CreateNamespace, Get, ListPods, Update, Create, Poll, Rotate,
     PollRotation, Read, Delete, ListSets, DeleteSets, ListDoomedPods, DeletePods
<1>2. CASE ~Working(v)
  BY <1>2 DEF OfUnit, Failing, Controllers, TimesOut, RotationTimesOut, Fails, Scale, Report, MakePod,
     RemovePod, PlacePod, RunPod, JobEnds, PodFails, PodBreaks
<1> QED BY <1>1, <1>2

\* The resource, its goroutine and what is remembered of it are its own; only Destroy of
\* another takes replica sets, and what they want.
LEMMA OthersStay ==
  ASSUME TypeOK, NEW u \in Unit, NEW v \in Unit \ {u}, Flow(v), OfUnit(v)
  PROVE  /\ pc'[u] = pc[u] /\ spec'[u] = spec[u] /\ generation'[u] = generation[u]
         /\ written'[u] = written[u] /\ status'[u] = status[u]
         /\ lastGeneration'[u] = lastGeneration[u] /\ todo'[u] = todo[u]
         /\ current'[u] = current[u] /\ doomed'[u] = doomed[u]
         /\ unlisted'[u] = unlisted[u] /\ served'[u] = served[u]
         /\ \/ sets'[u] = sets[u] /\ want'[u] = want[u]
            \/ /\ request.op = "destroy" /\ sets'[u] \subseteq sets[u]
               /\ \A r \in Revision : \/ want'[u][r] = 0
                                      \/ want'[u][r] = want[u][r] /\ (r \in sets[u] => r \in sets'[u])
<1> USE DEF Goto, storeVars, controllerVars, podVars, localVars, historyVars, callVars
<1>0. /\ sets \in [Unit -> SUBSET Revision] /\ want \in [Unit -> [Revision -> Nat]]
      /\ pc \in [Unit -> Places]
  BY DEF TypeOK, Places
<1>1. CASE GetNamespace(v) \/ CreateNamespace(v) \/ Get(v) \/ Poll(v) \/ PollRotation(v) \/ Read(v)
  BY <1>1 DEF TypeOK, GetNamespace, CreateNamespace, Get, Poll, PollRotation, Read
<1>2. CASE Update(v) \/ Create(v)
  BY <1>2 DEF TypeOK, Update, Create, Write
<1>3. CASE ListPods(v) \/ ListDoomedPods(v) \/ ListSets(v)
  BY <1>3 DEF TypeOK, ListPods, ListDoomedPods, ListByLabels, ListSets
<1>4. CASE Rotate(v) \/ DeletePods(v)
  BY <1>4 DEF TypeOK, Rotate, DeletePods
<1>5. CASE Delete(v)
  BY <1>5 DEF TypeOK, Delete
<1>6. CASE DeleteSets(v)
  <2>1. request.op = "destroy"
    BY <1>6 DEF DeleteSets, Flow, OfDestroy
  <2>2. CASE UNCHANGED <<sets, want>>
    BY <1>6, <2>2 DEF TypeOK, DeleteSets
  <2>3. ASSUME NEW x \in doomed[v], doomed' = [doomed EXCEPT ![v] = @ \ {x}],
               sets' = [sets EXCEPT ![x[1]] = @ \ {x[2]}], want' = [want EXCEPT ![x[1]][x[2]] = 0]
        PROVE  /\ sets'[u] \subseteq sets[u]
               /\ \A r \in Revision : \/ want'[u][r] = 0
                                      \/ want'[u][r] = want[u][r] /\ (r \in sets[u] => r \in sets'[u])
    <3>1. PICK w \in Unit, q \in Revision : x = <<w, q>>
      BY <2>3 DEF TypeOK
    <3>2. sets' = [sets EXCEPT ![w] = @ \ {q}] /\ want' = [want EXCEPT ![w][q] = 0]
      BY <2>3, <3>1
    <3> QED BY <1>0, <3>2
  <2>4. /\ pc'[u] = pc[u] /\ spec'[u] = spec[u] /\ generation'[u] = generation[u]
        /\ written'[u] = written[u] /\ status'[u] = status[u]
        /\ lastGeneration'[u] = lastGeneration[u] /\ todo'[u] = todo[u]
        /\ current'[u] = current[u] /\ doomed'[u] = doomed[u]
        /\ unlisted'[u] = unlisted[u] /\ served'[u] = served[u]
    BY <1>6 DEF TypeOK, DeleteSets
  <2> QED BY <1>6, <2>1, <2>2, <2>3, <2>4 DEF DeleteSets
<1>7. CASE Failing(v)
  BY <1>7 DEF TypeOK, Failing, TimesOut, RotationTimesOut, Fails
<1>8. CASE Scale(v) \/ Report(v)
  BY <1>8 DEF TypeOK, Scale, Report
<1>9. CASE MakePod(v) \/ RemovePod(v)
  BY <1>9 DEF MakePod, RemovePod
<1>10. ASSUME NEW h \in Host, PlacePod(v, h)
       PROVE  UNCHANGED <<callVars, storeVars, controllerVars, localVars, historyVars>>
  BY <1>10 DEF PlacePod
<1>11. ASSUME NEW s \in Slot, RunPod(v, s) \/ PodBreaks(v, s)
       PROVE  UNCHANGED <<callVars, storeVars, controllerVars, localVars, historyVars>>
  BY <1>11 DEF RunPod, PodBreaks
<1>12. ASSUME NEW s \in Slot, JobEnds(v, s)
       PROVE  /\ UNCHANGED <<callVars, storeVars, status, sets, localVars, historyVars>>
              /\ want'[u] = want[u]
  BY <1>12 DEF JobEnds, TypeOK
<1>13. ASSUME NEW s \in Slot, PodFails(v, s)
       PROVE  /\ UNCHANGED <<callVars, storeVars, controllerVars, localVars, unlisted>>
              /\ served'[u] = served[u]
  BY <1>13 DEF PodFails, TypeOK
<1> QED BY <1>1, <1>2, <1>3, <1>4, <1>5, <1>6, <1>7, <1>8, <1>9, <1>10, <1>11, <1>12, <1>13
        DEF OfUnit, Working, Controllers

\* Who takes part in a call, and finds others by its labels.
Taking(v) ==
  /\ v \in request.units /\ Kind[v] \in {"deployment", "daemonset", "job"}
  /\ Kind[v] = "daemonset" \/ request.op = "destroy"

\* Of the pods of another resource a step of v takes none away, and makes none.  What it
\* marks as listed, or as deleted, has the labels of v.
LEMMA OthersPods ==
  ASSUME TypeOK, NEW u \in Unit, NEW v \in Unit \ {u}, NEW s \in Slot, Flow(v), OfUnit(v)
  PROVE  \/ pod'[u][s] = pod[u][s]
         \/ /\ pod[u][s] # None /\ pod'[u][s] # None
            /\ pod'[u][s].rev = pod[u][s].rev /\ pod'[u][s].phase = pod[u][s].phase
            /\ pod[u][s].going => pod'[u][s].going
            /\ u \in Selected(v) /\ Taking(v)
<1>0. Fate(v, u, s) /\ pod' \in [Unit -> [Slot -> Pod \cup {None}]]
  BY WhatBecomesOfPods
<1>1. pod[u][s] \in Pod \cup {None} /\ pod'[u][s] \in Pod \cup {None}
  BY <1>0 DEF TypeOK
<1>2. CASE Listed(v, u, s)
  <2>1. /\ pod[u][s] \in Pod /\ u \in Selected(v)
        /\ pod'[u][s] = [pod[u][s] EXCEPT !.by = @ \cup {v}]
    BY <1>1, <1>2 DEF Listed
  <2>2. Taking(v)
    BY <1>2 DEF Listed, ListPods, ListDoomedPods, Flow, OfStart, OfDestroy, Taking
  <2>3. pod'[u][s] \in Pod
    BY <2>1 DEF Pod
  <2> QED BY <2>1, <2>2, <2>3, PodAssumption DEF Pod
<1>3. CASE Deleted(v, u, s)
  <2>1. pod[u][s] \in Pod /\ pod'[u][s] = [pod[u][s] EXCEPT !.going = TRUE]
    BY <1>1, <1>3 DEF Deleted, IsThere
  <2>2. Taking(v)
    BY <1>3 DEF Deleted, Rotate, DeletePods, Flow, OfStart, OfDestroy, Taking
  <2>3. u \in Selected(v)
    BY <1>3 DEF Deleted, Flow
  <2>4. pod'[u][s] \in Pod
    BY <2>1 DEF Pod
  <2> QED BY <2>1, <2>2, <2>3, <2>4, PodAssumption DEF Pod
<1> QED BY <1>0, <1>2, <1>3 DEF Fate

-----------------------------------------------------------------------------
(* The types of what a step changes.                                       *)

LEMMA TypesKept ==
  ASSUME TypeOK, NEW u \in Unit, Flow(u), Counts(u), OfUnit(u)
  PROVE  TypeOK'
<1> USE NumberAssumption
        DEF Goto, storeVars, controllerVars, podVars, localVars, historyVars, callVars, bounds
<1>a. want \in [Unit -> [Revision -> Nat]] /\ sets \in [Unit -> SUBSET Revision]
  BY DEF TypeOK
<1>b. ASSUME Fault \/ Trouble \/ UNCHANGED bounds
      PROVE  faults' \in 0..MaxFaults /\ troubles' \in 0..MaxTroubles
  BY <1>b DEF TypeOK, Fault, Trouble
<1>c. pod' \in [Unit -> [Slot -> Pod \cup {None}]]
  BY WhatBecomesOfPods
<1>d. /\ todo \in [Unit -> SUBSET (Unit \X Slot)] /\ current \in [Unit -> SUBSET (Unit \X Slot)]
      /\ doomed \in [Unit -> SUBSET (Unit \X Revision)]
  BY DEF TypeOK
<1>e. spec \in [Unit -> Revision \cup {None}]
  BY DEF TypeOK
<1>g. ASSUME NEW to \in Places, Goto(u, to)
      PROVE  pc' \in [Unit -> Places]
  BY <1>g DEF TypeOK, Places
<1>1. CASE GetNamespace(u)
  BY <1>b, <1>1 DEF TypeOK, GetNamespace
<1>2. CASE CreateNamespace(u)
  BY <1>2 DEF TypeOK, CreateNamespace, Ended
<1>3. CASE Get(u)
  <2>1. AfterGet(u) \in Places
    BY DEF AfterGet, Places, Ended
  <2>2. pc' \in [Unit -> Places]
    BY <1>g, <1>3, <2>1 DEF Get, Places
  <2>3. status[u].observed \in 0..2
    BY DEF TypeOK
  <2>4. lastGeneration' \in [Unit -> 0..2] /\ written' \in [Unit -> BOOLEAN]
    BY <1>3, <2>3 DEF TypeOK, Get
  <2>5. faults' \in 0..MaxFaults /\ troubles' \in 0..MaxTroubles
    BY <1>b, <1>3 DEF Get
  <2> QED BY <1>3, <2>2, <2>4, <2>5 DEF TypeOK, Get, Places
<1>4. CASE ListPods(u) \/ ListDoomedPods(u)
  <2>1. todo' \in [Unit -> SUBSET (Unit \X Slot)]
    <3>1. {p \in Selected(u) \X Slot : pod[p[1]][p[2]] # None} \in SUBSET (Unit \X Slot)
      BY DEF Selected
    <3>2. todo' = [todo EXCEPT ![u] = {p \in Selected(u) \X Slot : pod[p[1]][p[2]] # None}]
      BY <1>4 DEF ListPods, ListDoomedPods, ListByLabels
    <3> QED BY <1>d, <3>1, <3>2, ChangeTyped
  <2>2. unlisted' \in [Unit -> SUBSET Host] /\ served' \in [Unit -> SUBSET Host]
    <3>1. unlisted \in [Unit -> SUBSET Host] /\ served \in [Unit -> SUBSET Host]
      BY DEF TypeOK
    <3>2. \/ UNCHANGED <<unlisted, served>>
          \/ \E S, T \in SUBSET Host : /\ unlisted' = [unlisted EXCEPT ![u] = S]
                                      /\ served' = [served EXCEPT ![u] = T]
      <4>1. CASE ListPods(u)
        <5> DEFINE S == {h \in Host : pod[u][h] = None}
        <5> DEFINE T == {h \in Host : /\ pod[u][h] # None /\ pod[u][h].phase = "running"
                                     /\ ~pod[u][h].going}
        <5>1. S \in SUBSET Host /\ T \in SUBSET Host
          OBVIOUS
        <5>2. unlisted' = [unlisted EXCEPT ![u] = S] /\ served' = [served EXCEPT ![u] = T]
          BY <4>1 DEF ListPods
        <5> HIDE DEF S, T
        <5> QED BY <5>1, <5>2
      <4>2. CASE ListDoomedPods(u)
        BY <4>2 DEF ListDoomedPods
      <4> QED BY <1>4, <4>1, <4>2
    <3> QED BY <3>1, <3>2, ChangeTyped
  <2>3. pc' \in [Unit -> Places]
    BY <1>4, <1>g DEF ListPods, ListDoomedPods, Places
  <2>4. UNCHANGED <<request, storeVars, controllerVars, hosts, lastGeneration, current, doomed, bounds>>
    BY <1>4 DEF ListPods, ListDoomedPods
  <2> QED BY <1>c, <2>1, <2>2, <2>3, <2>4 DEF TypeOK, Places
<1>5. CASE (Update(u) \/ Create(u)) /\ Write(u)
  <2>1. generation' \in [Unit -> 0..2]
    <3>1. request.op = "start"
      BY <1>5 DEF Update, Create, Flow, OfStart
    <3>2. generation[u] \in 0..2 /\ spec[u] \in Revision \cup {None}
      BY DEF TypeOK
    <3>3. spec[u] # "new" => generation[u] \in 0..1
      BY <3>1, <3>2 DEF Counts, Revision
    <3>4. (IF spec[u] = "new" THEN generation[u] ELSE generation[u] + 1) \in 0..2
      BY <3>2, <3>3
    <3> QED BY <1>5, <3>4, ChangeTyped DEF TypeOK, Write
  <2>2. want' \in [Unit -> [Revision -> Nat]]
    <3>1. Filled("new", 1) \in [Revision -> Nat]
      BY FilledIsTyped
    <3> QED BY <1>a, <1>5, <3>1 DEF Write
  <2>3. pc' \in [Unit -> Places]
    <3>1. AfterApply(u) \in Places /\ {"failed", "wait0", "started"} \subseteq Places
      BY DEF AfterApply, Places, Ended
    <3> QED BY <1>5, <1>g, <3>1 DEF Update, Create
  <2>4. spec' \in [Unit -> Revision \cup {None}]
    BY <1>e, <1>5 DEF Write, Revision
  <2> QED BY <1>5, <2>1, <2>2, <2>3, <2>4 DEF TypeOK, Update, Create, Write, Places
<1>6. CASE (Update(u) \/ Create(u)) /\ ~Write(u)
  BY <1>6 DEF TypeOK, Update, Create, Ended
<1>7. CASE Poll(u)
  BY <1>7 DEF TypeOK, Poll, Ended
<1>8. CASE Rotate(u) \/ DeletePods(u)
  <2>1. todo' \in [Unit -> SUBSET (Unit \X Slot)] /\ current' \in [Unit -> SUBSET (Unit \X Slot)]
    <3>1. \/ UNCHANGED <<todo, current>>
          \/ \E p \in todo[u] : /\ todo' = [todo EXCEPT ![u] = @ \ {p}]
                                /\ current' = [current EXCEPT ![u] = {p}] \/ UNCHANGED current
      BY <1>8 DEF Rotate, DeletePods
    <3> QED BY <1>d, <3>1, ChangeTyped
  <2>2. pc' \in [Unit -> Places]
    BY <1>8, <1>g DEF TypeOK, Rotate, DeletePods, Places, Ended
  <2>3. UNCHANGED <<request, storeVars, controllerVars, hosts, lastGeneration, doomed, historyVars, bounds>>
    BY <1>8 DEF Rotate, DeletePods
  <2> QED BY <1>c, <2>1, <2>2, <2>3 DEF TypeOK, Places
<1>9. CASE PollRotation(u)
  BY <1>9 DEF TypeOK, PollRotation, Ended
<1>10. CASE Read(u)
  BY <1>10 DEF TypeOK, Read, Ended
<1>11. CASE Delete(u)
  <2>1. want' \in [Unit -> [Revision -> Nat]]
    BY <1>a, <1>11, FilledIsTyped DEF Delete
  <2>2. spec' \in [Unit -> Revision \cup {None}]
    BY <1>e, <1>11 DEF Delete
  <2> QED BY <1>11, <2>1, <2>2 DEF TypeOK, Delete, AfterDelete, Ended
<1>12. CASE ListSets(u)
  <2>1. doomed' \in [Unit -> SUBSET (Unit \X Revision)]
    BY <1>d, <1>12 DEF ListSets, Selected
  <2> QED BY <1>12, <2>1 DEF TypeOK, ListSets
<1>13. CASE DeleteSets(u)
  <2>1. ASSUME NEW x \in doomed[u], sets' = [sets EXCEPT ![x[1]] = @ \ {x[2]}],
               want' = [want EXCEPT ![x[1]][x[2]] = 0]
        PROVE  want' \in [Unit -> [Revision -> Nat]] /\ sets' \in [Unit -> SUBSET Revision]
    <3>1. PICK w \in Unit, r \in Revision : x = <<w, r>>
      BY <1>d
    <3>2. want' = [want EXCEPT ![w][r] = 0] /\ sets' = [sets EXCEPT ![w] = @ \ {r}]
      BY <2>1, <3>1
    <3> QED BY <1>a, <3>2
  <2>2. want' \in [Unit -> [Revision -> Nat]] /\ sets' \in [Unit -> SUBSET Revision]
    BY <1>a, <1>13, <2>1 DEF DeleteSets
  <2>3. pc' \in [Unit -> Places]
    BY <1>13, <1>g DEF TypeOK, DeleteSets, Places, Ended
  <2>4. doomed' \in [Unit -> SUBSET (Unit \X Revision)]
    BY <1>d, <1>13 DEF DeleteSets
  <2> QED BY <1>13, <2>2, <2>3, <2>4 DEF TypeOK, DeleteSets, Places
<1>15. CASE Failing(u)
  BY <1>b, <1>15 DEF TypeOK, Failing, TimesOut, RotationTimesOut, Fails, Ended
<1>16. CASE Scale(u)
  <2>1. want' \in [Unit -> [Revision -> Nat]]
    <3>1. ASSUME NEW r \in Revision, want' = [want EXCEPT ![u][r] = @ + 1]
          PROVE  want' \in [Unit -> [Revision -> Nat]]
      <4>1. want[u][r] + 1 \in Nat
        BY <1>a
      <4> QED BY <1>a, <3>1, <4>1, PartTyped
    <3>2. ASSUME NEW r \in Revision, want[u][r] > 0, want' = [want EXCEPT ![u][r] = @ - 1]
          PROVE  want' \in [Unit -> [Revision -> Nat]]
      <4>1. want[u][r] - 1 \in Nat
        BY <1>a, <3>2
      <4> QED BY <1>a, <3>2, <4>1, PartTyped
    <3>3. spec[u] \in Revision /\ sets[u] \subseteq Revision
      BY <1>a, <1>e, <1>16 DEF Scale
    <3> QED BY <1>16, <3>1, <3>2, <3>3 DEF Scale
  <2>2. sets' \in [Unit -> SUBSET Revision]
    BY <1>a, <1>e, <1>16 DEF Scale
  <2> QED BY <1>16, <2>1, <2>2 DEF TypeOK, Scale
<1>17. CASE Report(u)
  <2>1. Observed(u) \in [observed : 0..2, updated : Nat, available : Nat]
    BY CountsAreTyped DEF TypeOK, Observed
  <2> QED BY <1>17, <2>1 DEF TypeOK, Report
<1>18. CASE MakePod(u) \/ RemovePod(u)
  BY <1>c, <1>18 DEF TypeOK, MakePod, RemovePod
<1>19. ASSUME NEW h \in Host, PlacePod(u, h)
       PROVE  TypeOK'
  BY <1>c, <1>19 DEF TypeOK, PlacePod
<1>20. ASSUME NEW s \in Slot, RunPod(u, s)
       PROVE  TypeOK'
  BY <1>c, <1>20 DEF TypeOK, RunPod
<1>21. ASSUME NEW s \in Slot, JobEnds(u, s)
       PROVE  TypeOK'
  <2>1. want' \in [Unit -> [Revision -> Nat]]
    BY <1>a, <1>21, FilledIsTyped DEF JobEnds
  <2> QED BY <1>c, <1>21, <2>1 DEF TypeOK, JobEnds
<1>22. ASSUME NEW s \in Slot, PodBreaks(u, s) \/ PodFails(u, s)
       PROVE  TypeOK'
  <2>1. faults' \in 0..MaxFaults /\ troubles' \in 0..MaxTroubles
    BY <1>b, <1>22 DEF PodBreaks, PodFails
  <2>2. served' \in [Unit -> SUBSET Host] /\ UNCHANGED unlisted
    <3>1. served \in [Unit -> SUBSET Host]
      BY DEF TypeOK
    <3>2. UNCHANGED served \/ served' = [served EXCEPT ![u] = @ \ {s}]
      BY <1>22 DEF PodBreaks, PodFails
    <3>3. served' \in [Unit -> SUBSET Host]
      BY <3>1, <3>2
    <3>4. UNCHANGED unlisted
      BY <1>22 DEF PodBreaks, PodFails
    <3> QED BY <3>3, <3>4 DEF TypeOK
  <2>3. UNCHANGED <<callVars, storeVars, controllerVars, hosts, localVars>>
    BY <1>22 DEF PodBreaks, PodFails
  <2> QED BY <1>c, <2>1, <2>2, <2>3 DEF TypeOK
<1> QED BY <1>1, <1>2, <1>3, <1>4, <1>5, <1>6, <1>7, <1>8, <1>9, <1>10, <1>11, <1>12, <1>13,
           <1>15, <1>16, <1>17, <1>18, <1>19, <1>20, <1>21, <1>22 DEF OfUnit, Working, Controllers

-----------------------------------------------------------------------------
(* The goroutines: what each step leaves.                                  *)

LEMMA FlowKept ==
  ASSUME TypeOK, NEW u \in Unit, Flow(u), OfUnit(u)
  PROVE  Flow(u)'
<1> USE DEF Flow, OfStart, OfDestroy, Goto, localVars, callVars
<1>0. pc \in [Unit -> Places] /\ UNCHANGED request
  BY RequestStays DEF TypeOK, Places
<1>t. todo \in [Unit -> SUBSET (Unit \X Slot)] /\ Selected(u)' = Selected(u)
  BY DEF TypeOK, Selected
<1>1. CASE GetNamespace(u) \/ CreateNamespace(u)
  BY <1>0, <1>t, <1>1 DEF GetNamespace, CreateNamespace
<1>2. CASE Get(u)
  BY <1>0, <1>t, <1>2 DEF Get, AfterGet
<1>l. CASE ListPods(u) \/ ListDoomedPods(u)
  BY <1>0, <1>t, <1>l DEF ListPods, ListDoomedPods, ListByLabels
<1>3. CASE Update(u) \/ Create(u)
  BY <1>0, <1>t, <1>3 DEF Update, Create, AfterApply
<1>4. CASE Poll(u)
  BY <1>0, <1>t, <1>4 DEF Poll
<1>5. CASE Rotate(u)
  BY <1>0, <1>t, <1>5 DEF Rotate
<1>6. CASE PollRotation(u)
  BY <1>0, <1>t, <1>6 DEF PollRotation
<1>7. CASE Read(u) \/ Delete(u)
  BY <1>0, <1>t, <1>7 DEF Read, Delete, AfterDelete
<1>8. CASE ListSets(u) \/ DeleteSets(u)
  BY <1>0, <1>t, <1>8 DEF ListSets, DeleteSets
<1>9. CASE DeletePods(u)
  BY <1>0, <1>t, <1>9 DEF DeletePods
<1>10. CASE Failing(u)
  BY <1>0, <1>t, <1>10 DEF Failing, TimesOut, RotationTimesOut, Fails
<1>11. CASE Controllers(u) \/ \E s \in Slot : PodBreaks(u, s) \/ PodFails(u, s)
  <2>1. UNCHANGED <<pc, todo>>
    BY <1>11 DEF Controllers, Scale, Report, MakePod, RemovePod, PlacePod, RunPod, JobEnds, PodFails,
                 PodBreaks
  <2> QED BY <1>0, <1>t, <2>1
<1> QED BY <1>l, <1>1, <1>2, <1>3, <1>4, <1>5, <1>6, <1>7, <1>8, <1>9, <1>10, <1>11 DEF OfUnit, Working

-----------------------------------------------------------------------------
(* The resource, its replica sets and what they want.                      *)

\* The steps that leave the resource and what its controllers want.
Wantless(u) ==
  \/ GetNamespace(u) \/ CreateNamespace(u) \/ Get(u) \/ ListPods(u) \/ Poll(u) \/ Rotate(u)
  \/ PollRotation(u) \/ Read(u) \/ ListSets(u) \/ ListDoomedPods(u) \/ DeletePods(u) \/ Failing(u)
  \/ MakePod(u) \/ RemovePod(u) \/ (\E h \in Host : PlacePod(u, h))
  \/ \E s \in Slot : RunPod(u, s) \/ PodBreaks(u, s) \/ PodFails(u, s)

LEMMA WantlessSteps ==
  ASSUME NEW u \in Unit, Wantless(u)
  PROVE  UNCHANGED <<spec, generation, status, sets, want>>
<1> USE DEF storeVars, controllerVars
<1>1. CASE GetNamespace(u) \/ CreateNamespace(u) \/ Get(u) \/ ListPods(u) \/ Poll(u) \/ Rotate(u)
           \/ PollRotation(u) \/ Read(u) \/ ListSets(u) \/ ListDoomedPods(u) \/ DeletePods(u)
  BY <1>1 DEF GetNamespace, CreateNamespace, Get, ListPods, Poll, Rotate, PollRotation, Read,
     ListSets, ListDoomedPods, DeletePods
<1>2. CASE \/ Failing(u) \/ MakePod(u) \/ RemovePod(u) \/ (\E h \in Host : PlacePod(u, h))
           \/ \E s \in Slot : RunPod(u, s) \/ PodBreaks(u, s) \/ PodFails(u, s)
  BY <1>2 DEF Failing, TimesOut, RotationTimesOut, Fails, MakePod, RemovePod, PlacePod, RunPod,
     PodBreaks, PodFails
<1> QED BY <1>1, <1>2 DEF Wantless

LEMMA StepsOfUnit ==
  ASSUME NEW u \in Unit, OfUnit(u)
  PROVE  \/ Wantless(u) \/ Update(u) \/ Create(u) \/ Delete(u) \/ DeleteSets(u) \/ Scale(u) \/ Report(u)
         \/ \E s \in Slot : JobEnds(u, s)
BY DEF OfUnit, Working, Controllers, Wantless

\* Where there are no pods none come of a resource that is not there and wants none.
LEMMA NothingComesOfNothing ==
  ASSUME TypeOK, NEW u \in Unit, OfUnit(u), \A s \in Slot : pod[u][s] = None,
         \A r \in Revision : want[u][r] = 0, Kind[u] # "daemonset" \/ spec[u] = None
  PROVE  \A s \in Slot : pod'[u][s] = None
<1> SUFFICES ASSUME NEW s \in Slot PROVE pod'[u][s] = None
  OBVIOUS
<1>1. Fate(u, u, s) /\ pod[u][s] = None
  BY WhatBecomesOfPods
<1>2. ~Made(u, s)
  <2>1. \A r \in Revision : ~(Pods(u, r) < want[u][r])
    BY CountsAreTyped
  <2>2. None \notin Revision
    BY NoneAssumption DEF Revision
  <2> QED BY <2>1, <2>2 DEF Made
<1> QED BY <1>1, <1>2 DEF Fate, Listed, Deleted, IsThere, Removed, Gone, Turned

LEMMA CountsKept ==
  ASSUME TypeOK, NEW u \in Unit, Flow(u), Counts(u), OfUnit(u)
  PROVE  Counts(u)'
<1> USE DEF storeVars, controllerVars
<1>0. /\ spec \in [Unit -> Revision \cup {None}] /\ sets \in [Unit -> SUBSET Revision]
      /\ want \in [Unit -> [Revision -> Nat]] /\ generation \in [Unit -> 0..2]
      /\ Replicas[u] \in Nat \ {0} /\ UNCHANGED request /\ None \notin Revision
  BY RequestStays, NumberAssumption, NoneAssumption DEF TypeOK, Revision
<1>a. /\ spec[u] = None /\ (request.op = "start" \/ u \notin request.units) =>
           \A s \in Slot : pod'[u][s] = None
      /\ Kind[u] \notin {"deployment", "daemonset", "job"} => \A s \in Slot : pod'[u][s] = None
  BY NothingComesOfNothing DEF Counts
<1>1. CASE Wantless(u)
  BY <1>0, <1>a, <1>1, WantlessSteps DEF Counts
<1>2. CASE Update(u) \/ Create(u)
  <2>0. request.op = "start"
    BY <1>2 DEF Update, Create, Flow, OfStart
  <2>1. CASE Write(u)
    <3>1. spec'[u] = "new" /\ UNCHANGED sets /\ (Kind[u] # "job" => want'[u] = want[u])
      BY <1>0, <2>1 DEF Write
    <3> QED BY <1>0, <1>a, <3>1, NoneAssumption DEF Counts
  <2>2. CASE ~Write(u)
    BY <1>0, <1>a, <1>2, <2>2 DEF Update, Create, Counts
  <2> QED BY <2>1, <2>2
<1>3. CASE Delete(u)
  <2>1. request.op = "destroy" /\ u \in request.units
    BY <1>3 DEF Delete, Flow, OfDestroy
  <2>2. UNCHANGED sets /\ (Kind[u] # "job" => want'[u] = want[u])
    BY <1>0, <1>3 DEF Delete
  <2> QED BY <1>0, <1>a, <2>1, <2>2 DEF Counts
<1>4. CASE DeleteSets(u)
  <2>1. request.op = "destroy" /\ u \in request.units
    BY <1>4 DEF DeleteSets, Flow, OfDestroy
  <2>2. CASE UNCHANGED <<sets, want>>
    BY <1>0, <1>a, <2>1, <2>2 DEF Counts
  <2>3. ASSUME NEW x \in doomed[u], sets' = [sets EXCEPT ![x[1]] = @ \ {x[2]}],
               want' = [want EXCEPT ![x[1]][x[2]] = 0]
        PROVE  Counts(u)'
    <3>1. PICK w \in Unit, q \in Revision : x = <<w, q>>
      BY <2>3 DEF TypeOK
    <3>2. sets' = [sets EXCEPT ![w] = @ \ {q}] /\ want' = [want EXCEPT ![w][q] = 0]
      BY <2>3, <3>1
    <3>3. sets'[u] \subseteq sets[u] /\ \A r \in Revision :
            \/ want'[u][r] = 0
            \/ want'[u][r] = want[u][r] /\ (r \in sets[u] => r \in sets'[u])
      BY <1>0, <3>2
    <3> QED BY <1>0, <1>a, <2>1, <3>3 DEF Counts
  <2> QED BY <1>4, <2>2, <2>3 DEF DeleteSets
<1>5. CASE Scale(u)
  <2>1. Kind[u] = "deployment" /\ spec[u] # None /\ UNCHANGED <<spec, generation>>
    BY <1>5 DEF Scale, Deployments
  <2>2. \A r \in Revision : want'[u][r] <= Replicas[u] /\ (r \notin sets'[u] => want'[u][r] = 0)
    <3>1. CASE /\ want[u][spec[u]] < Replicas[u] /\ sets' = [sets EXCEPT ![u] = @ \cup {spec[u]}]
               /\ want' = [want EXCEPT ![u][spec[u]] = @ + 1]
      BY <1>0, <2>1, <3>1 DEF Counts
    <3>2. ASSUME NEW q \in sets[u], want[u][q] > 0, UNCHANGED sets, want' = [want EXCEPT ![u][q] = @ - 1]
          PROVE  \A r \in Revision : want'[u][r] <= Replicas[u] /\ (r \notin sets'[u] => want'[u][r] = 0)
      <4>1. \A r \in Revision \ {q} : want'[u][r] = want[u][r]
        BY <1>0, <3>2
      <4>2. want'[u][q] = want[u][q] - 1
        BY <1>0, <3>2
      <4> QED BY <1>0, <2>1, <3>2, <4>1, <4>2 DEF Counts
    <3> QED BY <1>5, <3>1, <3>2 DEF Scale
  <2> QED BY <1>0, <1>a, <2>1, <2>2 DEF Counts
<1>6. CASE Report(u)
  <2>1. spec[u] # None /\ UNCHANGED <<spec, generation, sets, want>>
    BY <1>6 DEF Report
  <2> QED BY <1>0, <1>a, <2>1 DEF Counts
<1>7. ASSUME NEW s \in Slot, JobEnds(u, s)
      PROVE  Counts(u)'
  <2>1. Kind[u] = "job" /\ pod[u][s] # None /\ UNCHANGED <<spec, generation, status, sets>>
    BY <1>7 DEF JobEnds
  <2> QED BY <1>0, <1>a, <2>1 DEF Counts
<1> QED BY <1>1, <1>2, <1>3, <1>4, <1>5, <1>6, <1>7, StepsOfUnit

LEMMA CountsOfOthersKept ==
  ASSUME TypeOK, NEW u \in Unit, NEW v \in Unit \ {u}, Flow(v), Counts(u), OfUnit(v)
  PROVE  Counts(u)'
<1>1. UNCHANGED request /\ Replicas[u] \in Nat
  BY RequestStays, NumberAssumption
<1>2. (\A s \in Slot : pod[u][s] = None) => \A s \in Slot : pod'[u][s] = None
  BY OthersPods
<1>3. want \in [Unit -> [Revision -> Nat]] /\ sets \in [Unit -> SUBSET Revision]
  BY DEF TypeOK
<1> QED BY <1>1, <1>2, <1>3, OthersStay DEF Counts

-----------------------------------------------------------------------------
(* Destroy of deployments and jobs.                                        *)

\* A goroutine of Start, one that fails and one that reads the labels are not among the
\* last steps of Destroy.
LEMMA NotGoing ==
  ASSUME TypeOK, NEW u \in Unit,
         \/ GetNamespace(u) \/ CreateNamespace(u) \/ Get(u) \/ ListPods(u) \/ Update(u) \/ Create(u)
         \/ Poll(u) \/ Rotate(u) \/ PollRotation(u) \/ Read(u) \/ Failing(u)
  PROVE  pc'[u] \notin {"listSets", "deleteSets", "listPods", "deletePods", "destroyed"}
<1> USE DEF Goto
<1>0. pc \in [Unit -> Places]
  BY DEF TypeOK, Places
<1>1. CASE GetNamespace(u) \/ CreateNamespace(u) \/ Get(u) \/ ListPods(u)
  BY <1>0, <1>1 DEF GetNamespace, CreateNamespace, Get, AfterGet, ListPods
<1>2. CASE Update(u) \/ Create(u)
  BY <1>0, <1>2 DEF Update, Create, AfterApply
<1>3. CASE Poll(u)
  BY <1>0, <1>3 DEF Poll
<1>4. CASE Rotate(u) \/ PollRotation(u)
  BY <1>0, <1>4 DEF Rotate, PollRotation
<1>5. CASE Read(u)
  BY <1>0, <1>5 DEF Read
<1>6. CASE Failing(u)
  BY <1>0, <1>6 DEF Failing, TimesOut, RotationTimesOut, Fails
<1> QED BY <1>1, <1>2, <1>3, <1>4, <1>5, <1>6

\* A pod that is gone or going stays so, where none are wanted.
LEMMA GoingStays ==
  ASSUME TypeOK, NEW u \in Unit, NEW v \in Unit, NEW s \in Slot, Flow(v), OfUnit(v),
         \A r \in Revision : want[u][r] = 0, Kind[u] # "daemonset",
         pod[u][s] = None \/ pod[u][s].going
  PROVE  pod'[u][s] = None \/ pod'[u][s].going
<1>1. CASE u # v
  BY <1>1, OthersPods
<1>2. CASE u = v
  <2>1. Fate(u, u, s) /\ pod[u][s] \in Pod \cup {None}
    BY <1>2, WhatBecomesOfPods DEF TypeOK
  <2>2. ~Made(u, s)
    <3>1. \A r \in Revision : ~(Pods(u, r) < want[u][r])
      BY CountsAreTyped
    <3> QED BY <3>1 DEF Made
  <2> QED BY <2>1, <2>2 DEF Fate, Listed, Deleted, IsThere, Removed, Gone, Turned, Pod
<1> QED BY <1>1, <1>2

LEMMA GoingKept ==
  ASSUME TypeOK, NEW u \in Unit, Flow(u), Counts(u), Going(u), OfUnit(u)
  PROVE  Going(u)'
<1> SUFFICES ASSUME Kind[u] \in {"deployment", "job"}
             PROVE  Going(u)'
  BY DEF Going
<1> USE DEF Goto, storeVars, controllerVars, podVars, callVars
<1>0. /\ spec \in [Unit -> Revision \cup {None}] /\ sets \in [Unit -> SUBSET Revision]
      /\ want \in [Unit -> [Revision -> Nat]] /\ pc \in [Unit -> Places]
      /\ pod \in [Unit -> [Slot -> Pod \cup {None}]]
      /\ todo \in [Unit -> SUBSET (Unit \X Slot)]
      /\ doomed \in [Unit -> SUBSET (Unit \X Revision)]
  BY DEF TypeOK, Places
<1>g. ASSUME pc[u] \in {"listPods", "deletePods", "destroyed"}, NEW s \in Slot,
             pod[u][s] = None \/ pod[u][s].going
      PROVE  pod'[u][s] = None \/ pod'[u][s].going
  BY <1>g, GoingStays DEF Going
<1>1. CASE \/ GetNamespace(u) \/ CreateNamespace(u) \/ Get(u) \/ ListPods(u) \/ Update(u) \/ Create(u)
           \/ Poll(u) \/ Rotate(u) \/ PollRotation(u) \/ Read(u) \/ Failing(u)
  BY <1>1, NotGoing DEF Going
<1>2. CASE Delete(u)
  <2>1. pc'[u] \in {"failed", "listSets", "listPods"} /\ UNCHANGED sets
    BY <1>0, <1>2 DEF Delete, AfterDelete
  <2>2. pc'[u] # "failed" => spec'[u] = None
    BY <1>0, <1>2 DEF Delete
  <2>3. pc'[u] = "listPods" => sets[u] = {} /\ \A r \in Revision : want'[u][r] = 0
    BY <1>0, <1>2, NoneAssumption DEF Delete, AfterDelete, Counts, Filled, Revision
  <2> QED BY <2>1, <2>2, <2>3 DEF Going
<1>3. CASE ListSets(u)
  <2>1. pc[u] = "listSets" /\ pc'[u] = "deleteSets" /\ UNCHANGED <<spec, sets>>
    BY <1>0, <1>3 DEF ListSets
  <2>2. \A r \in sets[u] : <<u, r>> \in doomed'[u]
    BY <1>0, <1>3 DEF ListSets, Selected
  <2> QED BY <2>1, <2>2 DEF Going
<1>4. CASE DeleteSets(u)
  <2>1. pc[u] = "deleteSets" /\ UNCHANGED spec /\ Kind[u] = "deployment"
    BY <1>4 DEF DeleteSets, Flow
  <2>2. CASE doomed[u] = {} /\ Goto(u, "listPods") /\ UNCHANGED <<sets, want>>
    BY <1>0, <2>1, <2>2 DEF Going, Counts
  <2>3. ASSUME NEW x \in doomed[u], doomed' = [doomed EXCEPT ![u] = @ \ {x}], x[2] \in sets[x[1]],
               sets' = [sets EXCEPT ![x[1]] = @ \ {x[2]}], UNCHANGED pc
        PROVE  Going(u)'
    <3>1. PICK w \in Unit, q \in Revision : x = <<w, q>>
      BY <1>0
    <3>2. sets' = [sets EXCEPT ![w] = @ \ {q}] /\ doomed'[u] = doomed[u] \ {<<w, q>>}
      BY <1>0, <2>3, <3>1
    <3>3. \A r \in sets'[u] : r \in sets[u] /\ <<u, r>> # <<w, q>>
      BY <1>0, <3>2
    <3> QED BY <2>1, <2>3, <3>2, <3>3 DEF Going
  <2>4. CASE Goto(u, "failed")
    BY <1>0, <2>4 DEF Going
  <2> QED BY <1>4, <2>2, <2>3, <2>4 DEF DeleteSets
<1>5. CASE ListDoomedPods(u)
  <2>1. pc[u] = "listPods" /\ pc'[u] = "deletePods" /\ UNCHANGED <<spec, sets, want>>
    BY <1>0, <1>5 DEF ListDoomedPods
  <2>2. \A s \in Slot : pod[u][s] # None => <<u, s>> \in todo'[u]
    BY <1>0, <1>5 DEF ListDoomedPods, ListByLabels, Selected
  <2> QED BY <1>g, <2>1, <2>2 DEF Going
<1>6. CASE DeletePods(u)
  <2>1. pc[u] = "deletePods" /\ UNCHANGED <<spec, sets, want>>
    BY <1>6 DEF DeletePods
  <2>2. CASE todo[u] = {} /\ Goto(u, "destroyed") /\ UNCHANGED <<todo, pod>>
    BY <1>0, <2>1, <2>2 DEF Going
  <2>3. ASSUME NEW p \in todo[u], todo' = [todo EXCEPT ![u] = @ \ {p}], DeletePod(p), IsThere(u, p),
               UNCHANGED pc
        PROVE  Going(u)'
    <3>1. PICK w \in Unit, t \in Slot : p = <<w, t>>
      BY <1>0
    <3>2. pod[w][t] # None /\ pod' = [pod EXCEPT ![w][t].going = TRUE]
      BY <2>3, <3>1 DEF DeletePod, IsThere
    <3>3. todo'[u] = todo[u] \ {<<w, t>>}
      BY <1>0, <2>3, <3>1
    <3>4. pod[w][t] \in Pod /\ pod'[w][t].going
      BY <1>0, <3>2 DEF Pod
    <3>5. ASSUME NEW s \in Slot
          PROVE  pod'[u][s] = None \/ pod'[u][s].going \/ <<u, s>> \in todo'[u]
      <4>1. pod[u][s] = None \/ pod[u][s].going \/ <<u, s>> \in todo[u]
        BY <2>1 DEF Going
      <4>2. CASE u = w /\ s = t
        BY <3>4, <4>2
      <4>3. CASE <<u, s>> \in todo[u] /\ ~(u = w /\ s = t)
        BY <3>3, <4>3
      <4> QED BY <1>g, <2>1, <4>1, <4>2, <4>3
    <3> QED BY <2>1, <2>3, <3>5 DEF Going
  <2>4. CASE Goto(u, "failed")
    BY <1>0, <2>4 DEF Going
  <2> QED BY <1>6, <2>2, <2>3, <2>4 DEF DeletePods
<1>7. CASE Scale(u) \/ Report(u)
  <2>1. spec[u] # None /\ UNCHANGED <<pc, spec>>
    BY <1>7 DEF Scale, Report
  <2> QED BY <2>1 DEF Going
<1>8. CASE \/ MakePod(u) \/ RemovePod(u) \/ (\E h \in Host : PlacePod(u, h))
           \/ \E s \in Slot : RunPod(u, s) \/ JobEnds(u, s) \/ PodBreaks(u, s) \/ PodFails(u, s)
  <2>1. UNCHANGED <<pc, spec, sets, todo, doomed>>
    BY <1>8 DEF MakePod, RemovePod, PlacePod, RunPod, JobEnds, PodBreaks, PodFails, localVars
  <2>2. \A r \in Revision : want[u][r] = 0 => want'[u][r] = 0
    <3>1. CASE UNCHANGED want
      BY <3>1
    <3>2. CASE want' = [want EXCEPT ![u] = Filled(None, 0)]
      BY <1>0, <3>2 DEF Filled
    <3> QED BY <1>8, <3>1, <3>2 DEF MakePod, RemovePod, PlacePod, RunPod, JobEnds, PodBreaks, PodFails
  <2> QED BY <1>g, <2>1, <2>2 DEF Going
<1> QED BY <1>1, <1>2, <1>3, <1>4, <1>5, <1>6, <1>7, <1>8 DEF OfUnit, Working, Controllers

LEMMA GoingOfOthersKept ==
  ASSUME TypeOK, NEW u \in Unit, NEW v \in Unit \ {u}, Flow(v), Going(u), OfUnit(v)
  PROVE  Going(u)'
<1>1. pc[u] \in {"listPods", "deletePods", "destroyed"} /\ Kind[u] \in {"deployment", "job"} =>
        \A s \in Slot : pod[u][s] = None \/ pod[u][s].going => pod'[u][s] = None \/ pod'[u][s].going
  BY GoingStays DEF Going
<1>2. want \in [Unit -> [Revision -> Nat]] /\ sets \in [Unit -> SUBSET Revision]
  BY DEF TypeOK
<1> QED BY <1>1, <1>2, OthersStay DEF Going

-----------------------------------------------------------------------------
(* Start of deployments.                                                   *)

\* No pod of the new revision is taken from a deployment that is started.
LEMMA NewPodsStay ==
  ASSUME TypeOK, NEW u \in Unit, Flow(u), Counts(u), Coming(u), OfUnit(u),
         Kind[u] = "deployment", request.op = "start"
  PROVE  /\ Pods(u, "new") <= Pods(u, "new")'
         /\ Pods(u, "new")' <= want'[u]["new"]
<1> DEFINE S == PodsIn(u, "new", {"pending", "running"})
<1>0. /\ spec \in [Unit -> Revision \cup {None}] /\ sets \in [Unit -> SUBSET Revision]
      /\ want \in [Unit -> [Revision -> Nat]] /\ pod \in [Unit -> [Slot -> Pod \cup {None}]]
      /\ "new" \in Revision
  BY DEF TypeOK, Revision
<1>a. Pods(u, "new") \in Nat /\ want[u]["new"] \in Nat
  BY <1>0, CountsAreTyped
<1>c. Pods(u, "new") <= want[u]["new"] /\ (spec[u] = "old" => sets[u] \subseteq {"old"})
  BY DEF Coming
<1>d. ~DeletePods(u) /\ ~Delete(u) /\ ~DeleteSets(u) /\ ~ListPods(u) /\ ~ListDoomedPods(u) /\ ~Rotate(u)
  BY DEF DeletePods, Delete, DeleteSets, ListPods, ListDoomedPods, Rotate, Flow, OfDestroy
<1>1. want[u]["new"] <= want'[u]["new"] /\ (MakePod(u) => UNCHANGED want)
  <2>1. CASE Scale(u)
    <3>1. ASSUME want' = [want EXCEPT ![u][spec[u]] = @ + 1]
          PROVE  want[u]["new"] <= want'[u]["new"]
      <4>1. spec[u] \in Revision
        BY <1>0, <2>1 DEF Scale
      <4>2. CASE spec[u] = "new"
        BY <1>0, <1>a, <3>1, <4>2
      <4>3. CASE spec[u] # "new"
        BY <1>0, <1>a, <3>1, <4>1, <4>3
      <4> QED BY <4>2, <4>3
    <3>2. ASSUME NEW r \in sets[u] \ {spec[u]}, want' = [want EXCEPT ![u][r] = @ - 1]
          PROVE  want'[u]["new"] = want[u]["new"]
      <4>1. r # "new"
        BY <1>0, <1>c, <2>1, <3>2 DEF Scale, Revision
      <4> QED BY <1>0, <3>2, <4>1
    <3>3. MakePod(u) => UNCHANGED want
      BY DEF MakePod, controllerVars
    <3> QED BY <1>0, <1>a, <2>1, <3>1, <3>2, <3>3 DEF Scale
  <2>2. CASE Update(u) \/ Create(u)
    <3>1. want'[u] = want[u]
      BY <1>0, <2>2 DEF Update, Create, Write, controllerVars
    <3>2. MakePod(u) => UNCHANGED want
      BY DEF MakePod, controllerVars
    <3> QED BY <1>a, <3>1, <3>2
  <2>3. CASE Wantless(u)
    BY <1>a, <2>3, WantlessSteps
  <2>4. CASE Report(u)
    BY <1>a, <2>4 DEF Report
  <2>5. ~\E s \in Slot : JobEnds(u, s)
    BY DEF JobEnds
  <2> QED BY <1>d, <2>1, <2>2, <2>3, <2>4, <2>5, StepsOfUnit
<1>f. IsFiniteSet(S) /\ Cardinality(S) \in Nat
  BY PodsAreCounted
<1>2. CASE MakePod(u)
  <2>1. PICK r \in Revision, t \in Slot :
          /\ Pods(u, r) < want[u][r] /\ pod[u][t] = None
          /\ pod' = [pod EXCEPT ![u][t] = FreshPod(r, "pending")]
    BY <1>2, SlotAssumption DEF MakePod, Free, TypeOK
  <2>2. S' = IF r = "new" THEN S \cup {t} ELSE S
    <3>1. pod'[u][t] = FreshPod(r, "pending") /\ \A s \in Slot \ {t} : pod'[u][s] = pod[u][s]
      BY <1>0, <2>1
    <3>2. /\ pod'[u][t] # None /\ pod'[u][t].rev = r /\ pod'[u][t].phase = "pending"
          /\ ~pod'[u][t].going
      <4>1. pod'[u][t] # None
        BY <3>1, FreshIsPod, PodAssumption
      <4> QED BY <3>1, <4>1 DEF FreshPod
    <3>3. t \in S' <=> r = "new"
      BY <3>2 DEF PodsIn
    <3>4. \A s \in Slot \ {t} : s \in S' <=> s \in S
      BY <3>1 DEF PodsIn
    <3>5. t \notin S /\ S \subseteq Slot /\ S' \subseteq Slot
      BY <2>1 DEF PodsIn
    <3> HIDE DEF S
    <3> QED BY <3>3, <3>4, <3>5
  <2>3. t \notin S
    BY <2>1 DEF PodsIn
  <2>4. CASE r = "new"
    <3>1. Cardinality(S') = Cardinality(S) + 1
      BY <1>f, <2>2, <2>3, <2>4, FS_AddElement
    <3>2. Pods(u, "new")' = Pods(u, "new") + 1
      BY <3>1 DEF Pods
    <3> QED BY <1>1, <1>2, <1>a, <2>1, <2>4, <3>2
  <2>5. CASE r # "new"
    <3>1. Pods(u, "new")' = Pods(u, "new")
      BY <2>2, <2>5 DEF Pods
    <3> QED BY <1>1, <1>a, <1>c, <1>2, <3>1
  <2> QED BY <2>4, <2>5
<1>3. CASE ~MakePod(u)
  <2>1. ASSUME NEW s \in Slot
        PROVE  s \in S <=> s \in S'
    <3>1. Fate(u, u, s) /\ ~Listed(u, u, s) /\ ~Deleted(u, u, s) /\ ~Made(u, s)
      BY <1>3, <1>d, WhatBecomesOfPods DEF Listed, Deleted, Made
    <3>2. pod[u][s] = None \/ pod[u][s] \in Pod
      BY <1>0
    <3>3. CASE pod'[u][s] = pod[u][s]
      BY <3>3 DEF PodsIn
    <3>4. CASE Removed(u, s)
      <4>1. PICK r \in sets[u] : pod[u][s].rev = r /\ Pods(u, r) > want[u][r]
        BY <3>4 DEF Removed
      <4>2. r # "new"
        BY <1>a, <1>c, <4>1
      <4>3. pod[u][s].rev # "new" /\ pod'[u][s].going
        BY <3>2, <3>4, <4>1, <4>2 DEF Removed, Pod
      <4> QED BY <4>3 DEF PodsIn
    <3>5. CASE Gone(u, s)
      BY <3>5 DEF Gone, PodsIn, Deployments
    <3>6. CASE Turned(u, s)
      <4>1. PICK phase \in {"pending", "running", "succeeded", "failed"} :
              /\ pod'[u][s] = [pod[u][s] EXCEPT !.phase = phase]
              /\ {pod[u][s].phase, phase} = {"pending", "running"}
        BY <3>6 DEF Turned, Deployments
      <4>2. pod[u][s] \in Pod /\ pod'[u][s] \in Pod
        BY <3>2, <3>6, <4>1 DEF Turned, Pod
      <4>3. /\ pod[u][s].phase \in {"pending", "running"} /\ pod'[u][s].phase \in {"pending", "running"}
            /\ pod'[u][s].rev = pod[u][s].rev /\ pod'[u][s].going = pod[u][s].going
        BY <4>1, <4>2 DEF Pod
      <4> QED BY <4>2, <4>3, PodAssumption DEF PodsIn
    <3> QED BY <3>1, <3>3, <3>4, <3>5, <3>6 DEF Fate
  <2>2. S = S'
    <3>1. S \subseteq Slot /\ S' \subseteq Slot
      BY DEF PodsIn
    <3> HIDE DEF S
    <3> QED BY <2>1, <3>1
  <2>3. Pods(u, "new")' = Pods(u, "new")
    BY <2>2 DEF Pods
  <2>4. want'[u]["new"] \in Nat
    BY <1>0, TypesKept DEF TypeOK
  <2> QED BY <1>1, <1>a, <1>c, <2>3, <2>4
<1> QED BY <1>2, <1>3

LEMMA ComingKept ==
  ASSUME TypeOK, NEW u \in Unit, Flow(u), Counts(u), Coming(u), OfUnit(u)
  PROVE  Coming(u)'
<1> SUFFICES ASSUME Kind[u] = "deployment", request.op = "start"
             PROVE  Coming(u)'
  BY RequestStays DEF Coming
<1> USE DEF Goto, storeVars, controllerVars, podVars, localVars
<1>0. /\ spec \in [Unit -> Revision \cup {None}] /\ sets \in [Unit -> SUBSET Revision]
      /\ generation \in [Unit -> 0..2] /\ pc \in [Unit -> Places]
      /\ status \in [Unit -> [observed : 0..2, updated : Nat, available : Nat]]
      /\ lastGeneration \in [Unit -> 0..2] /\ written \in [Unit -> BOOLEAN]
      /\ Replicas[u] \in Nat
  BY NumberAssumption DEF TypeOK, Places
<1>1. /\ Pods(u, "new") <= Pods(u, "new")' /\ Pods(u, "new")' <= want'[u]["new"]
      /\ Pods(u, "new") \in Nat /\ Pods(u, "new")' \in Nat /\ Pods(u, "new")' <= Replicas[u]
  <2>1. "new" \in Revision
    BY DEF Revision
  <2>2. Counts(u)' /\ TypeOK'
    BY CountsKept, TypesKept
  <2>3. want'[u]["new"] \in Nat /\ want'[u]["new"] <= Replicas[u]
    BY <2>1, <2>2 DEF TypeOK, Counts
  <2>4. Pods(u, "new") \in Nat
    BY CountsAreTyped
  <2>5. Pods(u, "new")' \in Nat
    <3>1. PodsIn(u, "new", {"pending", "running"})' \in SUBSET Slot
      BY DEF PodsIn
    <3>2. IsFiniteSet(PodsIn(u, "new", {"pending", "running"})')
      BY <3>1, SlotAssumption, FS_Subset
    <3> QED BY <3>2, FS_CardinalityType DEF Pods
  <2> QED BY <1>0, <2>3, <2>4, <2>5, NewPodsStay
<1>d. ~DeletePods(u) /\ ~Delete(u) /\ ~ListSets(u) /\ ~DeleteSets(u) /\ ~ListPods(u)
      /\ ~ListDoomedPods(u) /\ ~Read(u) /\ ~Rotate(u) /\ ~PollRotation(u)
  BY DEF DeletePods, Delete, ListSets, DeleteSets, ListPods, ListDoomedPods, Read, Rotate, PollRotation,
         Flow, OfDestroy
<1>i. ASSUME NEW a \in Int, NEW b \in Int, NEW c \in Int, a <= b, b <= c
      PROVE  a = c => b = c
  BY <1>i
<1>f. Pods(u, "new") = Replicas[u] => Pods(u, "new")' = Replicas[u]
  <2>1. /\ Pods(u, "new") \in Int /\ Pods(u, "new")' \in Int /\ Replicas[u] \in Int
        /\ Pods(u, "new") <= Pods(u, "new")' /\ Pods(u, "new")' <= Replicas[u]
    BY <1>0, <1>1
  <2> QED BY <1>i, <2>1
\* A step that leaves the resource and where the goroutine is.
<1>2. ASSUME UNCHANGED <<pc[u], spec[u], generation[u], written[u], status[u], lastGeneration[u]>>,
             spec[u] = "old" => sets'[u] \subseteq {"old"}
      PROVE  Coming(u)'
  <2>1. Pods(u, "new") = Replicas[u] => Pods(u, "new")' = Replicas[u]
    BY <1>f
  <2>2. status[u].updated \in Nat
    BY <1>0
  <2>3. status[u].updated <= Pods(u, "new") => status'[u].updated <= Pods(u, "new")'
    BY <1>1, <1>2, <2>2
  <2> QED BY <1>1, <1>2, <2>1, <2>3 DEF Coming
<1>3. CASE GetNamespace(u) \/ CreateNamespace(u)
  BY <1>0, <1>1, <1>3 DEF Coming, GetNamespace, CreateNamespace
<1>e. /\ Pods(u, "new") = Replicas[u] => Pods(u, "new")' = Replicas[u]
      /\ UNCHANGED status /\ status[u].updated <= Pods(u, "new") =>
           status'[u].updated <= Pods(u, "new")'
  <2>1. status[u].updated \in Int
    BY <1>0
  <2> QED BY <1>1, <1>f, <2>1
<1>4. CASE Get(u)
  <2>1. UNCHANGED <<spec, generation, status, sets>> /\ pc[u] = "get"
    BY <1>4 DEF Get
  <2>2. \/ pc'[u] = "update" /\ lastGeneration'[u] = status[u].observed
        \/ pc'[u] = "create" /\ lastGeneration'[u] = lastGeneration[u]
    BY <1>0, <1>4 DEF Get, AfterGet
  <2> QED BY <1>1, <1>e, <2>1, <2>2 DEF Coming
<1>5. CASE Update(u) \/ Create(u)
  <2>1. CASE (Update(u) /\ ~Refused(u)) \/ (Create(u) /\ spec[u] = None)
    <3>0. /\ Write(u) /\ Goto(u, "wait0") /\ UNCHANGED localVars
          /\ pc[u] \in {"update", "create"}
      BY <2>1 DEF Update, Create, AfterApply
    <3>1. /\ spec'[u] = "new" /\ UNCHANGED <<status, sets, written, lastGeneration>> /\ pc'[u] = "wait0"
          /\ pc[u] \in {"update", "create"}
          /\ IF spec[u] = "new" THEN generation'[u] = generation[u] ELSE generation'[u] = generation[u] + 1
      BY <1>0, <3>0 DEF Write
    <3>2. status[u].observed = lastGeneration[u]
      <4>1. CASE Update(u) /\ ~Refused(u)
        BY <4>1 DEF Update, Refused, Coming
      <4>2. CASE Create(u) /\ spec[u] = None
        BY <4>2 DEF Create, Coming, Counts
      <4> QED BY <2>1, <4>1, <4>2
    <3>3. status[u].observed \in Int /\ generation[u] \in Int /\ status[u].observed <= generation[u]
      BY <1>0 DEF Coming
    <3>4. status[u].observed <= generation'[u]
      BY <3>1, <3>3
    <3>5. status[u].observed = generation'[u] => spec[u] = "new" /\ status[u].observed = generation[u]
      BY <3>1, <3>3
    <3> QED BY <1>1, <1>e, <3>1, <3>2, <3>4, <3>5 DEF Coming
  <2>2. CASE (Update(u) /\ Refused(u)) \/ (Create(u) /\ spec[u] # None)
    <3>1. pc'[u] = "failed" /\ UNCHANGED <<spec, generation, status, sets, written, lastGeneration>>
      BY <1>0, <2>2 DEF Update, Create
    <3> QED BY <1>1, <1>e, <3>1 DEF Coming
  <2> QED BY <1>5, <2>1, <2>2
<1>6. CASE Poll(u)
  <2>0. UNCHANGED <<spec, generation, status, sets, written, lastGeneration>>
    BY <1>6 DEF Poll
  <2>1. \/ pc[u] = "wait0" /\ status[u].observed # lastGeneration[u] /\ pc'[u] = "wait1"
        \/ pc[u] = "wait1" /\ status[u].updated = Replicas[u] /\ pc'[u] = "wait2"
        \/ pc[u] = "wait2" /\ pc'[u] = "started"
    BY <1>0, <1>6 DEF Poll, GenerationUpdated
  <2>2. CASE pc[u] = "wait0" /\ status[u].observed # lastGeneration[u] /\ pc'[u] = "wait1"
    BY <1>1, <1>e, <2>0, <2>2 DEF Coming
  <2>3. CASE pc[u] = "wait1" /\ status[u].updated = Replicas[u] /\ pc'[u] = "wait2"
    <3>1. status[u].observed = generation[u] /\ spec[u] = "new" /\ status[u].updated <= Pods(u, "new")
      BY <2>3 DEF Coming
    <3>2. Pods(u, "new")' = Replicas[u]
      <4>1. /\ Pods(u, "new") \in Int /\ Pods(u, "new")' \in Int /\ Replicas[u] \in Int
            /\ Replicas[u] <= Pods(u, "new")' /\ Pods(u, "new")' <= Replicas[u]
        BY <1>0, <1>1, <2>3, <3>1
      <4> QED BY <1>i, <4>1
    <3> QED BY <1>1, <1>e, <2>0, <2>3, <3>1, <3>2 DEF Coming
  <2>4. CASE pc[u] = "wait2" /\ pc'[u] = "started"
    BY <1>1, <1>e, <2>0, <2>4 DEF Coming
  <2> QED BY <2>1, <2>2, <2>3, <2>4
<1>7. CASE Failing(u)
  <2>1. pc'[u] = "failed" /\ UNCHANGED <<spec, generation, status, sets, written, lastGeneration>>
    BY <1>0, <1>7 DEF Failing, TimesOut, RotationTimesOut, Fails
  <2> QED BY <1>1, <1>e, <2>1 DEF Coming
<1>8. CASE Scale(u)
  <2>1. sets'[u] \subseteq sets[u] \cup {spec[u]}
    BY <1>0, <1>8 DEF Scale
  <2>2. UNCHANGED <<pc[u], spec[u], generation[u], written[u], status[u], lastGeneration[u]>>
    BY <1>8 DEF Scale, callVars
  <2> QED BY <1>2, <2>1, <2>2 DEF Coming
<1>9. CASE Report(u)
  <2>1. /\ UNCHANGED <<pc, spec, generation, sets, lastGeneration>> /\ written'[u]
        /\ status'[u] = Observed(u) /\ UNCHANGED pod
    BY <1>0, <1>9 DEF Report, callVars
  <2>2. status'[u].observed = generation[u] /\ status'[u].updated = Pods(u, spec[u])
    BY <2>1 DEF Observed
  <2>3. Pods(u, "new")' = Pods(u, "new") /\ generation[u] \in Int
    BY <1>0, <2>1 DEF Pods, PodsIn
  <2> QED BY <1>1, <1>e, <2>1, <2>2, <2>3 DEF Coming
<1>10. CASE \/ MakePod(u) \/ RemovePod(u) \/ (\E h \in Host : PlacePod(u, h))
            \/ \E s \in Slot : RunPod(u, s) \/ JobEnds(u, s) \/ PodBreaks(u, s) \/ PodFails(u, s)
  <2>1. UNCHANGED <<pc, spec, generation, written, status, lastGeneration, sets>>
    BY <1>10 DEF MakePod, RemovePod, PlacePod, RunPod, JobEnds, PodFails, PodBreaks, callVars
  <2> QED BY <1>2, <2>1 DEF Coming
<1> QED BY <1>d, <1>3, <1>4, <1>5, <1>6, <1>7, <1>8, <1>9, <1>10 DEF OfUnit, Working, Controllers

\* What is started of a task group with deployments is started by them alone.
LEMMA ComingOfOthersKept ==
  ASSUME TypeOK, NEW u \in Unit, NEW v \in Unit \ {u}, Flow(v), Coming(u), OfUnit(v)
  PROVE  Coming(u)'
<1> SUFFICES ASSUME Kind[u] = "deployment", request.op = "start"
             PROVE  Coming(u)'
  BY RequestStays DEF Coming
<1>1. ASSUME NEW s \in Slot
      PROVE  pod'[u][s] = pod[u][s]
  <2>1. ~(u \in Selected(v) /\ Taking(v))
    BY GroupAssumption DEF Selected, Taking
  <2> QED BY <2>1, OthersPods
<1>2. Pods(u, "new")' = Pods(u, "new")
  BY <1>1 DEF Pods, PodsIn
<1> QED BY <1>2, OthersStay DEF Coming

-----------------------------------------------------------------------------
(* Start of daemon sets.                                                   *)

\* The steps that leave the goroutine, its lists and what is remembered of the machines.
LEMMA Background ==
  ASSUME NEW u \in Unit, OfUnit(u), ~Working(u), ~Failing(u)
  PROVE  /\ UNCHANGED <<pc, spec, todo, current, unlisted>>
         /\ UNCHANGED served \/ \E s \in Slot : served' = [served EXCEPT ![u] = @ \ {s}]
BY DEF OfUnit, Controllers, Scale, Report, MakePod, RemovePod, PlacePod, RunPod, JobEnds, PodFails,
   PodBreaks, callVars, storeVars, localVars, historyVars

\* A pod that is not there, new, or on its way out stays so.
LEMMA NoOldPodComes ==
  ASSUME TypeOK, NEW u \in Unit, NEW v \in Unit, NEW s \in Slot, Flow(v), Counts(u), OfUnit(v),
         Kind[u] = "daemonset", spec[u] = "new",
         pod[u][s] = None \/ pod[u][s].rev = "new" \/ pod[u][s].going
  PROVE  pod'[u][s] = None \/ pod'[u][s].rev = "new" \/ pod'[u][s].going
<1>1. CASE u # v
  BY <1>1, OthersPods
<1>2. CASE u = v
  <2>1. Fate(u, u, s) /\ pod[u][s] \in Pod \cup {None}
    BY <1>2, WhatBecomesOfPods DEF TypeOK
  <2>2. CASE Made(u, s)
    <3>1. \A r \in Revision : ~(Pods(u, r) < want[u][r])
      BY CountsAreTyped DEF Counts
    <3>2. pod'[u][s] = FreshPod("new", "pending")
      BY <2>2, <3>1 DEF Made
    <3> QED BY <3>2 DEF FreshPod
  <2>3. CASE Deleted(u, u, s) \/ Removed(u, s)
    <3>1. pod[u][s] \in Pod /\ pod'[u][s] = [pod[u][s] EXCEPT !.going = TRUE]
      BY <2>1, <2>3 DEF Deleted, IsThere, Removed
    <3> QED BY <3>1 DEF Pod
  <2>4. CASE Listed(u, u, s)
    <3>1. pod[u][s] \in Pod /\ pod'[u][s] = [pod[u][s] EXCEPT !.by = @ \cup {u}]
      BY <2>1, <2>4 DEF Listed
    <3>2. pod'[u][s].rev = pod[u][s].rev /\ pod'[u][s].going = pod[u][s].going
      BY <3>1 DEF Pod
    <3> QED BY <3>1, <3>2, PodAssumption
  <2>5. CASE Turned(u, s)
    <3>1. PICK x : pod'[u][s] = [pod[u][s] EXCEPT !.phase = x]
      BY <2>5 DEF Turned
    <3>2. pod[u][s] \in Pod
      BY <2>1, <2>5 DEF Turned
    <3>3. pod'[u][s].rev = pod[u][s].rev /\ pod'[u][s].going = pod[u][s].going
      BY <3>1, <3>2 DEF Pod
    <3> QED BY <3>2, <3>3, PodAssumption
  <2> QED BY <2>1, <2>2, <2>3, <2>4, <2>5 DEF Fate, Gone
<1> QED BY <1>1, <1>2

LEMMA RotatingKept ==
  ASSUME TypeOK, NEW u \in Unit, Flow(u), Counts(u), Rotating(u), OfUnit(u)
  PROVE  Rotating(u)'
<1> SUFFICES ASSUME Kind[u] = "daemonset"
             PROVE  Rotating(u)'
  BY DEF Rotating
<1> USE DEF Goto, storeVars, podVars, localVars, historyVars
<1>0. /\ pc \in [Unit -> Places] /\ spec \in [Unit -> Revision \cup {None}]
      /\ pod \in [Unit -> [Slot -> Pod \cup {None}]]
      /\ todo \in [Unit -> SUBSET (Unit \X Slot)] /\ unlisted \in [Unit -> SUBSET Host]
      /\ Host \subseteq Slot
  BY SlotAssumption DEF TypeOK, Places
<1>a. ASSUME NEW h \in Host, spec[u] = "new", pod[u][h] = None \/ pod[u][h].rev = "new" \/ pod[u][h].going
      PROVE  pod'[u][h] = None \/ pod'[u][h].rev = "new" \/ pod'[u][h].going
  BY <1>0, <1>a, NoOldPodComes
<1>1. CASE GetNamespace(u) \/ CreateNamespace(u) \/ Get(u) \/ Read(u)
  <2>1. pc'[u] \notin {"update", "rotate", "rotating", "started"}
    BY <1>0, <1>1 DEF GetNamespace, CreateNamespace, Get, AfterGet, Read
  <2> QED BY <2>1 DEF Rotating
<1>2. CASE ListPods(u)
  <2>1. pc'[u] = "update"
    BY <1>0, <1>2 DEF ListPods
  <2>2. ASSUME NEW h \in Host \ unlisted'[u] PROVE <<u, h>> \in todo'[u]
    <3>1. pod[u][h] # None
      BY <1>0, <1>2, <2>2 DEF ListPods
    <3> QED BY <1>0, <1>2, <3>1 DEF ListPods, ListByLabels, Selected
  <2> QED BY <2>1, <2>2 DEF Rotating
<1>3. CASE Update(u)
  <2>1. \/ pc'[u] = "failed"
        \/ pc[u] = "update" /\ pc'[u] = "rotate" /\ spec'[u] = "new" /\ UNCHANGED <<todo, unlisted>>
    BY <1>0, <1>3 DEF Update, Write, AfterApply
  <2> QED BY <2>1 DEF Rotating
<1>4. CASE Create(u)
  <2>1. CASE spec[u] = None
    <3>1. /\ pc'[u] = "started" /\ spec'[u] = "new" /\ UNCHANGED pod
      BY <1>0, <1>4, <2>1 DEF Create, Write
    <3>2. request.op = "start"
      BY <1>4 DEF Create, Flow, OfStart
    <3>3. \A s \in Slot : pod[u][s] = None
      BY <2>1, <3>2 DEF Counts
    <3> QED BY <1>0, <3>1, <3>3 DEF Rotating
  <2>2. CASE spec[u] # None
    BY <1>0, <1>4, <2>2 DEF Create, Rotating
  <2> QED BY <2>1, <2>2
<1>5. CASE Rotate(u)
  <2>0. pc[u] = "rotate" /\ UNCHANGED <<spec, unlisted>> /\ spec[u] = "new"
    BY <1>5 DEF Rotate, Rotating
  <2>1. CASE todo[u] = {} /\ Goto(u, "started") /\ UNCHANGED <<todo, current, pod>>
    BY <1>0, <2>0, <2>1 DEF Rotating
  <2>2. ASSUME NEW p \in todo[u], todo' = [todo EXCEPT ![u] = @ \ {p}], IsThere(u, p),
               DeletePod(p), Goto(u, "rotating")
        PROVE  Rotating(u)'
    <3>1. PICK w \in Unit, t \in Slot : p = <<w, t>>
      BY <1>0
    <3>2. pod[w][t] # None /\ pod' = [pod EXCEPT ![w][t].going = TRUE]
      BY <2>2, <3>1 DEF DeletePod, IsThere
    <3>3. todo'[u] = todo[u] \ {<<w, t>>}
      BY <1>0, <2>2, <3>1
    <3>4. pod[w][t] \in Pod /\ pod'[w][t].going
      BY <1>0, <3>2 DEF Pod
    <3>5. ASSUME NEW h \in Host \ unlisted[u]
          PROVE  <<u, h>> \in todo'[u] \/ pod'[u][h] = None \/ pod'[u][h].rev = "new" \/ pod'[u][h].going
      <4>1. <<u, h>> \in todo[u] \/ pod[u][h] = None \/ pod[u][h].rev = "new" \/ pod[u][h].going
        BY <2>0 DEF Rotating
      <4>2. CASE u = w /\ h = t
        BY <3>4, <4>2
      <4>3. CASE <<u, h>> \in todo[u] /\ ~(u = w /\ h = t)
        BY <3>3, <4>3
      <4> QED BY <1>a, <2>0, <4>1, <4>2, <4>3
    <3>6. pc'[u] = "rotating"
      BY <1>0, <2>2
    <3> QED BY <2>0, <3>5, <3>6 DEF Rotating
  <2>3. CASE Goto(u, "failed")
    BY <1>0, <2>3 DEF Rotating
  <2> QED BY <1>5, <2>1, <2>2, <2>3 DEF Rotate
<1>6. CASE PollRotation(u)
  <2>1. /\ pc[u] = "rotating" /\ pc'[u] \in {"failed", "rotate"}
        /\ UNCHANGED <<spec, pod, todo, unlisted>>
    BY <1>0, <1>6 DEF PollRotation
  <2> QED BY <2>1 DEF Rotating
<1>7. CASE Delete(u) \/ ListSets(u) \/ DeleteSets(u) \/ ListDoomedPods(u) \/ DeletePods(u)
  <2>1. pc'[u] \notin {"update", "rotate", "rotating", "started"}
    BY <1>0, <1>7 DEF Delete, AfterDelete, ListSets, DeleteSets, ListDoomedPods, DeletePods
  <2> QED BY <2>1 DEF Rotating
<1>8. CASE Failing(u)
  <2>1. pc'[u] = "failed"
    BY <1>0, <1>8 DEF Failing, TimesOut, RotationTimesOut, Fails
  <2> QED BY <2>1 DEF Rotating
<1>9. CASE ~Working(u) /\ ~Failing(u)
  <2>1. UNCHANGED <<pc, spec, todo, unlisted>>
    BY <1>9, Background
  <2> QED BY <1>a, <2>1 DEF Rotating
<1>10. ~Poll(u)
  BY DEF Poll, Flow
<1> QED BY <1>1, <1>2, <1>3, <1>4, <1>5, <1>6, <1>7, <1>8, <1>9, <1>10 DEF Working

LEMMA RotatingOfOthersKept ==
  ASSUME TypeOK, NEW u \in Unit, NEW v \in Unit \ {u}, Flow(v), Counts(u), Rotating(u), OfUnit(v)
  PROVE  Rotating(u)'
<1> SUFFICES ASSUME Kind[u] = "daemonset"
             PROVE  Rotating(u)'
  BY DEF Rotating
<1>1. ASSUME NEW h \in Host, spec[u] = "new", pod[u][h] = None \/ pod[u][h].rev = "new" \/ pod[u][h].going
      PROVE  pod'[u][h] = None \/ pod'[u][h].rev = "new" \/ pod'[u][h].going
  BY <1>1, NoOldPodComes, SlotAssumption
<1> QED BY <1>1, OthersStay DEF Rotating

-----------------------------------------------------------------------------
(* Daemon sets that are alone in their task group.                         *)

\* Only a resource of the call comes or goes.
LEMMA AloneBefore ==
  ASSUME TypeOK, NEW u \in Unit, NEW v \in Unit, \A w \in Unit : Flow(w), OfUnit(v), Alone(u)'
  PROVE  Alone(u)
<1> SUFFICES ASSUME NEW w \in Siblings(u)
             PROVE  spec[w] = None /\ w \notin request.units
  BY DEF Alone
<1>1. w \in Unit /\ Siblings(u)' = Siblings(u)
  BY DEF Siblings, Selected
<1>2. spec'[w] = None /\ w \notin request.units
  BY <1>1, RequestStays DEF Alone
<1>3. pc[w] = "idle"
  BY <1>1, <1>2 DEF Flow
<1>4. spec'[w] = spec[w]
  <2>1. CASE w # v
    BY <1>1, <2>1, OthersStay
  <2>2. CASE w = v
    <3>1. ~Update(w) /\ ~Create(w) /\ ~Delete(w)
      BY <1>3 DEF Update, Create, Delete
    <3>2. UNCHANGED spec
      BY <1>1, <2>2, <3>1, StepsOfUnit, WantlessSteps DEF DeleteSets, Scale, Report, JobEnds, storeVars
    <3> QED BY <3>2
  <2> QED BY <2>1, <2>2
<1> QED BY <1>2, <1>4

\* What has the labels of a daemon set that is alone is its own.
LEMMA NoPodsOfSiblings ==
  ASSUME NEW u \in Unit, Alone(u), \A w \in Unit : Counts(w), NEW w \in Selected(u) \ {u}, NEW s \in Slot
  PROVE  pod[w][s] = None
<1>1. w \in Unit
  BY DEF Selected
<1>2. CASE w \in Siblings(u)
  BY <1>1, <1>2 DEF Alone, Counts
<1>3. CASE w \notin Siblings(u)
  BY <1>1, <1>3 DEF Siblings, Counts
<1> QED BY <1>2, <1>3

LEMMA ServingOfOthersKept ==
  ASSUME TypeOK, NEW u \in Unit, NEW v \in Unit \ {u}, \A w \in Unit : Flow(w), Serving(u), OfUnit(v)
  PROVE  Serving(u)'
<1> SUFFICES ASSUME Kind[u] = "daemonset", Alone(u)'
             PROVE  Serving(u)'
  BY DEF Serving
<1>1. Alone(u)
  BY AloneBefore
<1>2. ASSUME NEW s \in Slot
      PROVE  pod'[u][s] = pod[u][s]
  <2>1. ~(u \in Selected(v) /\ Taking(v))
    BY <1>1 DEF Selected, Taking, Alone, Siblings
  <2> QED BY <2>1, OthersPods
<1>3. Host \subseteq Slot /\ served[u] \subseteq Host
  BY SlotAssumption DEF TypeOK
<1> QED BY <1>1, <1>2, <1>3, OthersStay DEF Serving

\* What the goroutine of a daemon set that is alone does to its list of one pod.
LEMMA PodsOfServing ==
  ASSUME TypeOK, NEW u \in Unit, Flow(u), Counts(u), Serving(u), Alone(u), OfUnit(u),
         Kind[u] = "daemonset", ~Rotate(u), NEW s \in Slot
  PROVE  /\ pod'[u][s] # None =>
              /\ pod'[u][s].phase # "succeeded"
              /\ pod'[u][s].going =>
                   pod[u][s] # None /\ pod[u][s].going /\ u \in pod'[u][s].by
         /\ pod[u][s] # None /\ pod[u][s].phase = "running" /\ ~pod[u][s].going /\ s \in served'[u] =>
              pod'[u][s] # None /\ pod'[u][s].phase = "running" /\ ~pod'[u][s].going
<1>0. /\ Fate(u, u, s) /\ pod[u][s] \in Pod \cup {None} /\ pod'[u][s] \in Pod \cup {None}
      /\ sets[u] = {}
  BY WhatBecomesOfPods DEF TypeOK, Counts
<1>1. ~Deleted(u, u, s) /\ ~Removed(u, s)
  BY <1>0 DEF Deleted, Removed, DeletePods, Flow
<1>2. pod[u][s] # None => pod[u][s].phase # "succeeded" /\ (pod[u][s].going => u \in pod[u][s].by)
  BY DEF Serving
<1>3. CASE pod'[u][s] = pod[u][s]
  BY <1>2, <1>3
<1>4. CASE Listed(u, u, s)
  <2>1. pod[u][s] \in Pod /\ pod'[u][s] = [pod[u][s] EXCEPT !.by = @ \cup {u}]
    BY <1>0, <1>4 DEF Listed
  <2>2. /\ pod'[u][s] \in Pod /\ pod'[u][s].phase = pod[u][s].phase /\ pod'[u][s].going = pod[u][s].going
        /\ u \in pod'[u][s].by
    BY <2>1 DEF Pod
  <2> QED BY <1>2, <2>1, <2>2, PodAssumption
<1>5. CASE Made(u, s)
  <2>1. pod[u][s] = None /\ \E r \in Revision : pod'[u][s] = FreshPod(r, "pending")
    BY <1>5 DEF Made
  <2>2. pod'[u][s].phase = "pending" /\ ~pod'[u][s].going
    BY <2>1 DEF FreshPod
  <2> QED BY <2>1, <2>2
<1>6. CASE Turned(u, s)
  <2>1. PICK phase \in {"pending", "running", "succeeded", "failed"} :
          /\ pod'[u][s] = [pod[u][s] EXCEPT !.phase = phase]
          /\ phase # "succeeded" /\ (phase # "running" => s \notin served'[u])
    BY <1>6 DEF Turned, DaemonSets
  <2>2. pod[u][s] \in Pod /\ ~pod[u][s].going
    BY <1>0, <1>6 DEF Turned
  <2>3. pod'[u][s] \in Pod /\ pod'[u][s].phase = phase /\ ~pod'[u][s].going
    BY <2>1, <2>2 DEF Pod
  <2> QED BY <2>1, <2>3, PodAssumption
<1>7. CASE Gone(u, s)
  BY <1>7 DEF Gone
<1> QED BY <1>0, <1>1, <1>3, <1>4, <1>5, <1>6, <1>7 DEF Fate

LEMMA ServingKept ==
  ASSUME TypeOK, NEW u \in Unit, \A w \in Unit : Flow(w) /\ Counts(w), Serving(u), OfUnit(u)
  PROVE  Serving(u)'
<1> SUFFICES ASSUME Kind[u] = "daemonset", Alone(u)'
             PROVE  Serving(u)'
  BY DEF Serving
<1>a. Alone(u)
  BY AloneBefore
<1> USE DEF Goto, localVars, historyVars, podVars
<1>0. /\ pc \in [Unit -> Places] /\ pod \in [Unit -> [Slot -> Pod \cup {None}]]
      /\ todo \in [Unit -> SUBSET (Unit \X Slot)] /\ current \in [Unit -> SUBSET (Unit \X Slot)]
      /\ served \in [Unit -> SUBSET Host] /\ Host \subseteq Slot
  BY SlotAssumption DEF TypeOK, Places
<1>f. Flow(u) /\ Counts(u)
  OBVIOUS
\* A step that does not begin to rotate a pod.
<1>b. ASSUME ~Rotate(u), UNCHANGED current, served'[u] \subseteq served[u],
             pc'[u] = "rotate" => \/ pc[u] = "update"
                                  \/ pc[u] = "rotate"
                                  \/ \A p \in current[u] : pod'[u][p[2]] # None /\ ~pod'[u][p[2]].going
                                                          /\ pod'[u][p[2]].phase = "running",
             pc[u] \in {"rotating", "failed"} => pc'[u] \in {"rotate", "rotating", "failed"},
             pc'[u] \in {"namespace", "createNamespace", "get", "list", "update"} =>
               pc[u] \in {"namespace", "createNamespace", "get", "list", "update"}
      PROVE  Serving(u)'
  <2>1. ASSUME NEW s \in Slot, pod'[u][s] # None
        PROVE  /\ pod'[u][s].phase # "succeeded"
               /\ pod'[u][s].going =>
                    <<u, s>> \in current[u] /\ u \in pod'[u][s].by /\ pc'[u] \in {"rotating", "failed"}
    <3>1. pod'[u][s].phase # "succeeded"
      BY <1>a, <1>b, <1>f, <2>1, PodsOfServing
    <3>2. ASSUME pod'[u][s].going
          PROVE  /\ <<u, s>> \in current[u] /\ u \in pod'[u][s].by
                 /\ pc'[u] \in {"rotating", "failed"}
      <4>1. pod[u][s] # None /\ pod[u][s].going /\ u \in pod'[u][s].by
        BY <1>a, <1>b, <1>f, <2>1, <3>2, PodsOfServing
      <4>2. <<u, s>> \in current[u] /\ pc[u] \in {"rotating", "failed"}
        BY <1>a, <4>1 DEF Serving
      <4>3. pc'[u] # "rotate"
        BY <1>b, <3>2, <4>2
      <4> QED BY <1>b, <4>1, <4>2, <4>3
    <3> QED BY <3>1, <3>2
  <2>2. ASSUME NEW h \in served'[u]
        PROVE  \/ pod'[u][h] # None /\ pod'[u][h].phase = "running" /\ ~pod'[u][h].going
               \/ <<u, h>> \in current[u] /\ pc'[u] # "rotate"
    <3>1. h \in served[u] /\ h \in Slot
      BY <1>0, <1>b, <2>2
    <3>2. CASE pod[u][h] # None /\ pod[u][h].phase = "running" /\ ~pod[u][h].going
      BY <1>a, <1>b, <1>f, <2>2, <3>1, <3>2, PodsOfServing
    <3>3. CASE <<u, h>> \in current[u] /\ pc[u] # "rotate"
      <4>1. pc[u] # "update"
        BY <1>a, <3>3 DEF Serving
      <4> QED BY <1>b, <3>3, <4>1
    <3> QED BY <1>a, <3>1, <3>2, <3>3 DEF Serving
  <2>3. pc'[u] \in {"namespace", "createNamespace", "get", "list", "update"} => current[u] = {}
    BY <1>a, <1>b DEF Serving
  <2>4. (\A p, q \in current[u] : p = q) /\ \A p \in current[u] : p[1] = u
    BY <1>a DEF Serving
  <2> QED BY <1>b, <2>1, <2>2, <2>3, <2>4 DEF Serving
<1>1. CASE GetNamespace(u) \/ CreateNamespace(u) \/ Get(u) \/ Update(u) \/ Create(u) \/ Read(u)
  <2>1. ~Rotate(u) /\ UNCHANGED current /\ UNCHANGED served
    BY <1>1 DEF GetNamespace, CreateNamespace, Get, Update, Create, Read, Rotate
  <2>2. /\ pc'[u] = "rotate" => pc[u] = "update"
        /\ pc[u] \notin {"rotating", "failed"}
        /\ pc'[u] \in {"namespace", "createNamespace", "get", "list", "update"} =>
               pc[u] \in {"namespace", "createNamespace", "get", "list", "update"}
    BY <1>0, <1>1 DEF GetNamespace, CreateNamespace, Get, AfterGet, Update, Create, AfterApply, Read
  <2> QED BY <1>b, <2>1, <2>2
<1>2. CASE ListPods(u)
  <2>0. ~Rotate(u) /\ UNCHANGED current /\ pc[u] = "list" /\ pc'[u] = "update"
    BY <1>0, <1>2 DEF ListPods, Rotate
  <2>1. current[u] = {}
    BY <1>a, <2>0 DEF Serving
  <2>2. ASSUME NEW s \in Slot, pod'[u][s] # None
        PROVE  pod'[u][s].phase # "succeeded" /\ ~pod'[u][s].going
    <3>1. \A t \in Slot : pod[u][t] # None => ~pod[u][t].going
      BY <1>a, <2>0 DEF Serving
    <3> QED BY <1>a, <1>f, <2>0, <2>2, <3>1, PodsOfServing
  <2>3. ASSUME NEW h \in served'[u]
        PROVE  pod'[u][h] # None /\ pod'[u][h].phase = "running" /\ ~pod'[u][h].going
    <3>1. h \in Slot /\ pod[u][h] # None /\ pod[u][h].phase = "running" /\ ~pod[u][h].going
      BY <1>0, <1>2, <2>3 DEF ListPods
    <3> QED BY <1>a, <1>f, <2>0, <2>3, <3>1, PodsOfServing
  <2> QED BY <2>0, <2>1, <2>2, <2>3 DEF Serving
<1>3. CASE Rotate(u)
  <2>0. pc[u] = "rotate" /\ UNCHANGED served
    BY <1>3 DEF Rotate
  <2>a. \A s \in Slot : pod[u][s] # None => pod[u][s].phase # "succeeded" /\ ~pod[u][s].going
    BY <1>a, <2>0 DEF Serving
  <2>b. \A h \in served[u] : pod[u][h] # None /\ pod[u][h].phase = "running" /\ ~pod[u][h].going
    BY <1>a, <2>0 DEF Serving
  <2>1. ASSUME UNCHANGED <<current, pod>>, pc'[u] \in {"started", "failed"}
        PROVE  Serving(u)'
    BY <1>a, <2>0, <2>1, <2>a, <2>b DEF Serving
  <2>2. ASSUME NEW p \in todo[u], IsThere(u, p), current' = [current EXCEPT ![u] = {p}],
               DeletePod(p), Goto(u, "rotating")
        PROVE  Serving(u)'
    <3>1. PICK w \in Unit, t \in Slot : p = <<w, t>>
      BY <1>0
    <3>2. pod[w][t] # None /\ u \in pod[w][t].by /\ pod' = [pod EXCEPT ![w][t].going = TRUE]
      BY <2>2, <3>1 DEF DeletePod, IsThere
    <3>3. w = u
      <4>1. w \in Selected(u)
        BY <1>f, <3>1 DEF Flow
      <4> QED BY <1>a, <3>2, <4>1, NoPodsOfSiblings
    <3>4. current'[u] = {<<u, t>>} /\ pc'[u] = "rotating"
      BY <1>0, <2>2, <3>1, <3>3
    <3>5. \A s \in Slot \ {t} : pod'[u][s] = pod[u][s]
      BY <1>0, <3>2, <3>3
    <3>6. /\ pod[u][t] \in Pod /\ pod'[u][t] = [pod[u][t] EXCEPT !.going = TRUE]
      BY <1>0, <3>2, <3>3
    <3>7. pod'[u][t].phase # "succeeded" /\ u \in pod'[u][t].by
      BY <2>a, <3>2, <3>3, <3>6 DEF Pod
    <3>8. ASSUME NEW s \in Slot, pod'[u][s] # None
          PROVE  /\ pod'[u][s].phase # "succeeded"
                 /\ pod'[u][s].going => <<u, s>> \in current'[u] /\ u \in pod'[u][s].by
      BY <2>a, <3>4, <3>5, <3>7, <3>8
    <3>9. ASSUME NEW h \in served[u]
          PROVE  \/ pod'[u][h] # None /\ pod'[u][h].phase = "running" /\ ~pod'[u][h].going
                 \/ <<u, h>> \in current'[u]
      BY <1>0, <2>b, <3>4, <3>5
    <3> QED BY <2>0, <3>4, <3>8, <3>9 DEF Serving
  <2>3. \/ UNCHANGED <<current, pod>> /\ pc'[u] \in {"started", "failed"}
        \/ \E p \in todo[u] : /\ IsThere(u, p) /\ current' = [current EXCEPT ![u] = {p}]
                              /\ DeletePod(p) /\ Goto(u, "rotating")
    BY <1>0, <1>3 DEF Rotate
  <2> QED BY <2>1, <2>2, <2>3
<1>4. CASE PollRotation(u)
  <2>1. ~Rotate(u) /\ UNCHANGED <<current, served, pod>> /\ pc[u] = "rotating"
    BY <1>4 DEF PollRotation, Rotate
  <2>2. \/ pc'[u] = "failed"
        \/ /\ pc'[u] = "rotate"
           /\ \A p \in current[u] : \E q \in NewPods(u, p) :
                pod[q[1]][q[2]].phase \in {"running", "succeeded"}
    BY <1>0, <1>4 DEF PollRotation
  <2>3. ASSUME pc'[u] = "rotate", NEW p \in current[u]
        PROVE  pod[u][p[2]] # None /\ ~pod[u][p[2]].going /\ pod[u][p[2]].phase = "running"
    <3>1. PICK t \in Slot : p = <<u, t>>
      BY <1>0, <1>a DEF Serving
    <3>2. PICK q \in NewPods(u, p) : pod[q[1]][q[2]].phase \in {"running", "succeeded"}
      BY <2>2, <2>3
    <3>3. PICK w \in Selected(u) : q = <<w, t>> /\ pod[w][t] # None /\ ~(q = p /\ IsThere(u, p))
      BY <3>1, <3>2 DEF NewPods
    <3>4. w = u
      BY <1>a, <3>3, NoPodsOfSiblings
    <3>5. ~(u \in pod[u][t].by) /\ pod[u][t] # None
      BY <3>1, <3>3, <3>4 DEF IsThere
    <3>6. ~pod[u][t].going /\ pod[u][t].phase # "succeeded"
      BY <1>a, <3>5 DEF Serving
    <3>7. pod[u][t].phase \in {"running", "succeeded"}
      BY <3>2, <3>3, <3>4
    <3> QED BY <3>1, <3>5, <3>6, <3>7
  <2> QED BY <1>b, <2>1, <2>2, <2>3
<1>5. CASE Delete(u) \/ ListSets(u) \/ DeleteSets(u) \/ ListDoomedPods(u) \/ DeletePods(u)
  <2>1. ~Rotate(u) /\ UNCHANGED <<current, served>>
    BY <1>5 DEF Delete, ListSets, DeleteSets, ListDoomedPods, DeletePods, Rotate
  <2>2. /\ pc'[u] # "rotate" /\ pc[u] \notin {"rotating", "failed"}
        /\ pc'[u] \notin {"namespace", "createNamespace", "get", "list", "update"}
    BY <1>0, <1>5 DEF Delete, AfterDelete, ListSets, DeleteSets, ListDoomedPods, DeletePods
  <2> QED BY <1>b, <2>1, <2>2
<1>6. CASE Failing(u)
  <2>1. UNCHANGED <<current, served>>
    BY <1>6 DEF Failing, TimesOut, RotationTimesOut, Fails
  <2>2. pc'[u] = "failed"
    BY <1>0, <1>6 DEF Failing, TimesOut, RotationTimesOut, Fails
  <2> QED BY <1>3, <1>b, <2>1, <2>2
<1>7. CASE ~Working(u) /\ ~Failing(u)
  <2>1. UNCHANGED <<pc, current>> /\ ~Rotate(u)
    BY <1>7, Background DEF Working
  <2>2. served'[u] \subseteq served[u]
    BY <1>0, <1>7, Background
  <2>3. pc'[u] = "rotate" => pc[u] = "rotate"
    BY <2>1
  <2> QED BY <1>b, <2>1, <2>2, <2>3
<1>8. ~Poll(u)
  BY <1>f DEF Poll, Flow
<1> QED BY <1>1, <1>2, <1>3, <1>4, <1>5, <1>6, <1>7, <1>8 DEF Working

-----------------------------------------------------------------------------
(* The units together.                                                     *)

Fits(u) == Flow(u) /\ Counts(u) /\ Going(u) /\ Coming(u) /\ Rotating(u) /\ Serving(u)

UnitsFit == TypeOK /\ \A u \in Unit : Fits(u)

LEMMA FirstSlotsAreReplicas ==
  ASSUME NEW u \in Unit
  PROVE  /\ FirstSlots(u) \in SUBSET Slot /\ Cardinality(FirstSlots(u)) = Replicas[u]
BY SlotAssumption DEF FirstSlots

LEMMA UnitsFitAtFirst == Init => UnitsFit
<1> SUFFICES ASSUME Init, NEW u \in Unit
             PROVE  Fits(u)
  BY UnitsTypedAtFirst DEF UnitsFit
<1> USE NumberAssumption, NoneAssumption
<1>1. /\ request.op \in {"start", "destroy"}
      /\ pc[u] = CASE u \notin request.units -> "idle"
                   [] u \in request.units /\ request.op = "start" -> "namespace"
                   [] /\ u \in request.units /\ request.op = "destroy"
                      /\ Kind[u] \in {"deployment", "job"} -> "read"
                   [] OTHER -> "delete"
  BY RequestAssumption DEF Init
<1>2. /\ request.op = "start" => pc[u] \in {"idle", "namespace"}
      /\ request.op = "destroy" => pc[u] \in {"idle", "read", "delete"}
      /\ u \notin request.units => pc[u] = "idle"
  BY <1>1
<1>3. spec[u] \in Revision \cup {None} /\ generation[u] = IF spec[u] = None THEN 0 ELSE 1
  BY DEF Init
<1>4. PICK seen \in SUBSET {v \in Deployments : spec[v] # None} :
       /\ sets = [v \in Unit |-> IF v \in seen THEN {spec[v]} ELSE {}]
       /\ want = [v \in Unit |->
                    CASE v \in seen -> Filled(spec[v], Replicas[v])
                      [] Kind[v] = "job" -> Filled(spec[v], 1)
                      [] OTHER -> Filled(None, 0)]
       /\ status = [v \in Unit |->
                      IF v \in seen
                      THEN [observed |-> 1, updated |-> Replicas[v], available |-> Replicas[v]]
                      ELSE NoStatus]
       /\ pod = [v \in Unit |-> [s \in Slot |->
                   IF \/ v \in seen /\ s \in FirstSlots(v)
                      \/ Kind[v] = "daemonset" /\ spec[v] # None /\ s \in hosts
                   THEN FreshPod(spec[v], "running") ELSE None]]
  BY DEF Init
<1>5. lastGeneration[u] = 0 /\ todo[u] = {} /\ current[u] = {} /\ served[u] = {}
  BY DEF Init
<1>6. \A s \in Slot :
        pod[u][s] = IF \/ u \in seen /\ s \in FirstSlots(u)
                       \/ Kind[u] = "daemonset" /\ spec[u] # None /\ s \in hosts
                    THEN FreshPod(spec[u], "running") ELSE None
  BY <1>4
<1>7. u \in seen => Kind[u] = "deployment" /\ spec[u] # None
  BY <1>4 DEF Deployments
<1>8. /\ sets[u] = IF u \in seen THEN {spec[u]} ELSE {}
      /\ status[u].observed = IF u \in seen THEN 1 ELSE 0
      /\ u \in seen => status[u].updated = Replicas[u]
      /\ want[u] = CASE u \in seen -> Filled(spec[u], Replicas[u])
                     [] Kind[u] = "job" -> Filled(spec[u], 1)
                     [] OTHER -> Filled(None, 0)
  BY <1>4 DEF NoStatus
<1>9. /\ u \in seen => \A r \in Revision : want[u][r] = IF r = spec[u] THEN Replicas[u] ELSE 0
      /\ u \notin seen /\ (Kind[u] # "job" \/ spec[u] = None) => \A r \in Revision : want[u][r] = 0
      /\ Replicas[u] \in Nat
  BY <1>7, <1>8 DEF Filled, Revision
<1>10. Flow(u)
  BY <1>1, <1>2, <1>5 DEF Flow, OfStart, OfDestroy
<1>11. Going(u) /\ Rotating(u)
  BY <1>1, <1>2 DEF Going, Rotating
<1>12. Counts(u)
  BY <1>1, <1>3, <1>6, <1>7, <1>8, <1>9 DEF Counts
<1>13. Kind[u] = "deployment" =>
         Pods(u, "new") = IF u \in seen /\ spec[u] = "new" THEN Replicas[u] ELSE 0
  <2> SUFFICES ASSUME Kind[u] = "deployment"
               PROVE  Pods(u, "new") = IF u \in seen /\ spec[u] = "new" THEN Replicas[u] ELSE 0
    OBVIOUS
  <2>1. ASSUME NEW r
        PROVE  /\ FreshPod(r, "running").rev = r /\ FreshPod(r, "running").phase = "running"
               /\ ~FreshPod(r, "running").going
    BY DEF FreshPod
  <2>2. CASE u \in seen /\ spec[u] = "new"
    <3>1. FreshPod("new", "running") # None
      BY FreshIsPod, PodAssumption DEF Revision
    <3>2. PodsIn(u, "new", {"pending", "running"}) = FirstSlots(u)
      BY <1>6, <2>1, <2>2, <3>1, FirstSlotsAreReplicas DEF PodsIn
    <3> QED BY <2>2, <3>2, FirstSlotsAreReplicas DEF Pods
  <2>3. CASE ~(u \in seen /\ spec[u] = "new")
    <3>1. PodsIn(u, "new", {"pending", "running"}) = {}
      BY <1>6, <2>1, <2>3 DEF PodsIn
    <3> QED BY <2>3, <3>1, FS_EmptySet DEF Pods
  <2> QED BY <2>2, <2>3
<1>14. Coming(u)
  BY <1>1, <1>2, <1>3, <1>5, <1>7, <1>8, <1>9, <1>13 DEF Coming, Revision
<1>15. Serving(u)
  <2>1. \A s \in Slot : pod[u][s] # None => pod[u][s].phase = "running" /\ ~pod[u][s].going
    BY <1>6 DEF FreshPod
  <2> QED BY <1>5, <2>1 DEF Serving
<1> QED BY <1>10, <1>11, <1>12, <1>14, <1>15 DEF Fits

\* What is known of the units depends on nothing but these.
LEMMA UnitsAsTheyWere ==
  ASSUME UnitsFit, NEW u \in Unit,
         UNCHANGED <<request, pc, spec, generation, written, status, sets, want, pod, localVars, historyVars>>
  PROVE  Fits(u)'
<1> USE DEF localVars, historyVars
<1>1. Fits(u) /\ Selected(u)' = Selected(u)
  BY DEF UnitsFit, Selected
<1>2. Flow(u)' /\ Counts(u)' /\ Going(u)' /\ Rotating(u)'
  BY <1>1 DEF Fits, Flow, Counts, Going, Rotating
<1>3. Coming(u)'
  BY <1>1 DEF Fits, Coming, Pods, PodsIn
<1>4. Serving(u)'
  BY <1>1 DEF Fits, Serving, Alone, Siblings, Selected
<1> QED BY <1>2, <1>3, <1>4 DEF Fits

LEMMA UnitsStillFit ==
  ASSUME UnitsFit, [Next]_vars
  PROVE  UnitsFit'
<1>0. TypeOK /\ \A u \in Unit : Flow(u) /\ Counts(u) /\ Fits(u)
  BY DEF UnitsFit, Fits
<1>1. ASSUME NEW v \in Unit, OfUnit(v)
      PROVE  UnitsFit'
  <2>1. TypeOK'
    BY <1>0, <1>1, TypesKept
  <2>2. Fits(v)'
    BY <1>0, <1>1, FlowKept, CountsKept, GoingKept, ComingKept, RotatingKept, ServingKept DEF Fits
  <2>3. ASSUME NEW u \in Unit \ {v} PROVE Fits(u)'
    <3>1. v \in Unit \ {u}
      OBVIOUS
    <3>2. Flow(u)'
      <4>1. Selected(u)' = Selected(u)
        BY DEF Selected
      <4> QED BY <1>0, <1>1, <3>1, <4>1, RequestStays, OthersStay DEF Flow
    <3> QED BY <1>0, <1>1, <3>1, <3>2, CountsOfOthersKept, GoingOfOthersKept, ComingOfOthersKept,
               RotatingOfOthersKept, ServingOfOthersKept DEF Fits
  <2> QED BY <2>1, <2>2, <2>3 DEF UnitsFit
<1>2. ASSUME NEW h \in Host, HostJoins(h)
      PROVE  UnitsFit'
  <2>1. TypeOK'
    BY <1>0, <1>2, NumberAssumption DEF HostJoins, Trouble, TypeOK, callVars, storeVars, controllerVars,
                                        localVars, historyVars
  <2>2. ASSUME NEW u \in Unit PROVE Fits(u)'
    BY <1>2, UnitsAsTheyWere DEF HostJoins, callVars, storeVars, controllerVars
  <2> QED BY <2>1, <2>2 DEF UnitsFit
<1>3. CASE UNCHANGED vars
  <2>1. TypeOK'
    BY <1>0, <1>3 DEF vars, TypeOK, callVars, storeVars, controllerVars, podVars, localVars,
                      historyVars, bounds
  <2>2. ASSUME NEW u \in Unit PROVE Fits(u)'
    BY <1>3, UnitsAsTheyWere DEF vars, callVars, storeVars, controllerVars, podVars
  <2> QED BY <2>1, <2>2 DEF UnitsFit
<1> QED BY <1>1, <1>2, <1>3 DEF Next, Troubles, Returned, OfUnit

LEMMA ProcessesLeaveUnits ==
  ASSUME UnitsFit, Cluster!ClusterNext, UNCHANGED unitVars
  PROVE  UnitsFit'
<1> USE DEF unitVars, callVars, controllerVars, podVars, localVars, historyVars, bounds
<1>1. namespace' \in BOOLEAN
  <2>1. namespace \in BOOLEAN
    BY DEF UnitsFit, TypeOK
  <2>2. UNCHANGED namespace \/ namespace' = TRUE
    BY DEF Cluster!ClusterNext, Cluster!Configuring, Cluster!Begin, Cluster!Check, Cluster!FetchID,
           Cluster!FetchRegistry, Cluster!EndFetch, Cluster!FindNamespace, Cluster!MakeNamespace,
           Cluster!GetSecret, Cluster!WriteSecret, Cluster!ListNodes, Cluster!ConfigureFails,
           Cluster!Killed, Cluster!clusterVars
  <2> QED BY <2>1, <2>2
<1>2. TypeOK'
  BY <1>1 DEF UnitsFit, TypeOK
<1>3. ASSUME NEW u \in Unit PROVE Fits(u)'
  BY UnitsAsTheyWere
<1> QED BY <1>2, <1>3 DEF UnitsFit

LEMMA UnitsFitAlways == SchedulerSpec => []UnitsFit
<1>1. SchedulerInit => UnitsFit
  BY UnitsFitAtFirst DEF SchedulerInit
<1>2. UnitsFit /\ [SchedulerNext]_allVars => UnitsFit'
  <2> SUFFICES ASSUME UnitsFit, [SchedulerNext]_allVars
               PROVE  UnitsFit'
    OBVIOUS
  <2>1. UNCHANGED allVars => UNCHANGED vars
    BY DEF allVars
  <2> QED BY <2>1, StepOfSystem, UnitsStillFit, ProcessesLeaveUnits
<1> QED BY <1>1, <1>2, PTL DEF SchedulerSpec

\* Every variable keeps its type.  That needs what is known of the goroutines: a
\* resource is written at most twice.
THEOREM SchedulerTypeCorrect == SchedulerSpec => []SchedulerTypeOK
<1>1. UnitsFit /\ SecretsFit => SchedulerTypeOK
  BY DEF UnitsFit, SecretsFit, SchedulerTypeOK
<1> QED BY <1>1, UnitsFitAlways, SecretsFitAlways, PTL

\* A deployment whose Start returns nil has made all of its pods anew, in whatever order
\* its controller scales, reports and is read, and whatever else of its task group is
\* started (waitUntilStarted).
THEOREM StartWaitsForPods == SchedulerSpec => []UpdatedWhenStarted
<1>1. UnitsFit => UpdatedWhenStarted
  <2> SUFFICES ASSUME UnitsFit, NEW u \in Deployments, pc[u] = "started"
               PROVE  Pods(u, "new") = Replicas[u] /\ spec[u] = "new"
    BY DEF UpdatedWhenStarted
  <2>1. u \in Unit /\ Kind[u] = "deployment" /\ Flow(u) /\ Coming(u)
    BY DEF UnitsFit, Fits, Deployments
  <2> QED BY <2>1 DEF Flow, OfStart, Coming
<1> QED BY <1>1, UnitsFitAlways, PTL

\* The rotation of a daemon set that is alone in its task group takes the pod of one
\* machine at a time, whatever becomes of the pods meanwhile, and although what it lists
\* and waits for are all the pods with the labels of the group (rotatePods).
THEOREM RotationIsOneByOne == SchedulerSpec => []OneHostAtATime
<1>1. UnitsFit => OneHostAtATime
  <2> SUFFICES ASSUME UnitsFit, NEW u \in DaemonSets, Alone(u), NEW g \in served[u], NEW h \in served[u],
                      \A m \in {g, h} : \/ pod[u][m] = None \/ pod[u][m].phase # "running"
                                        \/ pod[u][m].going
               PROVE  g = h
    BY DEF OneHostAtATime
  <2>1. u \in Unit /\ Kind[u] = "daemonset" /\ Serving(u)
    BY DEF UnitsFit, Fits, DaemonSets
  <2>2. <<u, g>> \in current[u] /\ <<u, h>> \in current[u]
    BY <2>1 DEF Serving
  <2>3. <<u, g>> = <<u, h>>
    BY <2>1, <2>2 DEF Serving
  <2> QED BY <2>3
<1> QED BY <1>1, UnitsFitAlways, PTL

\* A daemon set whose Start returns nil has only pods left, of those it had when they were
\* listed, that were deleted, whatever the others of its task group do; alone in it, none
\* (rotatePods).
THEOREM RotationIsComplete == SchedulerSpec => []RotatedWhenStarted
<1>1. UnitsFit => RotatedWhenStarted
  <2> SUFFICES ASSUME UnitsFit, NEW u \in DaemonSets, pc[u] = "started",
                      NEW h \in Host \ unlisted[u], pod[u][h] # None, pod[u][h].rev = "old"
               PROVE  pod[u][h].going /\ ~Alone(u)
    BY DEF RotatedWhenStarted
  <2>1. u \in Unit /\ Kind[u] = "daemonset" /\ Rotating(u) /\ Serving(u) /\ h \in Slot
    BY SlotAssumption DEF UnitsFit, Fits, DaemonSets
  <2>2. pod[u][h].going
    BY <2>1 DEF Rotating
  <2> QED BY <2>1, <2>2 DEF Serving
<1> QED BY <1>1, UnitsFitAlways, PTL

\* Of a deployment or a job that Destroy has removed nothing is left that would make pods
\* again, and no pod is missed, although Destroy of another of its task group deletes the
\* same replica sets and pods (deleteReplicaSets, deletePods).
THEOREM DestroyIsFinal == SchedulerSpec => []DestroyedIsGone
<1>1. UnitsFit => DestroyedIsGone
  <2> SUFFICES ASSUME UnitsFit, NEW u \in Unit, pc[u] = "destroyed", Kind[u] \in {"deployment", "job"}
               PROVE  /\ spec[u] = None /\ sets[u] = {}
                      /\ \A s \in Slot : pod[u][s] # None => pod[u][s].going
    BY DEF DestroyedIsGone
  <2>1. Going(u)
    BY DEF UnitsFit, Fits
  <2> QED BY <2>1 DEF Going
<1> QED BY <1>1, UnitsFitAlways, PTL
=============================================================================
