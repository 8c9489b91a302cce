------------------------------ MODULE KubeUnits ------------------------------
(***************************************************************************)
(* How j2 applies and removes kubernetes resources: Start and Destroy of   *)
(* scheduler/kubernetes/kubernetes.go run one goroutine per unit, which    *)
(* calls Start or Destroy of a resource of pkg/kubernetes.  Between any    *)
(* two requests of a goroutine the controllers of kubernetes, the machines *)
(* and the goroutines of the other units take steps of their own.          *)
(*                                                                         *)
(* Pods and replica sets are found by the labels of the resource, which    *)
(* are those of its job and task group: the resources of a task group, one *)
(* for each of its pods, find each other's.                                *)
(*                                                                         *)
(* A resource has a revision: "new" is what the job file describes, "old"  *)
(* any other.  Of a secret the revision is its labels.                     *)
(***************************************************************************)
EXTENDS Integers, FiniteSets

CONSTANTS
  Unit,        \* the resources
  Kind,        \* Kind[u]: "deployment", "daemonset", "job", "secret" or "service"
  TaskGroup,   \* TaskGroup[u]: what the labels of a resource say
  Surge,       \* MaxSurge of the deployments
  Replicas,    \* Replicas[u]: of a deployment, the count of its task group
  Host,        \* the machines
  Slot,        \* where the pods of a resource are: see below
  Requests,    \* what Run may ask for: [op |-> "start" or "destroy", units |-> ...]
  None,        \* no resource, no pod
  MaxFaults,   \* bound on requests that fail
  MaxTroubles  \* bound on pods that fail by themselves and on machines that join

ASSUME RequestAssumption ==
  \A r \in Requests : r.op \in {"start", "destroy"} /\ r.units \subseteq Unit
ASSUME NumberAssumption ==
  Surge \in Nat /\ Replicas \in [Unit -> Nat \ {0}] /\ MaxFaults \in Nat /\ MaxTroubles \in Nat
ASSUME NoneAssumption == None \notin {"old", "new"}

\* A task group is global, and has daemon sets, or it is not, and has deployments.
ASSUME GroupAssumption ==
  \A u, v \in Unit :
    TaskGroup[u] = TaskGroup[v] => ~(Kind[u] = "daemonset" /\ Kind[v] = "deployment")

\* A slot is the machine of a pod of a daemon set or a job.  Nothing depends on where
\* the pods of a deployment are: a slot is then just one of so many.
ASSUME SlotAssumption ==
  /\ IsFiniteSet(Slot) /\ Host \subseteq Slot
  /\ \A u \in Unit : \E S \in SUBSET Slot : Cardinality(S) = Replicas[u]

VARIABLES
  request, pc,         \* the call, and where the goroutine of each unit is
  namespace,           \* the namespace of the job exists
  spec, generation,    \* the resources: revision and generation
  written,             \* written since the goroutine has read it
  status,              \* status of a deployment, as its controller reports it
  sets, want,          \* replica sets by revision; pods they, or a job, are to have
  pod,                 \* the pods of each resource by slot
  hosts,               \* the machines that are part of the cluster
  lastGeneration,      \* waitUntilStarted: the generation that was observed before
  todo,                \* rotatePods, deletePods: the pods still to be deleted, as listed
  current,             \* rotatePods: the pod being rotated
  doomed,              \* deleteReplicaSets: the replica sets still to be deleted, as listed
  unlisted, served,    \* history: machines without a pod when the pods of a daemon set
                       \* were listed; those whose pod ran then and has not failed since
  faults, troubles     \* bounded adversary

callVars == <<request, pc>>
storeVars == <<namespace, spec, generation, written>>
controllerVars == <<status, sets, want>>
podVars == <<pod, hosts>>
localVars == <<lastGeneration, todo, current, doomed>>
historyVars == <<unlisted, served>>
bounds == <<faults, troubles>>
vars == <<callVars, storeVars, controllerVars, podVars, localVars, historyVars, bounds>>

Revision == {"old", "new"}
NoStatus == [observed |-> 0, updated |-> 0, available |-> 0]
\* A pod.  "going" says that it was deleted, and is removed when it has stopped; "by"
\* are the goroutines that have listed it: another pod, with another name, may come in
\* its slot.
Pod == [rev : Revision, phase : {"pending", "running", "succeeded", "failed"},
        going : BOOLEAN, by : SUBSET Unit]
ASSUME PodAssumption == None \notin Pod

Deployments == {u \in Unit : Kind[u] = "deployment"}
DaemonSets == {u \in Unit : Kind[u] = "daemonset"}

\* The resources with the labels of u (createLabelSelector): those of its task group.
Selected(u) == {v \in Unit : TaskGroup[v] = TaskGroup[u]}

\* The other resources of the task group that have pods.
Siblings(u) == {v \in Selected(u) \ {u} : Kind[v] \in {"deployment", "daemonset", "job"}}

\* The slots of the pods of a revision that are not to go, and how many there are.
PodsIn(u, r, phases) ==
  {s \in Slot : /\ pod[u][s] # None
                /\ pod[u][s].rev = r /\ pod[u][s].phase \in phases /\ ~pod[u][s].going}
Pods(u, r) == Cardinality(PodsIn(u, r, {"pending", "running"}))
Ready(u, r) == Cardinality(PodsIn(u, r, {"running"}))
Available(u) == Ready(u, "old") + Ready(u, "new")

Filled(r, n) == [x \in Revision |-> IF x = r THEN n ELSE 0]
FreshPod(r, phase) == [rev |-> r, phase |-> phase, going |-> FALSE, by |-> {}]

\* The slots of a deployment that is there before the call.
FirstSlots(u) == CHOOSE S \in SUBSET Slot : Cardinality(S) = Replicas[u]

Init ==
  /\ request \in Requests
  /\ pc = [u \in Unit |->
             CASE u \notin request.units -> "idle"
               [] u \in request.units /\ request.op = "start" -> "namespace"
               [] /\ u \in request.units /\ request.op = "destroy"
                  /\ Kind[u] \in {"deployment", "job"} -> "read"
               [] OTHER -> "delete"]
  /\ namespace \in BOOLEAN
  /\ spec \in [Unit -> Revision \cup {None}]
  /\ ~namespace => \A u \in Unit : spec[u] = None
  /\ generation = [u \in Unit |-> IF spec[u] = None THEN 0 ELSE 1]
  /\ written = [u \in Unit |-> FALSE]
  /\ hosts \in SUBSET Host
  /\ \E seen \in SUBSET {u \in Deployments : spec[u] # None} :
       /\ sets = [u \in Unit |-> IF u \in seen THEN {spec[u]} ELSE {}]
       /\ want = [u \in Unit |->
                    CASE u \in seen -> Filled(spec[u], Replicas[u])
                      [] Kind[u] = "job" -> Filled(spec[u], 1)
                      [] OTHER -> Filled(None, 0)]
       /\ status = [u \in Unit |->
                      IF u \in seen
                      THEN [observed |-> 1, updated |-> Replicas[u], available |-> Replicas[u]]
                      ELSE NoStatus]
       /\ pod = [u \in Unit |-> [s \in Slot |->
                   IF \/ u \in seen /\ s \in FirstSlots(u)
                      \/ Kind[u] = "daemonset" /\ spec[u] # None /\ s \in hosts
                   THEN FreshPod(spec[u], "running") ELSE None]]
  /\ lastGeneration = [u \in Unit |-> 0]
  /\ todo = [u \in Unit |-> {}]
  /\ current = [u \in Unit |-> {}]
  /\ doomed = [u \in Unit |-> {}]
  /\ unlisted = [u \in Unit |-> {}]
  /\ served = [u \in Unit |-> {}]
  /\ faults \in 0..MaxFaults
  /\ troubles \in 0..MaxTroubles

Goto(u, to) == pc' = [pc EXCEPT ![u] = to]

\* A request of the goroutine fails, within the bound.
Fault ==
  /\ faults < MaxFaults
  /\ faults' = faults + 1
  /\ UNCHANGED troubles

\* The goroutine returns an error: Start and Destroy have failed.
Fails(u, steps) ==
  /\ pc[u] \in steps
  /\ Fault
  /\ Goto(u, "failed")
  /\ UNCHANGED <<request, storeVars, controllerVars, podVars, localVars, historyVars>>

-----------------------------------------------------------------------------
(* Start: the namespace, and the resource as it is.                        *)

\* ensureNamespace: any error of GetNamespace counts as "there is none".
GetNamespace(u) ==
  /\ pc[u] = "namespace"
  /\ \/ namespace /\ Goto(u, "get") /\ UNCHANGED bounds
     \/ (IF namespace THEN Fault ELSE UNCHANGED bounds) /\ Goto(u, "createNamespace")
  /\ UNCHANGED <<request, storeVars, controllerVars, podVars, localVars, historyVars>>

\* A namespace is not created twice.
CreateNamespace(u) ==
  /\ pc[u] = "createNamespace"
  /\ Goto(u, IF namespace THEN "failed" ELSE "get")
  /\ namespace' = TRUE
  /\ UNCHANGED <<request, spec, generation, written, controllerVars, podVars, localVars,
                 historyVars, bounds>>

\* What Start of a resource does after it has read it.
AfterGet(u) ==
  CASE Kind[u] = "daemonset" -> "list"
    [] Kind[u] = "secret" /\ spec[u] = "new" -> "started"
    [] OTHER -> "update"

\* Get of the resource: found, not found, or an error that counts as not found.
Get(u) ==
  /\ pc[u] = "get"
  /\ \/ /\ spec[u] # None
        /\ Goto(u, AfterGet(u))
        /\ lastGeneration' = [lastGeneration EXCEPT ![u] = status[u].observed]
        /\ written' = [written EXCEPT ![u] = FALSE]
        /\ UNCHANGED bounds
     \/ /\ spec[u] = None
        /\ Goto(u, "create")
        /\ UNCHANGED <<lastGeneration, written, bounds>>
     \/ /\ Fault
        /\ Goto(u, "create")
        /\ UNCHANGED <<lastGeneration, written>>
  /\ UNCHANGED <<request, namespace, spec, generation, controllerVars, podVars, todo,
                 current, doomed, historyVars>>

\* A list of the pods with the labels of u: those of its whole task group.
ListByLabels(u) ==
  /\ todo' = [todo EXCEPT ![u] = {p \in Selected(u) \X Slot : pod[p[1]][p[2]] # None}]
  /\ pod' = [v \in Unit |-> [s \in Slot |->
               IF v \in Selected(u) /\ pod[v][s] # None
               THEN [pod[v][s] EXCEPT !.by = @ \cup {u}] ELSE pod[v][s]]]

\* The pods that exist before the update, which is when the revision of u is old.
ListPods(u) ==
  /\ pc[u] = "list"
  /\ ListByLabels(u)
  /\ unlisted' = [unlisted EXCEPT ![u] = {h \in Host : pod[u][h] = None}]
  /\ served' = [served EXCEPT ![u] =
       {h \in Host : pod[u][h] # None /\ pod[u][h].phase = "running" /\ ~pod[u][h].going}]
  /\ Goto(u, "update")
  /\ UNCHANGED <<request, storeVars, controllerVars, hosts, lastGeneration, current, doomed,
                 bounds>>

AfterApply(u) ==
  CASE Kind[u] = "deployment" -> "wait0"
    [] Kind[u] = "daemonset" -> "rotate"
    [] OTHER -> "started"

Write(u) ==
  /\ spec' = [spec EXCEPT ![u] = "new"]
  /\ generation' = [generation EXCEPT ![u] = IF spec[u] = "new" THEN @ ELSE @ + 1]
  /\ want' = [want EXCEPT ![u] =
       IF Kind[u] = "job" /\ spec[u] = None THEN Filled("new", 1) ELSE @]
  /\ UNCHANGED <<namespace, written, status, sets>>

\* The API refuses an update based on an old version of a resource, and to change
\* what a job runs.
Refused(u) == written[u] \/ spec[u] = None \/ (Kind[u] = "job" /\ spec[u] # "new")

\* Mutant: the generation to wait for is that of the resource as it was written.
UpdateAndObserve(u) ==
  /\ pc[u] = "update"
  /\ IF Refused(u) THEN Goto(u, "failed") /\ UNCHANGED <<storeVars, controllerVars, lastGeneration>>
     ELSE /\ Goto(u, AfterApply(u)) /\ Write(u)
          /\ lastGeneration' = [lastGeneration EXCEPT ![u] = generation'[u]]
  /\ UNCHANGED <<request, podVars, todo, current, doomed, historyVars, bounds>>

\* Update, with the version that was read (updateMetadataFromCurrent).
Update(u) ==
  /\ pc[u] = "update"
  /\ IF Refused(u) THEN Goto(u, "failed") /\ UNCHANGED <<storeVars, controllerVars>>
     ELSE Goto(u, AfterApply(u)) /\ Write(u)
  /\ UNCHANGED <<request, podVars, localVars, historyVars, bounds>>

\* Create, which the API refuses when the resource exists.
Create(u) ==
  /\ pc[u] = "create"
  /\ IF spec[u] # None THEN Goto(u, "failed") /\ UNCHANGED <<storeVars, controllerVars>>
     ELSE /\ Goto(u, IF Kind[u] = "deployment" THEN "wait0" ELSE "started")
          /\ Write(u)
  /\ UNCHANGED <<request, podVars, localVars, historyVars, bounds>>

-----------------------------------------------------------------------------
(* Deployment.waitUntilStarted.                                            *)

\* Mutant: the wait does not begin with the generation.
GenerationAnyway(u) == TRUE

GenerationUpdated(u) == status[u].observed # lastGeneration[u]

\* A poll that finds what it waits for; the last one ends Start.
Poll(u) ==
  /\ \/ pc[u] = "wait0" /\ GenerationUpdated(u) /\ Goto(u, "wait1")
     \/ pc[u] = "wait1" /\ status[u].updated = Replicas[u] /\ Goto(u, "wait2")
     \/ pc[u] = "wait2" /\ status[u].available = Replicas[u] /\ Goto(u, "started")
  /\ UNCHANGED <<request, storeVars, controllerVars, podVars, localVars, historyVars, bounds>>

\* A poll that does not, after the time-out.  (The first state does not go on before
\* the time-out is looked at.)
TimesOut(u) ==
  /\ \/ pc[u] = "wait0"
     \/ pc[u] = "wait1" /\ status[u].updated # Replicas[u]
     \/ pc[u] = "wait2" /\ status[u].available # Replicas[u]
  /\ Goto(u, "failed")
  /\ UNCHANGED <<request, storeVars, controllerVars, podVars, localVars, historyVars, bounds>>

-----------------------------------------------------------------------------
(* DaemonSet: rotatePods.                                                  *)

\* The listed pod is still there: no other has come in its slot.
IsThere(u, p) == pod[p[1]][p[2]] # None /\ u \in pod[p[1]][p[2]].by

\* DeletePod: the API marks the pod, and it goes when it has stopped.
DeletePod(p) == pod' = [pod EXCEPT ![p[1]][p[2]].going = TRUE]

\* Mutant: the pods are deleted all at once.
RotateAll(u) ==
  /\ pc[u] = "rotate"
  /\ current' = [current EXCEPT ![u] = todo[u]]
  /\ todo' = [todo EXCEPT ![u] = {}]
  /\ Goto(u, IF todo[u] = {} THEN "started" ELSE "rotating")
  /\ pod' = [v \in Unit |-> [s \in Slot |->
               IF <<v, s>> \in todo[u] /\ IsThere(u, <<v, s>>)
               THEN [pod[v][s] EXCEPT !.going = TRUE] ELSE pod[v][s]]]
  /\ UNCHANGED <<request, storeVars, controllerVars, hosts, lastGeneration, doomed,
                 historyVars, bounds>>

\* Mutant: one pod more than there are.
RotateOneMore(u) ==
  /\ pc[u] = "rotate"
  /\ todo[u] = {}
  /\ current' = [current EXCEPT ![u] = {None}]
  /\ Goto(u, "rotating")
  /\ UNCHANGED <<request, storeVars, controllerVars, podVars, lastGeneration, todo, doomed,
                 historyVars, bounds>>

\* DeletePod of the next pod; one that has gone meanwhile is not found.
Rotate(u) ==
  /\ pc[u] = "rotate"
  /\ \/ todo[u] = {} /\ Goto(u, "started") /\ UNCHANGED <<todo, current, pod>>
     \/ \E p \in todo[u] :
          /\ todo' = [todo EXCEPT ![u] = @ \ {p}]
          /\ IF IsThere(u, p)
             THEN current' = [current EXCEPT ![u] = {p}] /\ DeletePod(p) /\ Goto(u, "rotating")
             ELSE Goto(u, "failed") /\ UNCHANGED <<current, pod>>
  /\ UNCHANGED <<request, storeVars, controllerVars, hosts, lastGeneration, doomed,
                 historyVars, bounds>>

\* Mutant: the pod that was deleted will do as well.
NewPodsOfAnyName(u, p) ==
  {q \in Selected(u) \X {p[2]} : pod[q[1]][q[2]] # None}

\* The pods with the labels of u on the machine of p that have another name: the one
\* that replaces p, and those of the other resources of the task group.
NewPods(u, p) ==
  {q \in Selected(u) \X {p[2]} : pod[q[1]][q[2]] # None /\ ~(q = p /\ IsThere(u, p))}

\* A poll of the pods: one that has failed ends the rotation, one that runs or has
\* succeeded ends the wait, and none but pending ones lead to another poll.
PollRotation(u) ==
  /\ pc[u] = "rotating"
  /\ LET phases == {pod[q[1]][q[2]].phase : q \in UNION {NewPods(u, p) : p \in current[u]}}
     IN \/ "failed" \in phases /\ Goto(u, "failed")
        \/ /\ "failed" \notin phases
           /\ \A p \in current[u] : \E q \in NewPods(u, p) :
                pod[q[1]][q[2]].phase \in {"running", "succeeded"}
           /\ Goto(u, "rotate")
  /\ UNCHANGED <<request, storeVars, controllerVars, podVars, localVars, historyVars, bounds>>

RotationTimesOut(u) ==
  /\ pc[u] = "rotating"
  /\ Goto(u, "failed")
  /\ UNCHANGED <<request, storeVars, controllerVars, podVars, localVars, historyVars, bounds>>

-----------------------------------------------------------------------------
(* Destroy.                                                                *)

\* Deployments and jobs are read first, for their labels.
Read(u) ==
  /\ pc[u] = "read"
  /\ Goto(u, IF spec[u] = None THEN "failed" ELSE "delete")
  /\ UNCHANGED <<request, storeVars, controllerVars, podVars, localVars, historyVars, bounds>>

\* Mutant: the pods of a deployment go before its replica sets.
AfterDeletePodsFirst(u) ==
  CASE Kind[u] \in {"deployment", "job"} -> "listPods"
    [] OTHER -> "destroyed"

AfterDelete(u) ==
  CASE Kind[u] = "deployment" -> "listSets"
    [] Kind[u] = "job" -> "listPods"
    [] OTHER -> "destroyed"

\* The API deletes a resource, and nothing of what its controller has made.
Delete(u) ==
  /\ pc[u] = "delete"
  /\ IF spec[u] = None THEN Goto(u, "failed") /\ UNCHANGED <<spec, want>>
     ELSE /\ Goto(u, AfterDelete(u))
          /\ spec' = [spec EXCEPT ![u] = None]
          /\ want' = [want EXCEPT ![u] = IF Kind[u] = "job" THEN Filled(None, 0) ELSE @]
  /\ UNCHANGED <<request, namespace, generation, written, status, sets, podVars, localVars,
                 historyVars, bounds>>

\* deleteReplicaSets: the replica sets with the labels of u, those of its whole task
\* group, ...
ListSets(u) ==
  /\ pc[u] = "listSets"
  /\ doomed' = [doomed EXCEPT ![u] = {x \in Selected(u) \X Revision : x[2] \in sets[x[1]]}]
  /\ Goto(u, "deleteSets")
  /\ UNCHANGED <<request, storeVars, controllerVars, podVars, lastGeneration, todo, current,
                 historyVars, bounds>>

\* ... and one request each; what they want goes with them.  A replica set that is made
\* again has the same name, and one that is gone is not found.
DeleteSets(u) ==
  /\ pc[u] = "deleteSets"
  /\ \/ doomed[u] = {} /\ Goto(u, "listPods") /\ UNCHANGED <<doomed, sets, want>>
     \/ \E x \in doomed[u] :
          /\ doomed' = [doomed EXCEPT ![u] = @ \ {x}]
          /\ IF x[2] \in sets[x[1]]
             THEN /\ sets' = [sets EXCEPT ![x[1]] = @ \ {x[2]}]
                  /\ want' = [want EXCEPT ![x[1]][x[2]] = 0]
                  /\ UNCHANGED pc
             ELSE Goto(u, "failed") /\ UNCHANGED <<sets, want>>
  /\ UNCHANGED <<request, storeVars, status, podVars, lastGeneration, todo, current,
                 historyVars, bounds>>

\* deletePods: the pods with the labels of u that there are now, ...
ListDoomedPods(u) ==
  /\ pc[u] = "listPods"
  /\ ListByLabels(u)
  /\ Goto(u, "deletePods")
  /\ UNCHANGED <<request, storeVars, controllerVars, hosts, lastGeneration, current, doomed,
                 historyVars, bounds>>

\* Mutant: until there are none.
DeletePodsUntilNone(u) ==
  /\ pc[u] = "deletePods"
  /\ \/ /\ todo[u] = {}
        /\ Goto(u, IF \E v \in Selected(u), s \in Slot : pod[v][s] # None
                   THEN "listPods" ELSE "destroyed")
        /\ UNCHANGED <<todo, pod>>
     \/ \E p \in todo[u] :
          /\ todo' = [todo EXCEPT ![u] = @ \ {p}]
          /\ IF IsThere(u, p) THEN DeletePod(p) ELSE UNCHANGED pod
          /\ UNCHANGED pc
  /\ UNCHANGED <<request, storeVars, controllerVars, hosts, lastGeneration, current, doomed,
                 historyVars, bounds>>

\* ... and one request each; one that has gone meanwhile is not found.
DeletePods(u) ==
  /\ pc[u] = "deletePods"
  /\ \/ todo[u] = {} /\ Goto(u, "destroyed") /\ UNCHANGED <<todo, pod>>
     \/ \E p \in todo[u] :
          /\ todo' = [todo EXCEPT ![u] = @ \ {p}]
          /\ IF IsThere(u, p) THEN DeletePod(p) /\ UNCHANGED pc
             ELSE Goto(u, "failed") /\ UNCHANGED pod
  /\ UNCHANGED <<request, storeVars, controllerVars, hosts, lastGeneration, current, doomed,
                 historyVars, bounds>>

-----------------------------------------------------------------------------
(* The controllers of kubernetes.                                          *)

Wanted(u) == want[u]["old"] + want[u]["new"]

\* The deployment controller sets the sizes of the replica sets: at most Surge pods
\* more than asked for, and at most one less available (MaxUnavailable).
Scale(u) ==
  /\ u \in Deployments /\ spec[u] # None
  /\ \/ /\ Wanted(u) < Replicas[u] + Surge
        /\ want[u][spec[u]] < Replicas[u]
        /\ sets' = [sets EXCEPT ![u] = @ \cup {spec[u]}]
        /\ want' = [want EXCEPT ![u][spec[u]] = @ + 1]
     \/ \E r \in sets[u] \ {spec[u]} :
          /\ want[u][r] > 0
          /\ \/ Available(u) >= Replicas[u]
             \/ Ready(u, r) < want[u][r]
          /\ want' = [want EXCEPT ![u][r] = @ - 1]
          /\ UNCHANGED sets
  /\ UNCHANGED <<callVars, storeVars, status, podVars, localVars, historyVars, bounds>>

\* It reports what it sees.  That writes the resource, and would be refused if there
\* were a newer one.
Observed(u) ==
  [observed |-> generation[u], updated |-> Pods(u, spec[u]), available |-> Available(u)]

Report(u) ==
  /\ u \in Deployments /\ spec[u] # None
  /\ status[u] # Observed(u)
  /\ status' = [status EXCEPT ![u] = Observed(u)]
  /\ written' = [written EXCEPT ![u] = TRUE]
  /\ UNCHANGED <<callVars, namespace, spec, generation, sets, want, podVars, localVars,
                 historyVars, bounds>>

\* Where a controller may make a pod of u: a machine, or one of the slots of a
\* deployment, whichever it is.
Free(u) ==
  IF Kind[u] # "deployment" THEN {s \in hosts : pod[u][s] = None}
  ELSE {s \in Slot : pod[u][s] = None /\ s = CHOOSE t \in Slot : pod[u][t] = None}

\* A replica set, or a job, makes the pods it wants, ...
MakePod(u) ==
  /\ \E r \in Revision :
       /\ Pods(u, r) < want[u][r]
       /\ \E s \in Free(u) : pod' = [pod EXCEPT ![u][s] = FreshPod(r, "pending")]
  /\ UNCHANGED <<callVars, storeVars, controllerVars, hosts, localVars, historyVars, bounds>>

\* ... and a replica set removes those it does not, first of all those that are not ready.
RemovePod(u) ==
  /\ \E r \in sets[u] :
       /\ Pods(u, r) > want[u][r]
       /\ \E s \in PodsIn(u, r, {"pending", "running"}) :
            /\ pod[u][s].phase = "running" => PodsIn(u, r, {"pending"}) = {}
            /\ pod' = [pod EXCEPT ![u][s].going = TRUE]
  /\ UNCHANGED <<callVars, storeVars, controllerVars, hosts, localVars, historyVars, bounds>>

\* A daemon set has a pod on every machine.
PlacePod(u, h) ==
  /\ u \in DaemonSets /\ spec[u] # None /\ h \in hosts
  /\ pod[u][h] = None
  /\ pod' = [pod EXCEPT ![u][h] = FreshPod(spec[u], "pending")]
  /\ UNCHANGED <<callVars, storeVars, controllerVars, hosts, localVars, historyVars, bounds>>

\* The machine starts a pod, or removes one that was deleted.
RunPod(u, s) ==
  /\ pod[u][s] # None
  /\ \/ /\ pod[u][s].phase = "pending" /\ ~pod[u][s].going
        /\ pod' = [pod EXCEPT ![u][s].phase = "running"]
     \/ pod[u][s].going /\ pod' = [pod EXCEPT ![u][s] = None]
  /\ UNCHANGED <<callVars, storeVars, controllerVars, hosts, localVars, historyVars, bounds>>

\* The pod of a job succeeds: the job is complete.
JobEnds(u, s) ==
  /\ Kind[u] = "job"
  /\ pod[u][s] # None /\ pod[u][s].phase = "running" /\ ~pod[u][s].going
  /\ pod' = [pod EXCEPT ![u][s].phase = "succeeded"]
  /\ want' = [want EXCEPT ![u] = Filled(None, 0)]
  /\ UNCHANGED <<callVars, storeVars, status, sets, hosts, localVars, historyVars, bounds>>

Trouble ==
  /\ troubles < MaxTroubles
  /\ troubles' = troubles + 1
  /\ UNCHANGED faults

\* A pod of a daemon set or a job fails, or is lost with what ran it.
PodFails(u, h) ==
  /\ Kind[u] # "deployment"
  /\ pod[u][h] # None /\ pod[u][h].phase \in {"pending", "running"} /\ ~pod[u][h].going
  /\ Trouble
  /\ served' = [served EXCEPT ![u] = @ \ {h}]
  /\ \/ pod' = [pod EXCEPT ![u][h].phase = "failed"]
     \/ pod' = [pod EXCEPT ![u][h] = None]
  /\ UNCHANGED <<callVars, storeVars, controllerVars, hosts, localVars, unlisted>>

\* A pod of a deployment is no longer ready.
PodBreaks(u, s) ==
  /\ u \in Deployments
  /\ pod[u][s] # None /\ pod[u][s].phase = "running" /\ ~pod[u][s].going
  /\ Trouble
  /\ pod' = [pod EXCEPT ![u][s].phase = "pending"]
  /\ UNCHANGED <<callVars, storeVars, controllerVars, hosts, localVars, historyVars>>

\* A machine joins the cluster.
HostJoins(h) ==
  /\ h \notin hosts
  /\ Trouble
  /\ hosts' = hosts \cup {h}
  /\ UNCHANGED <<callVars, storeVars, controllerVars, pod, localVars, historyVars>>

-----------------------------------------------------------------------------
Ended == {"idle", "started", "destroyed", "failed"}

\* The errgroup waits for all of its goroutines.
Returned ==
  /\ \A u \in Unit : pc[u] \in Ended
  /\ UNCHANGED vars

Working(u) ==
  \/ GetNamespace(u) \/ CreateNamespace(u) \/ Get(u) \/ ListPods(u) \/ Update(u)
  \/ Create(u) \/ Poll(u) \/ Rotate(u) \/ PollRotation(u) \/ Read(u) \/ Delete(u)
  \/ ListSets(u) \/ DeleteSets(u) \/ ListDoomedPods(u) \/ DeletePods(u)

Failing(u) ==
  \/ TimesOut(u) \/ RotationTimesOut(u)
  \/ Fails(u, {"createNamespace", "list", "update", "create", "wait0", "wait1", "wait2", "rotate",
               "rotating", "read", "delete", "listSets", "deleteSets", "listPods", "deletePods"})

Controllers(u) ==
  \/ Scale(u) \/ Report(u) \/ MakePod(u) \/ RemovePod(u)
  \/ \E h \in Host : PlacePod(u, h)
  \/ \E s \in Slot : RunPod(u, s) \/ JobEnds(u, s)

Troubles == \E u \in Unit, s \in Slot : PodBreaks(u, s) \/ PodFails(u, s)

Next ==
  \/ \E u \in Unit : Working(u) \/ Failing(u) \/ Controllers(u)
  \/ Troubles
  \/ \E h \in Host : HostJoins(h)
  \/ Returned

Spec == Init /\ [][Next]_vars

-----------------------------------------------------------------------------
TypeOK ==
  /\ request \in Requests
  /\ pc \in [Unit -> Ended \cup
       {"namespace", "createNamespace", "get", "list", "update", "create", "wait0", "wait1",
        "wait2", "rotate", "rotating", "read", "delete", "listSets", "deleteSets", "listPods",
        "deletePods"}]
  /\ namespace \in BOOLEAN
  /\ spec \in [Unit -> Revision \cup {None}]
  /\ generation \in [Unit -> 0..2]
  /\ written \in [Unit -> BOOLEAN]
  /\ status \in [Unit -> [observed : 0..2, updated : Nat, available : Nat]]
  /\ sets \in [Unit -> SUBSET Revision]
  /\ want \in [Unit -> [Revision -> Nat]]
  /\ pod \in [Unit -> [Slot -> Pod \cup {None}]]
  /\ hosts \in SUBSET Host
  /\ lastGeneration \in [Unit -> 0..2]
  /\ todo \in [Unit -> SUBSET (Unit \X Slot)]
  /\ current \in [Unit -> SUBSET (Unit \X Slot)]
  /\ doomed \in [Unit -> SUBSET (Unit \X Revision)]
  /\ unlisted \in [Unit -> SUBSET Host]
  /\ served \in [Unit -> SUBSET Host]
  /\ faults \in 0..MaxFaults
  /\ troubles \in 0..MaxTroubles

\* When Start of a deployment returns nil, all its pods have been made anew: the
\* wait for the generation keeps the counts of the revision before from ending it,
\* whatever order the controllers work in (Deployment.waitUntilStarted).
UpdatedWhenStarted ==
  \A u \in Deployments :
    pc[u] = "started" => Pods(u, "new") = Replicas[u] /\ spec[u] = "new"

\* No other resource of the task group of u is there, or comes with the call.
Alone(u) == \A v \in Siblings(u) : spec[v] = None /\ v \notin request.units

\* A rotation takes a daemon set that is alone in its task group from one machine at a
\* time: of the machines whose pod ran when the pods were listed, and did not fail by
\* itself since, at most one is without a pod that runs (rotatePods).  With others in
\* the group that is not so: see RotationAwaitsNewPod.
OneHostAtATime ==
  \A u \in DaemonSets : Alone(u) => \A g, h \in served[u] :
    (\A m \in {g, h} : pod[u][m] = None \/ pod[u][m].phase # "running" \/ pod[u][m].going)
    => g = h

\* When Start of a daemon set returns nil, the pods that were there before are on
\* their way out, whatever the machines and the other resources of the task group do
\* in the meantime, and gone if there are none of the latter (rotatePods).  Of the
\* machines without a pod when the pods were listed nothing is said: a pod they get
\* before the update is an old one, and stays.
RotatedWhenStarted ==
  \A u \in DaemonSets : pc[u] = "started" =>
    \A h \in Host \ unlisted[u] : pod[u][h] # None /\ pod[u][h].rev = "old" =>
      pod[u][h].going /\ ~Alone(u)

\* The wait of a rotation for the pod it has deleted is over when its daemon set has
\* made and started a new one (comment of rotatePods).
RotationAwaitsNewPod ==
  [][\A u \in DaemonSets : pc[u] = "rotating" /\ pc'[u] = "rotate" =>
       \A p \in current[u] :
         pod[p[1]][p[2]] # None /\ ~IsThere(u, p) /\ pod[p[1]][p[2]].phase # "pending"]_vars

\* What Destroy of a deployment or a job has taken away is gone for good, also when
\* Destroy of another resource of its task group takes pods and replica sets from
\* under its hands: no replica set is left that would make pods again, and no pod was
\* missed (deleteReplicaSets, deletePods).
DestroyedIsGone ==
  \A u \in Unit : pc[u] = "destroyed" /\ Kind[u] \in {"deployment", "job"} =>
    /\ spec[u] = None /\ sets[u] = {}
    /\ \A s \in Slot : pod[u][s] # None => pod[u][s].going

\* All of the pods that a resource is to have are there, and have started.
Whole(u) ==
  CASE Kind[u] = "deployment" -> Ready(u, spec[u]) = Replicas[u]
    [] Kind[u] = "daemonset" ->
         \A h \in hosts : pod[u][h] # None /\ pod[u][h].phase # "pending" /\ ~pod[u][h].going
    [] OTHER -> TRUE

\* A resource that was not to be destroyed has all of its pods in the end, although
\* Destroy of another one of its task group deletes its pods and replica sets, by the
\* labels they share (Deployment.Destroy, Job.Destroy).
OthersComeBack ==
  <>[](\A u \in Unit \ request.units : spec[u] # None => Whole(u))

\* What Start waits for: that a deployment which has changed, or whose controller had
\* not seen it before, is updated and available; and each pod that is rotated.
Waits(u) ==
  \/ pc[u] \in {"wait0", "wait1", "wait2"} /\ (generation[u] = 2 \/ lastGeneration[u] = 0)
  \/ pc[u] \in {"rotate", "rotating"}

\* What Start waits for comes, without the help of a time-out: the wait for the generation
\* of a deployment and for the two counts ends, as does the rotation of a daemon set
\* (waitUntilStarted, rotatePods).
AwaitedComes == <>[](\A u \in Unit : ~Waits(u))
=============================================================================
