----------------------------- MODULE Deployment -----------------------------
(***************************************************************************)
(* j2 deploys a job by comparing the units the job file describes with the *)
(* units on the cluster, one scaling group ("slice") at a time:            *)
(* deployment/run.go and deployment/destroy.go over the operations of      *)
(* scheduler/scheduler.go.  Every deployer is one j2 process; deployers    *)
(* share nothing but the cluster, which has no lock.                       *)
(*                                                                         *)
(* A delay (InterruptibleSleep) is not a step here: any other step can     *)
(* come between two steps of a deployer.  InterruptibleSleep.tla looks     *)
(* into the delay itself.                                                  *)
(***************************************************************************)
EXTENDS Integers, FiniteSets

CONSTANTS
  Unit,        \* unit names: the only identity the code compares units by
  Meta,        \* Meta[u].job, .group, .slice: what a scheduler reads off a unit
  Content,     \* what a unit can contain
  None,        \* the content of a unit that is not on the cluster
  Deployer,    \* the j2 processes
  Config,      \* Config[d]: the arguments and flags of deployer d
  Kubernetes,  \* TRUE for the kubernetes scheduler, FALSE for fleet
  MaxFaults,   \* bound on scheduler calls that return an error
  MaxFailures  \* bound on units that fail by themselves

ASSUME UnitAssumption == IsFiniteSet(Unit) /\ None \notin Content

ASSUME ConfigAssumption ==
  \A d \in Deployer :
    /\ Config[d].op \in {"run", "destroy"}
    /\ Config[d].maxCount \in Nat          \* job.MaxCount()
    /\ Config[d].scaling \in Nat           \* --scaling-group, 0 is all
    /\ Config[d].units \subseteq Unit      \* what the job file describes
    /\ Config[d].content \in [Unit -> Content]
    /\ Config[d].force \in BOOLEAN
    /\ Config[d].autoContinue \in BOOLEAN

ASSUME KindAssumption == Kubernetes \in BOOLEAN
ASSUME BoundAssumption == MaxFaults \in Nat /\ MaxFailures \in Nat

VARIABLES
  content, state,          \* the cluster, per unit
  pc, sg,                  \* where each deployer is, and in which slice
  remaining, loaded,       \* remainingLoadedJobUnitNames, loadedScalingGroupUnitNames
  todo,                    \* units the current loop has still to visit
  modified, failed,        \* modifiedUnitNames, failedUnitNames
  stopping, doomed,        \* destroyUnits: goroutines in f.Stop, their units
  opFailed,                \* a goroutine of the current errgroup got an error
  cached, status,          \* fleetScheduler.status
  autoConfirm,             \* stateUI.autoConfirm
  listed, approved,        \* history: selected by List, accepted at a prompt,
  missed,                  \* and not destroyed although no error was returned
  faults, failures         \* bounded adversary

cluster == <<content, state>>
planVars == <<remaining, loaded, todo, modified, failed>>
destroyVars == <<stopping, doomed, opFailed>>
cacheVars == <<cached, status>>
uiVars == <<autoConfirm, listed, approved, missed>>
bounds == <<faults, failures>>
vars == <<cluster, pc, sg, planVars, destroyVars, cacheVars, uiVars, bounds>>

-----------------------------------------------------------------------------
(* What the scheduler says of a unit, and what the renderer generates.     *)

Reason == {"update", "failed", "obsolete"}
\* A unit fleet has created is "inactive" until it is first started; a unit
\* that was stopped is "loaded".
State == {"missing", "inactive", "loaded", "running", "failed"}
Unseen == [u \in Unit |-> "missing"]

IsUnitForJob(d, u) == Meta[u].job = Config[d].job

\* Mutant: the task group of a unit is not looked at.
IsUnitForAnyTaskGroup(d, u, g) == IsUnitForJob(d, u)

IsUnitForTaskGroup(d, u, g) == IsUnitForJob(d, u) /\ Meta[u].group = g

\* Mutant: the suffix of the name is not looked at.
IsUnitForAnyScalingGroup(d, u, g) == IsUnitForJob(d, u)

\* On kubernetes every unit of the job is a unit of every scaling group.
IsUnitForScalingGroup(d, u, g) ==
  IsUnitForJob(d, u) /\ (Kubernetes \/ Meta[u].slice = g)

InSelectedGroup(d, u) ==
  \/ Config[d].groups = {} /\ IsUnitForJob(d, u)
  \/ \E g \in Config[d].groups : IsUnitForTaskGroup(d, u, g)

\* createUnitNamePredicate
Selected(d) ==
  {u \in Unit :
     /\ InSelectedGroup(d, u)
     /\ \/ Config[d].scaling = 0
        \/ IsUnitForScalingGroup(d, u, Config[d].scaling)}

\* generateScalingGroups: the included scaling groups.
Slices(d) == {g \in 1..Config[d].maxCount : Config[d].scaling \in {0, g}}

\* GenerateUnits for one scaling group; kubernetes renders everything in the first.
RenderedByFleet(u, g) == Meta[u].slice = g
RenderedByKubernetes(u, g) == g = 1

Generated(d, g) ==
  {u \in Config[d].units :
     /\ InSelectedGroup(d, u)
     /\ IF Kubernetes THEN RenderedByKubernetes(u, g) ELSE RenderedByFleet(u, g)}

\* What the deployer leaves on the cluster.
Wanted(d) ==
  IF Config[d].op = "destroy" THEN {} ELSE UNION {Generated(d, g) : g \in Slices(d)}

Obsolete(d) == loaded[d] \ Generated(d, sg[d])
NotObsolete(d) == loaded[d] \cap Generated(d, sg[d])
New(d) == Generated(d, sg[d]) \ loaded[d]
ToDestroy(d) == Obsolete(d) \cup modified[d] \cup failed[d]
ToLaunch(d) == Generated(d, sg[d]) \cap (modified[d] \cup failed[d] \cup New(d))

\* Mutant: new units are no modification.
AnyRemovals(d) == ToDestroy(d) # {}

AnyModifications(d) ==
  \/ Cardinality(loaded[d]) # Cardinality(Generated(d, sg[d]))
  \/ ToDestroy(d) # {}

\* Mutant: the clean-up takes all units of the job, not those of the list.
WorkListAnew(d, r) ==
  IF pc[d] \in {"cleanup", "cleaning"}
  THEN IF r = "obsolete" THEN Selected(d) ELSE {}
  ELSE CASE r = "obsolete" -> Obsolete(d)
         [] r = "update" -> modified[d]
         [] r = "failed" -> failed[d]

\* The units a goroutine of destroyUnits is given; Destroy of the kubernetes
\* scheduler acts on obsolete units only, and its Stop does nothing.
WorkList(d, r) ==
  IF pc[d] \in {"cleanup", "cleaning"}
  THEN IF r = "obsolete" THEN remaining[d] ELSE {}
  ELSE CASE r = "obsolete" -> Obsolete(d)
         [] r = "update" -> IF Kubernetes THEN {} ELSE modified[d]
         [] r = "failed" -> IF Kubernetes THEN {} ELSE failed[d]

-----------------------------------------------------------------------------
Init ==
  /\ content \in [Unit -> Content \cup {None}]
  /\ state \in [Unit -> State]
  /\ \A u \in Unit : content[u] = None <=> state[u] = "missing"
  /\ Kubernetes => \A u \in Unit : state[u] \notin {"inactive", "loaded"}
  /\ pc = [d \in Deployer |-> "list"]
  /\ sg = [d \in Deployer |-> 0]
  /\ remaining = [d \in Deployer |-> {}]
  /\ loaded = [d \in Deployer |-> {}]
  /\ todo = [d \in Deployer |-> {}]
  /\ modified = [d \in Deployer |-> {}]
  /\ failed = [d \in Deployer |-> {}]
  /\ stopping = [d \in Deployer |-> {}]
  /\ doomed = [d \in Deployer |-> [r \in Reason |-> {}]]
  /\ opFailed = [d \in Deployer |-> FALSE]
  /\ cached = [d \in Deployer |-> FALSE]
  /\ status = [d \in Deployer |-> Unseen]
  /\ autoConfirm = [d \in Deployer |-> FALSE]
  /\ listed = [d \in Deployer |-> {}]
  /\ approved = [d \in Deployer |-> {}]
  /\ missed = [d \in Deployer |-> {}]
  /\ faults = 0
  /\ failures = 0

Goto(d, to) == pc' = [pc EXCEPT ![d] = to]

\* A scheduler call returns an error, within the bound.
Fault ==
  /\ faults < MaxFaults
  /\ faults' = faults + 1
  /\ UNCHANGED failures

-----------------------------------------------------------------------------
(* Run, up to the decision what to do with a slice.                        *)

\* s.List() and selectUnitNames.  The list is read once and never again.
List(d) ==
  /\ pc[d] = "list"
  /\ LET here == {u \in Selected(d) : content[u] # None}
     IN /\ remaining' = [remaining EXCEPT ![d] = here]
        /\ listed' = [listed EXCEPT ![d] = here]
        /\ IF Config[d].op = "destroy"
           THEN Goto(d, IF here = {} THEN "done" ELSE "cleanup")
           ELSE Goto(d, IF Slices(d) = {} THEN "panic" ELSE "slice")
  /\ UNCHANGED <<cluster, sg, loaded, todo, modified, failed, destroyVars,
                 cacheVars, autoConfirm, approved, missed, bounds>>

\* List, ValidateCluster or GenerateUnits returns an error.
ListFails(d) ==
  /\ pc[d] = "list"
  /\ Fault
  /\ Goto(d, "aborted")
  /\ UNCHANGED <<cluster, sg, planVars, destroyVars, cacheVars, uiVars>>

\* Mutant: the loop does not move on.
SameSlice(d) ==
  {g \in Slices(d) : g >= sg[d] /\ \A h \in Slices(d) : h >= sg[d] => g <= h}

\* The scaling group that comes after the current one.
NextSlices(d) ==
  {g \in Slices(d) : g > sg[d] /\ \A h \in Slices(d) : h > sg[d] => g <= h}

\* Mutant: the lists of modified and failed units outlive their slice.
BeginSliceStale(d) ==
  /\ pc[d] = "slice"
  /\ \E g \in NextSlices(d) :
       /\ sg' = [sg EXCEPT ![d] = g]
       /\ LET mine == {u \in remaining[d] : IsUnitForScalingGroup(d, u, g)}
          IN /\ loaded' = [loaded EXCEPT ![d] = mine]
             /\ remaining' = [remaining EXCEPT ![d] = @ \ mine]
             /\ todo' = [todo EXCEPT ![d] = mine \cap Generated(d, g)]
  /\ approved' = [approved EXCEPT ![d] = {}]
  /\ Goto(d, "checkModified")
  /\ UNCHANGED <<cluster, modified, failed, destroyVars, cacheVars, autoConfirm,
                 listed, missed, bounds>>

\* The next iteration of the loop over d.scalingGroups.
BeginSlice(d) ==
  /\ pc[d] = "slice"
  /\ \E g \in NextSlices(d) :
       /\ sg' = [sg EXCEPT ![d] = g]
       /\ LET mine == {u \in remaining[d] : IsUnitForScalingGroup(d, u, g)}
          IN /\ loaded' = [loaded EXCEPT ![d] = mine]
             /\ remaining' = [remaining EXCEPT ![d] = @ \ mine]
             /\ todo' = [todo EXCEPT ![d] = mine \cap Generated(d, g)]
  /\ modified' = [modified EXCEPT ![d] = {}]
  /\ failed' = [failed EXCEPT ![d] = {}]
  /\ approved' = [approved EXCEPT ![d] = {}]
  /\ Goto(d, "checkModified")
  /\ UNCHANGED <<cluster, destroyVars, cacheVars, autoConfirm, listed, missed,
                 bounds>>

\* The loop is over: clean up what no slice claimed.
EndSlices(d) ==
  /\ pc[d] = "slice"
  /\ NextSlices(d) = {}
  /\ approved' = [approved EXCEPT ![d] = {}]
  /\ Goto(d, IF remaining[d] = {} THEN "done" ELSE "cleanup")
  /\ UNCHANGED <<cluster, sg, planVars, destroyVars, cacheVars, autoConfirm,
                 listed, missed, bounds>>

\* Mutant: the two results of HasChanged are mixed up.
HasNotChanged(d, u) == content[u] = Config[d].content[u]

HasChanged(d, u) == content[u] # Config[d].content[u]

\* isModifiedPredicate: an error from HasChanged counts as modified.
CheckModified(d, u) ==
  /\ pc[d] = "checkModified"
  /\ u \in todo[d]
  /\ todo' = [todo EXCEPT ![d] = @ \ {u}]
  /\ \/ /\ modified' = [modified EXCEPT ![d] =
             IF Config[d].force \/ HasChanged(d, u) THEN @ \cup {u} ELSE @]
        /\ UNCHANGED bounds
     \/ /\ ~Config[d].force
        /\ Fault
        /\ modified' = [modified EXCEPT ![d] = @ \cup {u}]
  /\ UNCHANGED <<cluster, pc, sg, remaining, loaded, failed, destroyVars,
                 cacheVars, uiVars>>

EndCheckModified(d) ==
  /\ pc[d] = "checkModified"
  /\ todo[d] = {}
  /\ todo' = [todo EXCEPT ![d] = NotObsolete(d)]
  /\ Goto(d, "checkFailed")
  /\ UNCHANGED <<cluster, sg, remaining, loaded, modified, failed, destroyVars,
                 cacheVars, uiVars, bounds>>

\* What isFailedPredicate concludes from a state.  fleet has no unit state for
\* an inactive unit; kubernetes has no NotFoundError.
IsFailed(s) ==
  s = "failed" \/ (~Kubernetes /\ s \in {"missing", "inactive"})

\* isFailedPredicate.  The fleet scheduler answers from the status map it
\* fetched at the first question since its last Stop, Destroy or Start.
CheckFailed(d, u) ==
  /\ pc[d] = "checkFailed"
  /\ u \in todo[d]
  /\ todo' = [todo EXCEPT ![d] = @ \ {u}]
  /\ LET seen == IF cached[d] THEN status[d] ELSE state
     IN /\ failed' = [failed EXCEPT ![d] =
             IF IsFailed(seen[u]) THEN @ \cup {u} ELSE @]
        /\ cached' = [cached EXCEPT ![d] = ~Kubernetes]
        /\ status' = [status EXCEPT ![d] = IF Kubernetes THEN @ ELSE seen]
  /\ UNCHANGED <<cluster, pc, sg, remaining, loaded, modified, destroyVars,
                 uiVars, bounds>>

\* Any other error from GetState is only a warning; nothing is cached.
CheckFailedFails(d, u) ==
  /\ pc[d] = "checkFailed"
  /\ u \in todo[d]
  /\ ~cached[d]
  /\ Fault
  /\ todo' = [todo EXCEPT ![d] = @ \ {u}]
  /\ UNCHANGED <<cluster, pc, sg, remaining, loaded, modified, failed,
                 destroyVars, cacheVars, uiVars>>

EndCheckFailed(d) ==
  /\ pc[d] = "checkFailed"
  /\ todo[d] = {}
  /\ Goto(d, "confirm")
  /\ UNCHANGED <<cluster, sg, planVars, destroyVars, cacheVars, uiVars, bounds>>

-----------------------------------------------------------------------------
(* Confirmation and destroyUnits.                                          *)

Skipped(d) == Config[d].force \/ Config[d].autoContinue

\* Mutant: the status map is kept.
KeepStatus(d) == UNCHANGED cacheVars

\* clearStatus, at the beginning of Stop, Destroy and Start.
ClearStatus(d) ==
  /\ cached' = [cached EXCEPT ![d] = FALSE]
  /\ status' = [status EXCEPT ![d] = Unseen]

\* Start the three goroutines of destroyUnits, each with its own units.
SpawnDestroy(d, to) ==
  /\ doomed' = [doomed EXCEPT ![d] = [r \in Reason |-> WorkList(d, r)]]
  /\ stopping' = [stopping EXCEPT ![d] =
       IF Kubernetes THEN {} ELSE {r \in Reason : WorkList(d, r) # {}}]
  /\ opFailed' = [opFailed EXCEPT ![d] = FALSE]
  /\ IF \A r \in Reason : WorkList(d, r) = {}
     THEN UNCHANGED cacheVars
     ELSE ClearStatus(d)
  /\ Goto(d, to)

\* ui.Confirm returned nil, for the changes that were shown.
Accept(d, changes) ==
  /\ autoConfirm' \in {autoConfirm, [autoConfirm EXCEPT ![d] = TRUE]}
  /\ approved' = [approved EXCEPT ![d] = changes]

\* The changes of a slice go ahead: they need no confirmation.
SkipConfirm(d) ==
  /\ pc[d] = "confirm"
  /\ ~AnyModifications(d) \/ Skipped(d)
  /\ SpawnDestroy(d, "destroying")
  /\ UNCHANGED <<cluster, sg, planVars, uiVars, bounds>>

\* "yes", "all", or an earlier "all".
Confirm(d) ==
  /\ pc[d] = "confirm"
  /\ AnyModifications(d) /\ ~Skipped(d)
  /\ Accept(d, ToDestroy(d) \cup New(d))
  /\ SpawnDestroy(d, "destroying")
  /\ UNCHANGED <<cluster, sg, planVars, listed, missed, bounds>>

\* Reading the answer fails (end of input).
ConfirmFails(d) ==
  /\ \/ pc[d] = "confirm" /\ AnyModifications(d) /\ ~Skipped(d)
     \/ pc[d] = "cleanup" /\ ~(Config[d].op = "destroy" /\ Config[d].force)
  /\ ~autoConfirm[d]
  /\ Goto(d, "aborted")
  /\ UNCHANGED <<cluster, sg, planVars, destroyVars, cacheVars, uiVars, bounds>>

\* The units no slice claimed; also the whole of Deployment.Destroy.
\* Run asks here whatever its flags are; Destroy asks unless forced.
ConfirmCleanup(d) ==
  /\ pc[d] = "cleanup"
  /\ IF Config[d].op = "destroy" /\ Config[d].force
     THEN UNCHANGED <<autoConfirm, approved>>
     ELSE Accept(d, remaining[d])
  /\ SpawnDestroy(d, "cleaning")
  /\ UNCHANGED <<cluster, sg, planVars, listed, missed, bounds>>

Working(d) == pc[d] \in {"destroying", "cleaning"}

\* f.Stop on one unit.
StopUnit(d, r, u) ==
  /\ Working(d)
  /\ r \in stopping[d]
  /\ u \in doomed[d][r]
  /\ state[u] # "inactive"
  /\ doomed' = [doomed EXCEPT ![d][r] = @ \ {u}]
  /\ state' = [state EXCEPT ![u] = IF @ = "missing" THEN @ ELSE "loaded"]
  /\ UNCHANGED <<content, pc, sg, planVars, stopping, opFailed, cacheVars,
                 uiVars, bounds>>

\* f.Stop returns, before its last unit when it fails, as it does on an
\* inactive unit; the error is only a warning.
StopReturns(d, r) ==
  /\ Working(d)
  /\ r \in stopping[d]
  /\ \/ doomed[d][r] = {} /\ UNCHANGED bounds
     \/ (\E u \in doomed[d][r] : state[u] = "inactive") /\ UNCHANGED bounds
     \/ doomed[d][r] # {} /\ Fault
  /\ stopping' = [stopping EXCEPT ![d] = @ \ {r}]
  /\ doomed' = [doomed EXCEPT ![d][r] = WorkList(d, r)]
  /\ UNCHANGED <<cluster, pc, sg, planVars, opFailed, cacheVars, uiVars>>

\* Mutant: the unit file goes, the unit state stays.
DestroyFileOnly(d, r, u) ==
  /\ Working(d)
  /\ r \notin stopping[d]
  /\ u \in doomed[d][r]
  /\ doomed' = [doomed EXCEPT ![d][r] = @ \ {u}]
  /\ content' = [content EXCEPT ![u] = None]
  /\ UNCHANGED <<state, pc, sg, planVars, stopping, opFailed, cacheVars, uiVars,
                 bounds>>

\* f.Destroy on one unit; one that is gone already is no error.
DestroyUnit(d, r, u) ==
  /\ Working(d)
  /\ r \notin stopping[d]
  /\ u \in doomed[d][r]
  /\ doomed' = [doomed EXCEPT ![d][r] = @ \ {u}]
  /\ content' = [content EXCEPT ![u] = None]
  /\ state' = [state EXCEPT ![u] = "missing"]
  /\ UNCHANGED <<pc, sg, planVars, stopping, opFailed, cacheVars, uiVars, bounds>>

\* On fleet a unit that could not be destroyed counts as destroyed: the error that
\* destroyUnitWithRetry returns is not the one it got.
DestroyIsLost(d, r, u) ==
  /\ Working(d)
  /\ ~Kubernetes
  /\ r \notin stopping[d]
  /\ u \in doomed[d][r]
  /\ Fault
  /\ doomed' = [doomed EXCEPT ![d][r] = @ \ {u}]
  /\ missed' = [missed EXCEPT ![d] = @ \cup {u}]
  /\ UNCHANGED <<cluster, pc, sg, planVars, stopping, opFailed, cacheVars,
                 autoConfirm, listed, approved>>

\* On kubernetes Destroy fails on one unit, the unit gone or not; the others follow.
DestroyFails(d, r, u) ==
  /\ Working(d)
  /\ Kubernetes
  /\ r \notin stopping[d]
  /\ u \in doomed[d][r]
  /\ Fault
  /\ doomed' = [doomed EXCEPT ![d][r] = @ \ {u}]
  /\ opFailed' = [opFailed EXCEPT ![d] = TRUE]
  /\ \/ UNCHANGED cluster
     \/ /\ content' = [content EXCEPT ![u] = None]
        /\ state' = [state EXCEPT ![u] = "missing"]
  /\ UNCHANGED <<pc, sg, planVars, stopping, cacheVars, uiVars>>

AfterJoin(d) ==
  IF opFailed[d] THEN "aborted" ELSE IF pc[d] = "cleaning" THEN "done" ELSE "slice"

\* g.Wait() of destroyUnits: any error ends the run, nothing is put back.
JoinDestroy(d) ==
  /\ Working(d)
  /\ stopping[d] = {}
  /\ \A r \in Reason : doomed[d][r] = {}
  /\ IF opFailed[d] \/ pc[d] = "cleaning" \/ ToLaunch(d) = {}
     THEN /\ Goto(d, AfterJoin(d))
          /\ UNCHANGED <<todo, cacheVars>>
     ELSE /\ Goto(d, "create")
          /\ todo' = [todo EXCEPT ![d] = ToLaunch(d)]
          /\ ClearStatus(d)
  /\ UNCHANGED <<cluster, sg, remaining, loaded, modified, failed, destroyVars,
                 uiVars, bounds>>

-----------------------------------------------------------------------------
(* launchUnits: Start of the fleet scheduler creates all units and then    *)
(* starts them, and stops at the first error; Start of the kubernetes      *)
(* scheduler applies all units and collects the errors.                    *)

\* fleet leaves a unit that exists as it is.
CreateUnit(d, u) ==
  /\ pc[d] = "create"
  /\ ~Kubernetes
  /\ u \in todo[d]
  /\ todo' = [todo EXCEPT ![d] = @ \ {u}]
  /\ IF content[u] # None THEN UNCHANGED cluster
     ELSE /\ content' = [content EXCEPT ![u] = Config[d].content[u]]
          /\ state' = [state EXCEPT ![u] = "inactive"]
  /\ UNCHANGED <<pc, sg, remaining, loaded, modified, failed, destroyVars,
                 cacheVars, uiVars, bounds>>

EndCreate(d) ==
  /\ pc[d] = "create"
  /\ ~Kubernetes
  /\ todo[d] = {}
  /\ todo' = [todo EXCEPT ![d] = ToLaunch(d)]
  /\ Goto(d, "start")
  /\ UNCHANGED <<cluster, sg, remaining, loaded, modified, failed, destroyVars,
                 cacheVars, uiVars, bounds>>

\* A unit that vanished since it was created is an error.
StartUnit(d, u) ==
  /\ pc[d] = "start"
  /\ u \in todo[d]
  /\ todo' = [todo EXCEPT ![d] = @ \ {u}]
  /\ state' = [state EXCEPT ![u] = IF @ \in {"inactive", "loaded"} THEN "running" ELSE @]
  /\ IF content[u] = None THEN Goto(d, "aborted") ELSE UNCHANGED pc
  /\ UNCHANGED <<content, sg, remaining, loaded, modified, failed, destroyVars,
                 cacheVars, uiVars, bounds>>

\* Mutant: the error of Start is dropped.
LaunchFailsUnseen(d) ==
  /\ pc[d] \in {"create", "start"}
  /\ ~Kubernetes
  /\ Fault
  /\ Goto(d, "slice")
  /\ UNCHANGED <<cluster, sg, planVars, destroyVars, cacheVars, uiVars>>

\* Start returns an error, any part of it done: after CreateUnit or StartUnit
\* this is a call that took effect and still failed.
LaunchFails(d) ==
  /\ pc[d] \in {"create", "start"}
  /\ ~Kubernetes
  /\ Fault
  /\ Goto(d, "aborted")
  /\ UNCHANGED <<cluster, sg, planVars, destroyVars, cacheVars, uiVars>>

\* Create or update in place; applying what is there already changes nothing.
ApplyUnit(d, u) ==
  /\ pc[d] = "create"
  /\ Kubernetes
  /\ u \in todo[d]
  /\ todo' = [todo EXCEPT ![d] = @ \ {u}]
  /\ \/ /\ content[u] # Config[d].content[u]
        /\ content' = [content EXCEPT ![u] = Config[d].content[u]]
        /\ state' = [state EXCEPT ![u] = "running"]
     \/ content[u] = Config[d].content[u] /\ UNCHANGED cluster
  /\ UNCHANGED <<pc, sg, remaining, loaded, modified, failed, destroyVars,
                 cacheVars, uiVars, bounds>>

ApplyFails(d, u) ==
  /\ pc[d] = "create"
  /\ Kubernetes
  /\ u \in todo[d]
  /\ Fault
  /\ todo' = [todo EXCEPT ![d] = @ \ {u}]
  /\ opFailed' = [opFailed EXCEPT ![d] = TRUE]
  /\ \/ UNCHANGED cluster
     \/ /\ content[u] # Config[d].content[u]
        /\ content' = [content EXCEPT ![u] = Config[d].content[u]]
        /\ state' = [state EXCEPT ![u] = "failed"]
  /\ UNCHANGED <<pc, sg, remaining, loaded, modified, failed, stopping, doomed,
                 cacheVars, uiVars>>

\* g.Wait() of Start, or the end of its loop.
EndLaunch(d) ==
  /\ pc[d] = IF Kubernetes THEN "create" ELSE "start"
  /\ todo[d] = {}
  /\ Goto(d, IF opFailed[d] THEN "aborted" ELSE "slice")
  /\ UNCHANGED <<cluster, sg, planVars, destroyVars, cacheVars, uiVars, bounds>>

-----------------------------------------------------------------------------
\* The cluster: a running unit fails.
UnitFails(u) ==
  /\ failures < MaxFailures
  /\ state[u] = "running"
  /\ state' = [state EXCEPT ![u] = "failed"]
  /\ failures' = failures + 1
  /\ UNCHANGED <<content, pc, sg, planVars, destroyVars, cacheVars, uiVars, faults>>

Ended(d) == pc[d] \in {"done", "aborted", "panic"}

\* Every process has returned.
Terminated == (\A d \in Deployer : Ended(d)) /\ UNCHANGED vars

\* The steps a deployer takes without the operator.
Progress(d) ==
  \/ List(d) \/ BeginSlice(d) \/ EndSlices(d)
  \/ \E u \in Unit : CheckModified(d, u) \/ CheckFailed(d, u)
  \/ EndCheckModified(d) \/ EndCheckFailed(d) \/ SkipConfirm(d)
  \/ \E r \in Reason : StopReturns(d, r)
  \/ \E r \in Reason, u \in Unit : StopUnit(d, r, u) \/ DestroyUnit(d, r, u)
  \/ JoinDestroy(d)
  \/ \E u \in Unit : CreateUnit(d, u) \/ StartUnit(d, u) \/ ApplyUnit(d, u)
  \/ EndCreate(d) \/ EndLaunch(d)

Operator(d) == Confirm(d) \/ ConfirmFails(d) \/ ConfirmCleanup(d)

Faulty(d) ==
  \/ ListFails(d) \/ LaunchFails(d)
  \/ \E u \in Unit : CheckFailedFails(d, u) \/ ApplyFails(d, u)
  \/ \E r \in Reason, u \in Unit : DestroyIsLost(d, r, u) \/ DestroyFails(d, r, u)

Next ==
  \/ \E d \in Deployer : Progress(d) \/ Operator(d) \/ Faulty(d)
  \/ \E u \in Unit : UnitFails(u)
  \/ Terminated

Spec == Init /\ [][Next]_vars

\* A question waits for the operator: neither a flag nor an earlier "all" answers it.
Asking(d) ==
  /\ ~autoConfirm[d]
  /\ \/ pc[d] = "confirm" /\ AnyModifications(d) /\ ~Skipped(d)
     \/ pc[d] = "cleanup" /\ ~(Config[d].op = "destroy" /\ Config[d].force)

\* The process runs on, its delays end and the cluster answers; nobody promises
\* that the operator does.
Fairness ==
  \A d \in Deployer : WF_vars(Progress(d))
                     /\ WF_vars((Confirm(d) \/ ConfirmCleanup(d)) /\ ~Asking(d))

-----------------------------------------------------------------------------
\* Every variable has its type, and a unit has a state when it has a content.
TypeOK ==
  /\ content \in [Unit -> Content \cup {None}]
  /\ state \in [Unit -> State]
  /\ \A u \in Unit : content[u] = None <=> state[u] = "missing"
  /\ pc \in [Deployer -> {"list", "slice", "checkModified", "checkFailed", "confirm",
                         "destroying", "create", "start", "cleanup", "cleaning",
                         "done", "aborted", "panic"}]
  /\ sg \in [Deployer -> Nat]
  /\ remaining \in [Deployer -> SUBSET Unit]
  /\ loaded \in [Deployer -> SUBSET Unit]
  /\ todo \in [Deployer -> SUBSET Unit]
  /\ modified \in [Deployer -> SUBSET Unit]
  /\ failed \in [Deployer -> SUBSET Unit]
  /\ stopping \in [Deployer -> SUBSET Reason]
  /\ doomed \in [Deployer -> [Reason -> SUBSET Unit]]
  /\ opFailed \in [Deployer -> BOOLEAN]
  /\ cached \in [Deployer -> BOOLEAN]
  /\ status \in [Deployer -> [Unit -> State]]
  /\ autoConfirm \in [Deployer -> BOOLEAN]
  /\ listed \in [Deployer -> SUBSET Unit]
  /\ approved \in [Deployer -> SUBSET Unit]
  /\ missed \in [Deployer -> SUBSET Unit]
  /\ faults \in 0..MaxFaults
  /\ failures \in 0..MaxFailures

-----------------------------------------------------------------------------
(* The invariant the safety properties rest on.                            *)

SlicePhase(d) == pc[d] \in {"checkModified", "checkFailed", "confirm", "destroying",
                            "create", "start"}

\* The lists of a deployer fit together.
PlanFits(d) ==
  /\ listed[d] \subseteq Selected(d)
  /\ remaining[d] \cup loaded[d] \subseteq listed[d]
  /\ modified[d] \cup failed[d] \subseteq NotObsolete(d)
  /\ SlicePhase(d) => Config[d].op = "run" /\ sg[d] \in Slices(d)
  /\ pc[d] = "slice" => Config[d].op = "run"
  /\ pc[d] = "list" => loaded[d] = {}

\* What a loop or a goroutine has still to visit belongs to its list.
WorkFits(d) ==
  /\ pc[d] \in {"checkModified", "checkFailed"} => todo[d] \subseteq NotObsolete(d)
  /\ pc[d] \in {"create", "start"} => todo[d] \subseteq ToLaunch(d)
  /\ Working(d) => \A r \in Reason : doomed[d][r] \subseteq WorkList(d, r)

\* The changes being made were accepted, skipped, or there are none.
ConsentFits(d) ==
  /\ pc[d] \in {"destroying", "create", "start"} =>
       \/ Skipped(d)
       \/ ToDestroy(d) \cup New(d) \subseteq approved[d]
       \/ ToDestroy(d) \cup New(d) = {}
  /\ pc[d] = "cleaning" =>
       \/ Config[d].op = "destroy" /\ Config[d].force
       \/ remaining[d] \subseteq approved[d]

\* Through all interleavings with other deployers, the lists, the work left and
\* the consent of a deployer keep to the slice it is in (run.go:61-137,
\* destroy.go:72-103).
Coherent == \A d \in Deployer : PlanFits(d) /\ WorkFits(d) /\ ConsentFits(d)

-----------------------------------------------------------------------------
(* Safety.                                                                 *)

\* What lets deployer d change unit u: its name in a list the operator
\* accepted, or a flag that stands for the answer.  No flag stands for the
\* answer to the clean-up of Run.
Sanctioned(d, u) ==
  \/ u \in approved[d]
  \/ /\ Config[d].op = "run" /\ Skipped(d) /\ pc[d] # "cleaning"
     /\ u \in loaded[d] \cup Generated(d, sg[d])
  \/ Config[d].op = "destroy" /\ Config[d].force /\ u \in listed[d]

\* No unit is removed, created or replaced that the operator was not shown
\* and has not accepted in this very step (run.go:96-111 and 145-148,
\* destroy.go:47).
ChangesAreApproved ==
  [][\A u \in Unit : content'[u] # content[u] =>
       \E d \in Deployer : ~Ended(d) /\ Sanctioned(d, u)]_vars

\* The units the command line of deployer d names.
Addressed(d, u) ==
  /\ Meta[u].job = Config[d].job
  /\ Config[d].groups # {} => Meta[u].group \in Config[d].groups
  /\ Config[d].scaling # 0 /\ ~Kubernetes => Meta[u].slice = Config[d].scaling

\* The step is one of deployer d, on unit u.
TakesUp(d, u) ==
  \/ u \in todo[d] \ todo'[d]
  \/ \E r \in Reason : u \in doomed[d][r] \ doomed'[d][r]

\* A deployer touches, even stops, only units of the job, task groups and scaling
\* group it was asked to deploy, whatever others do with units beside them
\* (filter.go:21-48).
OthersAreLeftAlone ==
  [][\A u \in Unit : (content'[u] # content[u] \/ (state'[u] # state[u] /\ state'[u] # "failed"))
       => \E d \in Deployer : TakesUp(d, u) /\ Addressed(d, u)]_vars

\* While a job is updated at most one slice of it is down: a unit that was there
\* when the run began and is to stay is absent only while its own slice is
\* the current one, also when the run stops half-way (run.go:64-137).  On
\* kubernetes it is never absent.
OneSliceDown ==
  \A d \in Deployer : \A u \in listed[d] \cap Wanted(d) :
    content[u] = None => ~Kubernetes /\ Meta[u].slice = sg[d]

\* A unit that is what the job asks for is not taken down, unless it was seen to
\* have failed, a call failed, or --force was given (run.go:187-216).
CurrentUnitsSurvive ==
  [][\A d \in Deployer : \A u \in Wanted(d) :
       content[u] = Config[d].content[u] /\ content'[u] # content[u] =>
         Config[d].force \/ u \in failed[d] \/ faults # 0]_vars

\* A deployer removes only what its own list held when it began, however
\* many others add and remove units meanwhile (run.go:35, destroy.go:32).
OnlyListedAreRemoved ==
  [][\A u \in Unit : content[u] # None /\ content'[u] = None =>
       \E d \in Deployer : TakesUp(d, u) /\ u \in listed[d]]_vars

\* The status map a fleet deployer answers GetState from was fetched after its
\* own last Stop, Destroy and Start (scheduler/fleet/fleet.go:141,153,181): it
\* agrees with the cluster on which of its units exist.
CachedStatusIsRecent ==
  \A d \in Deployer : cached[d] =>
    \A u \in Selected(d) : status[d][u] = "missing" <=> content[u] = None

\* Every process returns, or in the end waits for an answer it never gets: no
\* mix of answers, errors and states of units keeps the loop over the slices
\* going (run.go:64-137).
EndsOrAsks == \A d \in Deployer : <>[](Ended(d) \/ Asking(d))

-----------------------------------------------------------------------------
(* What the documentation says and the code does not do.                   *)

\* --scaling-group: "scaling group to deploy" (deployment.go:42).  Deploying one
\* scaling group does not take away what the job describes.
ScalingGroupKeepsTheJob ==
  \A d \in Deployer : Config[d].op = "run" /\ pc[d] = "done" =>
    \A u \in listed[d] \cap Config[d].units : content[u] # None
=============================================================================
