# A TLA+ model of j2

j2 deploys a job, described in a job file, to a cluster run by fleet or by
kubernetes. It lists the units on the cluster, computes what the job file asks
for, and, one scaling group ("slice") after the other, stops, destroys, creates
and starts units until both agree. It keeps no state between runs and takes no
lock: everything it knows is what it listed at the beginning, and everything it
changes is shared with other runs, with the operator and with units that fail
by themselves. This directory models that program and says what holds of it.

## Inventory

| Part (source) | State it keeps | Operations | Talks to | What is hard | What makes it correct |
|---|---|---|---|---|---|
| Deployment (`deployment/run.go`, `destroy.go`, `filter.go`, `scaling_group*.go`) | list of remaining units, slices, lists of obsolete, modified, failed and new units | `Run`, `Destroy`, `DryRun` | scheduler, terminal UI, renderer | stale list, errors half-way, three goroutines per slice, concurrent runs | one slice down at a time, consent, only its own units, ends |
| Delays (`deployment/wait.go`) | `waiting`, `waitID`, `stopCounter`, a condition variable, all global | `InterruptibleSleep`, signal handler | terminal UI | unlocked globals, broadcasts that come too early, timers that come too late | every delay ends, none ends another |
| Terminal UI (`deployment/state_ui.go`) | sinks, unit states, `autoConfirm` | `Confirm`, `Close`, sinks | operator | channels closed while others send | no send after close, nobody blocked for ever |
| Fleet scheduler (`scheduler/fleet`) | cached status map | `List`, `GetState`, `HasChanged`, `Stop`, `Destroy`, `Start` | fleet tunnel | the cache and its invalidation, event goroutines | the cache is newer than one's own changes |
| Kubernetes scheduler (`scheduler/kubernetes`) | none | the same | API server | a goroutine per unit, shared namespace, messages passed on by others | all errors collected, nothing removed but obsolete units, messages in order |
| Cluster configuration (`cluster_config.go`) | none | `ValidateCluster`, `ConfigureCluster` | API server | several objects, no transaction | a second attempt completes the first |
| Fleet tunnel (`pkg/fleet`) | cached machine states | `Start`, `Stop`, `Destroy`, `Status`, retries | fleet API | retries of calls whose answer was lost, waiting for states, partial effects | no retry reports failure for what was done |
| Kubernetes resources (`pkg/kubernetes`) | none | `Start`, `Destroy`, `IsValidState` per kind | API server | waiting for a controller, rotating pods, label selectors that several resources share | what is started is new, one pod of a daemon set down at a time, what is destroyed is gone and what is not comes back |
| Renderers (`render/fleet`, `render/kubernetes`, `pkg/sdunits`, `engine/docker`) | the pods being grouped and sorted | `GenerateUnits` | job model | unit chains, grouping tasks into pods, ordering by `After`, names and references between units | each task in one pod, order respected, references resolved, instances apart |
| Job model (`jobs`) | the job; the links that variables add | `Link`, `replaceVariables`, `Validate`, `MaxCount` | renderer | precedence and merging rules, the order of a map, addresses that depend on the renderer | an address leads to the task it was asked for |
| Job file parser (`jobs/parse.go`, `functions.go`) | none | `ParseJobFromFile` | vault, files | defaults and shortcuts | |
| Load balancer registrations (`pkg/robin`, `render/fleet/frontend_registration.go`) | none | records to publish | job model | merging of frontends | each frontend has a record of its own |
| Cluster, options, vault, command line | none | decoding and formatting | files, environment, vault | | text and I/O: not modelled but for what rendering asks of a cluster |
| `deps/` | | | | | third-party code, not modelled |

A run (`run.go` or `destroy.go` at the top) builds one `Deployment` and calls
`Run` or `Destroy` once. `Run` asks the renderer for the units of each slice and
the scheduler for everything else; `destroyUnits` starts a goroutine per reason
(update, failed, obsolete), each stopping and then destroying its units; the
scheduler talks to the cluster. Delays separate the steps. Messages and events
go to the terminal UI through channels. Before that, `ParseJobFromFile` has made the job
of the job file, asking the renderer for the addresses of tasks.

## Modules

| Module | Models |
|---|---|
| `Deployment` | `Run` and `Destroy` of any number of concurrent j2 processes over one cluster |
| `RollingUpdate` | abstract: what one run promises for the units it is responsible for |
| `DeploymentRefinement` | the mapping under which `Deployment` implements `RollingUpdate` |
| `InterruptibleSleep` | the delays, their goroutines and the signal handler |
| `TerminalUI` | composition: the delays, the goroutines of a run, the events of their calls and the channels of the screen |
| `FleetTunnel` | `Stop`, `Destroy` and `Start` of the fleet tunnel over an API that loses requests and answers |
| `KubeUnits` | `Start` and `Destroy` of kubernetes resources, with controllers and machines |
| `KubeCluster` | `ValidateCluster` and `ConfigureCluster` of concurrent processes |
| `KubeScheduler` | composition: a run that validates its cluster and then starts or destroys its resources |
| `JobModel` | the data of a job and the functions on it |
| `JobFile` | from a decoded job file to a job |
| `RobinRecords` | the records of the load-balancer |
| `KubeRenderer`, `FleetRenderer` | the resources and the units of a task group |
| `JobVariables` | the variables `link_url` and `link_tcp` |
| `JobPipeline` | the steps from a job file to what is deployed, over the six modules before |
| `MCDeployment`, `MCFleetTunnel`, `MCKubeScheduler`, `MCJobPipeline` | instances for TLC |
| `DeploymentProofs`, `SliceProofs`, `DeploymentRefinementProofs` | theorems about `Deployment`: any deployers; deployers of different units; the refinement |
| `FleetTunnelProofs`, `InterruptibleSleepProofs`, `TerminalUIProofs`, `KubeSchedulerProofs` | theorems about these modules (the last one about `KubeUnits` and `KubeCluster` too) |
| `JobPipelineProofs` | theorems about `JobPipeline` and the job and renderer modules under it |

### Deployment

A unit is a name, because names are what the code compares. `content[u]` is what
the cluster has under that name (`None` if nothing), `state[u]` what the cluster
says of it. `Meta[u]` is what the name (fleet) or the labels (kubernetes) say:
job, task group, slice. A content is a model value: the two schedulers compare
contents with `compareUnitContent` and `IsEqual`, and all that matters is
whether they differ. `Config[d]` holds the flags and the job file of process
`d`. `Kubernetes` chooses the scheduler.

`pc[d]` follows the source from top to bottom:

| `pc` | Code |
|---|---|
| `list` | `run.go:30-58`, `destroy.go:27-42` |
| `slice` | head of the loop, `run.go:64` |
| `checkModified`, `checkFailed` | the two predicates over the units that are not obsolete, `run.go:79-82`, one unit a step |
| `confirm` | `run.go:87-111` |
| `destroying` | `destroyUnits` in a slice, `run.go:114-120` |
| `create`, `start` | `launchUnits`, `run.go:122-128`; kubernetes applies in `create` and has no `start` |
| `cleanup`, `cleaning` | `run.go:140-155`, or all of `Destroy` |
| `done`, `aborted`, `panic` | returned nil, returned an error, index out of range at `run.go:58` |

`destroyUnits` is modelled with its goroutines: `stopping[d]` are the reasons
whose goroutine is in `f.Stop`, `doomed[d][r]` the units that goroutine still
has to visit in the call it is in. Stop ends early on an error or on an inactive
unit, and its error is only a warning; Destroy visits all units and collects its
errors; `g.Wait` ends the run if there is any. `Start` of fleet creates all units
that do not exist, then starts all of them, and gives up at the first error;
`Start` of kubernetes applies all units concurrently and collects errors.

`cached[d]` and `status[d]` are the status map of the fleet scheduler: filled by
the first question, dropped at the beginning of `Stop`, `Destroy` and `Start`.

Failures: every call to a scheduler may return an error (`ListFails`,
`CheckModified`'s second disjunct, `CheckFailedFails`, `StopReturns`, `DestroyFails`,
`LaunchFails`, `ApplyFails`), with or without having had an effect; only Destroy of fleet
never does, because `destroyUnitWithRetry` drops its errors (`DestroyIsLost`, and
see `lost_destroy` below); a running unit may fail
(`UnitFails`); the operator may answer "yes", "all", or end the input. A j2 process
that is killed simply takes no more steps, which every safety property allows
for. `faults` and `failures` count these; `listed`, `approved` and `missed` are history variables: what
the deployer listed, what the operator accepted last, and the units that a lost request to destroy
has left in place.

Simplifications: a call on one unit is one step (the tunnel reads a unit and then
writes it, `pkg/fleet/fleet_stop.go:31-49`); the waiting inside such a call is left
out; a kubernetes unit is applied in one step and has the new state at once.
`FleetTunnel` looks into the fleet side of this, `KubeUnits` into the kubernetes side. A
kubernetes unit here is a resource, not its pods: that `Destroy` of an obsolete resource also takes pods of others
of its task group, which their controllers make again, is in `KubeUnits` only.

Two limits of the code that the model shows and no property forbids: `Run` asks
before the clean-up whatever `--yes` says (`run.go:146`; `ConfirmCleanup` looks at
`--force` of a destroy only), and a unit that fails after the status map was
fetched is judged healthy (`CheckFailed` reads `status[d]`).

### RollingUpdate and DeploymentRefinement

`RollingUpdate` has four variables: the contents of the units the run is
responsible for, the current slice, the outcome, and the units it has missed: those
a lost request has left, which it knows nothing of (never when units are replaced in place). Only units of the current slice are
removed or installed, the next slice begins only when all earlier ones are at
their target but for the missed ones, and "done" means that every unit is. `IsRollingUpdate` states that
a deployer, seen through the units it selects, implements it; the mapping takes `have` from
`content`, `slice` from `sg` (the clean-up is a slice after the last), `outcome` from `pc` and `missed` from `missed`.
It holds of a deployer as long as no other process has the same units.

### InterruptibleSleep

Reads and writes of `waiting` and `waitID` are steps of their own, including
the two halves of `waitID++`, because nothing orders them. A timer goroutine may
start late and outlives a call that a signal ended. `Long` says which durations
are longer than it takes the caller to get to `Wait`; all of them are on
fleet (seconds), none on kubernetes (`UpdateDestroyDelay` returns 0). The
mutex has no effect on the order of these steps and is left out. `early` and
`excused` are history variables: the calls that were woken before their own time, and
those that a signal, or a wake-up under way when their `waitID` was set, may wake.

`Deployment` has no delays: other steps can come between any two steps of a
deployer anyway, and its liveness result takes the end of each delay for
granted. `terminal_ui` shows when that is justified, `two_sleepers` when it is not.

### TerminalUI

A run of one slice with everything that sends to the screen. `at[g]` is where a goroutine
is: the run asks (`ask`, `asking`, `answered`), waits for the goroutines of `destroyUnits` (`join`),
sleeps (`delay`, `delayed`), starts units (`launch`, `start`) and closes the screen (`finish`,
`close`); each of the others stops units, sleeps if there are global ones, and destroys
them. `run` says which scheduler the run has, as the two differ in who sends the events
and in the delays. No channel has a buffer, so that a send and its receipt are one step, possible
while `processSinks` is `"running"`. After `Close` a send is a `"panic"`.

An event is a number, counted per call in `events`. On fleet a goroutine of `eventWrapper`
takes an event of the call (`Emit`) and passes it on (`PassOn`) whenever it gets to it; on
kubernetes there is such a goroutine per unit, and the last event is sent past it
(`CallSucceeds`). A call has one unit. `hand` is what has been taken and not passed on, `seen` what has been displayed.
`orphaned` are the calls whose goroutines go on after an error (`fleet_start.go:104`).
The printer of a delay looks at `waiting` after each message; both are one step (`PrinterSends`), as nobody can close the
channel while it runs. What is drawn is left out.

Two limits of the code show here. A run can end in a panic: the goroutine of an event
wrapper may hold its event until the channels are closed (`fleet.go:232`, `kubernetes.go:170`).
`ClosedAfterWork` says that this is all that can come late. And on
kubernetes the delay after a removal is zero (`UpdateDestroyDelay`, `kubernetes.go:289`): its broadcast may come before `Wait`, and the run
sleeps until a signal comes; `RunEnds` excepts this.

### FleetTunnel

A caller is a goroutine of `destroyUnits`, or the run itself, that makes the calls of its
program one after the other: an update is `Stop`, `Destroy`, `Start` of the
same units. `desired[u]` and `current[u]` are the two states the registry keeps
of a unit; agents bring the second to the first (`Reconcile`), except that a
global unit has no current state. `pc[c]` follows a call:

| `pc` | Code |
|---|---|
| `find` | `findUnits` at the head of `Stop` (`fleet_stop.go:32`) |
| `stop` | its loop (`fleet_stop.go:38-57`), deciding by what was found, in `seen[c]` |
| `destroy` | the loop of `Destroy` (`fleet_destroy.go:29-66`) |
| `create`, `waitCreate` | `lazyCreateUnits` (`fleet_start.go:75-122`) |
| `start` | `setTargetStateOfUnits` (`fleet.go:293-318`) |
| `waitStop`, `waitStart` | `waitForUnitStates` (`fleet.go:177-198`) |

A request is several steps: `Request` decides by what was read, `Deliver`,
`RequestLost` and `AnswerLost` are the attempts, `Conflict` one the API refuses,
`GiveUp` the end of the back-off. `checking[c]` are the goroutines of
`checkUnitState`: a unit and the state each waits for. Those `lazyCreateUnits`
has started go on after it has returned an error. `missed` is a history variable
as in `Deployment`; `warned` says that the caller's last Stop returned an error.

Simplifications: all callers mean the same content by the same name, so
`createUnit`'s comparison of contents plays no part; unit files are valid; a list
is visited in any order. The loop at `fleet_destroy.go:38-58` runs only with
`NoBlock`, which nothing sets, and is left out. `BlockAttempts` is 0 in all of j2
(`fleet_config.go:64`), which means "wait without limit"; `tunnel_overlap` has 1,
so that a caller gets past a Stop that cannot succeed.

A creation whose answer was lost is refused when it is retried, and Start then
fails although the unit exists (`fleet.go:119`): `Conflicts` has this, and
`RetryIsHarmless` is stated for targets only.

`Deployment` takes from this module that a call touches a unit at most once
(`RetryIsHarmless`), that Destroy leaves a unit only if its request was lost
(`DestroyLeavesNothing`, there `DestroyIsLost`), that creations come before starts
(`CreatedBeforeStarted`, there `create` and `start`), and that a call returns
(`CallsReturn`), which holds of a caller that shares its units with nobody.

### KubeUnits, KubeCluster and KubeScheduler

One goroutine per resource goes through its requests one at a time, by the kind of the
resource; `pc[u]` is where it is. Between two requests controllers observe
deployments, make and scale replica sets, create and delete pods; pods become ready, or
fail by themselves; machines join. A resource has a revision, `"new"` as the job
file has it and `"old"` otherwise, and a deployment a generation, which the API server raises
when the resource changes. `namespace` and the secrets are shared by all goroutines and processes.
A request may fail (`MaxFaults`). `KubeCluster` has two commands, `run` and `configure`, which
check or write the namespace and the secrets one by one, in any order of the map they are taken from.

**Label selectors.** The code finds pods and replica sets by the labels of the resource they belong to
(`createLabelSelector`, `pkg/kubernetes/util.go:30`), and the renderer gives a deployment, daemon set or job the labels
of its job and task group only (`render/kubernetes/labels.go:32`). Tasks of a group that nothing ties together
become several pods, hence several resources with the same labels. `TaskGroup[u]` is what the labels of `u` say,
and `Selected(u)` all resources with them: `ListPods` and `ListDoomedPods` list the pods of all of these
(`ListByLabels`), `ListSets` their replica sets, and `PollRotation` looks at all of these pods on the machine of the pod it has
deleted, but for that one (`NewPods`). What is listed is then deleted by name, one request at a time, while others do the
same: a pod that is gone is not found, and that is an error. A pod is found in its slot; `by` in its
record are the goroutines that have listed it, so that a pod which has come in its place since, with another
name, is told from it (`IsThere`). A pod that was deleted stays, `going`, until the machine has stopped it.

With one resource in a task group this does what its comments say. With several (the *siblings*):

* a rotation deletes the pods of all daemon sets and jobs of the group, and takes the running pod of another for
  the new one: it goes on while the pod it deleted has no successor, and more than one machine can be without a pod
  (`rotation_of_siblings`). A failed pod of another resource, such as that of a job, ends the rotation with an error, before the rest has been rotated;
* two daemon sets of a group that start in one call delete each other's pods; the one that comes second to a pod
  often does not find it, and fails;
* two deployments of a group that are destroyed in one call delete each other's replica sets and pods, and
  one or both can fail as not found, half-way;
* a deployment or job that is destroyed takes pods and replica sets of the others with it, which their
  controllers make again.

What holds of siblings all the same is `RotatedWhenStarted` (each old pod has been deleted),
`DestroyedIsGone` and `OthersComeBack`. `OneHostAtATime` is stated for a daemon set that is `Alone` in its group.

A slot is the machine of a pod of a daemon set or job. Nothing depends on where the pods of a deployment are, so
their slots only bound how many there are at a time, those on their way out included, and a controller takes
whichever is free (`Free`): the instance has three, for two replicas and the one more that a rollout may have.
`Replicas[u]` is the count of the group.

### JobPipeline

`stage` goes from `"parse"` through `"replace"` (the variables of one task after the other) and
`"render"` (one group, on fleet one slice of it, at a time) to `"done"`, `"refused"` or `"panic"`. On
kubernetes a group goes through `"ties"` (`groupTaskIntoPods` joins the pods of two tasks, one pair of
`ties` a step) and `"pods"` (one pod is picked and sorted, a round of `sortTasks` a step) before its pods
are rendered. What the code does in the order of a map is
done in any order: `ReplaceVariable(k)` and `PickPod(p)`; what `sort.Sort` makes of equal elements, which it
may exchange, is any of the `Sortings`. Everything else is a function
of the job: `ParseJob`, `SetDefaults`, `ResolveLinks`, `OptimizeFor`, `JobIsValid`, `GroupUnits`,
`Resources`, each an operator without recursion. That something is reached through any number of others is
said with sets (`Closure`, `HasCycle`, the second part of `PodsAreTies`): what no step leaves.

`FileAssumption` says what the decoder returns: groups, tasks and what these have several of are lists, counts
are integers. No name, link or reference of a file is assumed to be right.

A name is a sequence of words, which `_` joins, so that resource names, where several
characters become `-`, can coincide as they do in the code. A unit is a record of what other units or the
load-balancer refer to: its name, its `Requires` and `After`, what it conflicts with, the
container it runs and those it uses, the files of secrets it makes and reads, its
records. A file is the decoded value that the HCL parser
returns; templates, quoting and the text of units are left out.

Limits of the code that the model has and the properties state as exceptions: tasks with
restart `"all"` are put in one pod in the order of the group, whatever `after` says
(`pod.go:21`); `after` in a circle makes `sortTasks` loop for ever; links to a proxy of a proxy
lead nowhere; names with `_` can coincide after they are joined; a secret with both
a file and a variable is read from a file that is not made; a `link_tcp` to a task that does not exist
panics with a nil task (`variables.go:198`). Others lie outside of every property:
the proxies of TCP links are numbered in the order of a map, so that a second run may find
units modified that are not (`variables.go:303`); `README.md:162` of the repository says that a constraint of a
deeper level overwrites one with the same attribute, while tasks of one file that
share a group are refused for it (`parse.go:296`, `constraint.go:99`).

## Runs

Passing runs:

| Run | Instance | Shows |
|---|---|---|
| `fleet_run` | one run on fleet; `j1`, `o1` (obsolete) in slice 1, `j2` in slice 2, `j3` in a slice the job no longer has; every initial content and state, but that a unit no job file describes has one content (`MCInit`); one failing call, one failing unit | types, `Coherent`, `OneSliceDown`, `CachedStatusIsRecent`, `ChangesAreApproved`, `CurrentUnitsSurvive`, `IsRollingUpdate`; with weak fairness, `EndsOrAsks`: the run ends or waits for the operator |
| `run_and_destroy` | on kubernetes, a run of one task group with `--yes` and a forced destroy of the whole job, beside a unit of another task group and one of another job, one failing call | each process touches only what it addresses, though the other works on units beside it; each removes only what its own list holds |
| `terminal_ui` | a run on fleet with one goroutine that sleeps and one that does not, and one on kubernetes; two events, two signals, any failing call, weak fairness | `OnlyOwnTimerWakes`; `ClosedAfterWork`; `EventsInOrder`; `RunEnds` |
| `tunnel_update` | an update of a unit and of a global unit from every state of the registry; two attempts, three lost messages, weak fairness | types, `Orderly`; no unit is destroyed running, none started before all exist, retries are harmless, what Start reports as started runs, every call returns |
| `tunnel_overlap` | two goroutines of `destroyUnits` that share one of two units; a lost message, waits that time out | Destroy leaves nothing behind but what was lost, although it finds units gone |
| `kube_scheduler` | a run that starts or destroys resources of three task groups (a deployment; two deployments; two daemon sets and a job), one of them, a pair, or one beside the others of its group, on up to two machines, with one failing request and one failing pod or joining machine; or one that validates its cluster while another process configures it, with one failure or kill; weak fairness | `UpdatedWhenStarted`, `OneHostAtATime`, `RotatedWhenStarted`, `DestroyedIsGone`, `AwaitedComes`, `OthersComeBack`; `AppliedWhenConfigured`, `SecondAttemptCompletes` |
| `job_pipeline` | six families of job files, on each kind of cluster they matter on | `PodsAreTies`, `AfterIsKept`, `RenderingEnds`, `AddressesAreServed`, `PlacedApart`, `NamesAreUnique`, `ReferencesAreThere` |

Runs that find a disagreement between the code and what it says of itself:

| Run | What it shows |
|---|---|
| `kube_scaling_group` | on kubernetes `--scaling-group=2` ("scaling group to deploy", `deployment.go:42`) renders nothing and selects everything, so the whole job is destroyed |
| `two_sleepers` | two goroutines of `destroyUnits` that sleep at the same time: one sleeps for ever (`deployment/wait.go:61`) |
| `lost_destroy` | `destroyUnitWithRetry` (`pkg/fleet/fleet.go:129`) neither retries nor reports: the operation returns the `err` outside of it, which is nil, and a unit that is still there passes for destroyed |
| `update_and_failed` | a unit that is both modified and failed is in two lists; one goroutine destroys it while the other waits in Stop for it to be loaded, for ever: the run does not return (`deployment/run.go:27`) |
| `rotation_of_siblings` | a daemon set beside another one of its task group: the rotation takes the running pod of the other for the new one, where `daemonset.go:128` says "it waits until the DaemonSet controller has created and started a new pod" |

### Bounds, and why they are enough

`MaxFaults`, `MaxFailures`, `MaxCalls`, `MaxSignals` and `MaxLost` bound what the environment does.
Each unit of `fleet_run` has its own role (updated in the first slice, obsolete in a slice, updated in the
second slice, in no slice), and all combinations of contents and states are initial
states, so each pair of decisions meets. A second fault can only come after a
first, and nearly all faults end the run; the exceptions (a failed check, a
failed Stop) let the run go on as if the unit were modified or had been skipped, which other initial
states show as well.
In `terminal_ui` the timer of the goroutine's delay can outlive it and
reach the delay of the run (only one of the goroutines sleeps there: two are `two_sleepers`), and two
signals let a run exit; two events are enough for one to overtake another. `MaxAttempts` is how often the back-off of the tunnel tries: a
time limit in the code (a minute and more), here two attempts, so that one can
fail and the next succeed; three lost messages then exhaust one request and hit another,
or hit three in a row. In `tunnel_overlap` one lost message is enough to leave one of two
units. Deadlock is checked in all passing runs: `Terminated` is the only way to stop;
`update_and_failed` does not check it, as the caller that waits for ever is what it shows.
`fleet_run` has the one run on fleet and `run_and_destroy` the two processes on kubernetes; that the rolling update holds on kubernetes
too, and the other properties of `run_and_destroy` on fleet, is proved.
In `kube_scheduler` two replicas are what it takes for a rollout to be half done, two machines for a
rotation to have a next one, two resources of a kind for a label to be shared. `MCUnits` leaves out what would multiply the
states without a new meeting of two steps: with two resources of a group on the move nothing fails and one
machine is enough; a resource that stays (`Others`) is new, and is there only where the call looks at its pods; a
request fails or a machine joins beside a sibling only in the case of a daemon set beside a job, whose pod can end its rotation. `KubeSchedulerProofs`
has none of these restrictions. The configuration and the units have runs of
their own within it (`MCInit`), as the units only ask whether the cluster was validated. A family of
`job_pipeline` combines freely what can interact: the ties of three tasks (all
combinations of after, volumes-from and both, so circles of three as well), the ways one task can link to another
over each kind of network, proxy and rewriting; placement with counts from 1 to 3 on one to three machines; secrets and
volumes for each type of task; names that are taken or joined.

### Fairness

`Fairness` of `Deployment` assumes weak fairness of each deployer's own steps: the process runs,
its calls return (`tunnel_update` shows that they do; `update_and_failed` shows when one
does not) and its delays end. Its second part says that a question which a flag
or an earlier "all" answers is no wait. There is none for the operator, for errors or for failing
units. `FairSpec` of `InterruptibleSleep` assumes that the Go scheduler runs every
goroutine and that durations pass; nobody is obliged to send a signal. `FairSpec` of
`FleetTunnel` assumes that callers and their goroutines run on and that the agents of
fleet do in the end what the registry says; that no message is lost, or when, is up to nobody.
`UIFairSpec` of `TerminalUI` assumes the Go scheduler again, for all goroutines of a kind together, which is
enough because each has finitely many steps; the operator need not answer and no event need be
sent. `Fairness` of `KubeScheduler` lets processes, goroutines and the controllers of
kubernetes run on. A job file is rendered by one process, which runs until it ends: `Fairness` of `JobPipeline`
says so with `IsEnded` in the place of the enabledness of a step.

## Proofs

`DeploymentProofs` proves, for any finite set of units, any set of deployers with any flags and job files, and
either scheduler:

* `TypeCorrect`: `Spec => []TypeOK`;
* `CoherentAlways`: `Spec => []Coherent`;
* `ChangesNeedConsent`, `RemovalsAreListed`, `StrangersAreSafe`: the action properties
  `ChangesAreApproved`, `OnlyListedAreRemoved` and `OthersAreLeftAlone`.

The last three are not inductive: that a unit about to be destroyed was listed,
or accepted, depends on how it got into the list of the goroutine that
destroys it. `Coherent` records that, per deployer: `PlanFits` (the lists
nest: modified and failed units are loaded and generated, loaded and remaining units are listed, listed units are
selected), `WorkFits` (what a loop or goroutine has left belongs to the list it was made from) and
`ConsentFits` (in the phases that change the cluster, the changes were accepted,
or are covered by a flag, or there are none). It mentions no variable of another
deployer and nothing of the cluster, so a step keeps it for the others
(`FitsByOwn`, `OthersKeepTheirs`), and only a deployer's own step needs an
argument (`OwnStepFits`). One part is arithmetic: `Run` decides
that a slice needs no change by comparing the number of loaded and generated units;
`NothingToDo` shows from the cardinalities of finite sets that then nothing is new.
`Touches` says which steps change a unit, `TouchedIsPlanned` that these are planned ones.

The assumptions are those of the module: finitely many units, `None` is no
content, flags and job files of the right types, natural bounds. Nothing is assumed
of `Meta`, nor that deployers have different units.

`SliceProofs` does assume that, and states it: `Alone(d)`, no other deployer selects a unit that `d`
selects. j2 takes no lock, so whether it holds is up to the operators; where it does not, a unit can be
removed by the other run while this one works elsewhere, and nothing below can be expected. From
`\A d \in Deployer : Alone(d)`:

* `StatusIsRecent`: `Spec => []CachedStatusIsRecent`;
* `OneSliceAtATime`: `Spec => []OneSliceDown`;
* `CurrentUnitsStay`: `Spec => CurrentUnitsSurvive`.

The invariant, `Sliced(d)`, says of each selected unit what is known of it where the deployer is:
`Sorted` (of the units that were listed, `remaining` holds those whose first slice, `Home`, is to
come and `loaded` those of the current slice), `Recent` (a status map that is kept agrees with the cluster on
which units exist, and is kept only through a slice with nothing to destroy), `Changed` (a unit counts
as modified because it differs from the job file, because of `--force` or because a call failed) and
`Present` (a listed unit that is to stay is absent only in its own slice, on fleet, between its removal and its
creation or after a run that stopped there). Together with `Settling` (what each slice that is past has brought
about, but for the units that were missed) and `Doing` (what `destroyUnits` was given is gone or missed,
unless a goroutine still has to do it), it is `Whole(d)`. `DeploymentRefinementProofs` has the
mapping take the initial states to initial states (`InitMaps`) and each step of the deployer to a step of `RollingUpdate` or to a
stutter, the steps of others to stutters: `RunIsRollingUpdate`, `Spec => IsRollingUpdate`, if `Me` has its units to itself.
Other deployers may share units among themselves there.

`FleetTunnelProofs` proves, for any units, any number of callers with any programs, any
limits of the back-off and of the waiting, and any number of lost messages:

* `TunnelTypeCorrect` and `TunnelIsOrderly`: `Spec => [](TypeOK /\ Orderly)`;
* `RetriesAreHarmless`: `Spec => []RetryIsHarmless`;
* `DestroyLeavesOnlyTheMissed`, `CreationsComeFirst`, `StartedIsRunning`: the action properties
  `DestroyLeavesNothing`, `CreatedBeforeStarted` and `StartKeepsItsWord`;
* `StoppedFirst`: the action property `StoppedBeforeDestroyed`, for programs in which every Destroy comes after
  a Stop of the same units (`StopsFirst`). The tunnel itself does not see to that; `destroyUnits` does
  (`destroy.go:78-88`), which alone calls `Destroy`.

Types alone are not inductive here: what a request does to the registry is defined in the
loops only, and `WorkFits` says that requests are made nowhere else. `Orderly` says per
caller what the part of the call behind it has achieved: units found by Stop and made by
Start exist (`OwnUnitsExist`), units visited by Destroy are gone or missed
(`VisitedAreGone`), units visited by Start are to run, and those waited for run, have a
goroutine or are given up (`StartedUnitsRun`). Other callers can disturb it only through
the registry, where a step changes at most the unit it has a request for
(`RequestsChangeOneUnit`, `WhoCreatesAndDestroys`): `Own` (nobody else has these units) and
`NobodyStarts` are the conditions under which that leaves the conjuncts
alone, and they are part of the properties. `StopsItsUnits` follows a unit through Stop to
Destroy: it is yet to be visited and only agents have changed it since it was read; or it is not
to run, and is down or waited for; or Stop has returned an error. A unit that Stop found loaded
but on its way up (`SeenRising`) is outside of it, as the property says.

`InterruptibleSleepProofs` and `TerminalUIProofs`:

* `TypeCorrect`: `Spec => []TypeOK`, with any number of goroutines that sleep;
* `OwnTimerTheorem`: `Spec /\ []OneAtATime => []OnlyOwnTimerWakes`. With two sleepers at a
  time it is false (TLC finds both given one `waitID`, and the timer of one waking the other), so that the
  hypothesis is not for the proof's convenience;
* `DelaysRefined`: `UISpec => Spec`. The variables of the delays are the same in both modules: whatever
  happens between and around the delays of a run adds no behaviour to them;
* `DelaysAreTheirOwn`: `UISpec => []OnlyOwnTimerWakes` if at most one of the goroutines of `destroyUnits` sleeps
  (`OneWorkerSleeps`): the run's own delay comes after it has waited for them. Two that sleep are `two_sleepers`;
* `CloseComesLast`: `UISpec => []ClosedAfterWork`;
* `EventsComeInOrder`: `UISpec => []EventsInOrder`.

`Undisturbed` is the invariant of the delays: from the time its `waitID` is set, a call that no signal
excuses has no timer or handler left that could wake it. `Sequence` has where the run is decide where its
goroutines can be, `Shown` that what is taken and not displayed is in one hand.

`KubeSchedulerProofs` proves, for any finite set of machines, any number of replicas,
resources, secrets, processes, requests that fail and pods that break, all from `SchedulerSpec`:

* `UnitsFindTheirSecrets`: `[]AppliedWhenConfigured`. The invariant is `SecretsFit`: a secret once suitable stays so and keeps the
  namespace there, whoever is killed between two requests;
* `SchedulerTypeCorrect`: `[]SchedulerTypeOK`;
* `StartWaitsForPods`, `RotationIsOneByOne`, `RotationIsComplete`, `DestroyIsFinal`: `[]UpdatedWhenStarted`, `[]OneHostAtATime`,
  `[]RotatedWhenStarted` and `[]DestroyedIsGone`, for any task groups with any resources in them.

The last four and the types rest on one invariant, `UnitsFit`: `TypeOK`, and per resource `Flow` (a goroutine is where
its request and kind lead it, and its list has pods of its task group only), `Counts` (no more pods of a revision are
wanted than replicas; what is not there, nor to be destroyed, has nothing), `Going`
(Destroy takes first what makes pods, and what is not on its way out is on the list), `Coming` (a report of the current generation
counts no pods that are not there, and new pods are not scaled down), `Rotating` (a listed pod of the
old revision is still to be deleted or on its way out) and `Serving` (if the daemon set is alone in its group, only the machine being rotated is
without its pod by the rotation).

A step of one resource can change the pods and replica sets of another, so that each conjunct is shown twice, for the
resource that steps and for the others (`CountsKept`, `CountsOfOthersKept`, and so on). `Fate` lists what a step can make of a pod
(`WhatBecomesOfPods`): list it, delete it, or, by its own resource only, make, change or remove it. `OthersStay` says that the rest of another resource stays,
but for replica sets and what they want, which only a Destroy takes away, and `OthersPods` that a step of another marks pods
of its task group as listed or deleted, and does this only in a rotation or a Destroy. A Destroy of a sibling can only hasten what `Going` says; a
call is either a start or a destroy, so that `Coming` is out of its reach.
For `Serving` no other resource of the group may have pods: `Alone` says that there is none and that none comes, which
cannot begin to hold while the call goes on (`AloneBefore`), so that whatever has the labels of the group is the daemon set's own
(`NoPodsOfSiblings`). Processes touch no unit (`ProcessesLeaveUnits`).
`SecretAssumption`, `PodAssumption` and `NoneAssumption` say that values that stand for nothing are not among those that stand for something.

`JobPipelineProofs` proves, for every job file of any size and every cluster of either kind, all from `Spec`:

* `JobAndPodsKept` and `PipelineKeeps`: the inductive invariant;
* `PodsAreTheTies`, `PipelineTypes`, `AfterKept`, `PlacedAsAsked`, `ReferencesKept` and `NamesUnique`: `[]PodsAreTies`,
  `[]PipelineTypeOK`, `[]AfterIsKept`, `[]PlacedApart`, `[]ReferencesAreThere` and `[]NamesAreUnique`.

None of these is inductive. `PipelineInv` has six parts. `JobOK`: the job is made of lists as the file was, every
step from `Parse` to `Validate` keeps its shape, and once it is rendered it is valid, so that names of groups and of
the tasks of a group are different and what `after` and `volumes-from` name is there. `PodsOK`: the pods divide
the tasks of the group (`Parts`), the tasks of a tie that was looked at are in one pod (`Tied`), a set of
tasks that no tie leaves keeps its pods to itself (`Finest`), and in the list being
sorted the tasks before the index come after those they are to come after (`KeptUpTo`): a swap moves
a task only to a later place, where nothing has been established yet. `TodoOK`, `DepsOK` and `DoneOK`:
what is left to do lies in the job, its dependencies stay, and nothing is left in the end. `OutputOK`: on
fleet each unit is one of the units of a slice of a group and the slice is there as a whole; on kubernetes each resource is one of
those of a pod of a group, whose resources are all there, and a group that is not left to do has its pods rendered.
From `OutputOK` at the end the properties follow by what the renderers make of a group or a pod
(`SliceUnit`, `ServicesServe`): the lemmas about `GroupUnits` and `Resources`.

`OutputOK` says what is in the output, not how often. For `NamesUnique` there is one more part, `UniqueOK`: what is rendered has
different names, each group and slice is left to do once, and nothing rendered is of a group and slice that is left.
A step adds the units of a slice, told apart by task and kind (`SameUnit`), or the resources of a group's pods, told apart
by kind and by the task or pod in the name (`GroupResources`): a name is that of the group, one word and a rest, so
that equal names have the same word (`WordsCancel`). This is where the hypothesis of `NamesAreUnique`, names of one word, is needed.

Where the code goes over a list, the induction over its length would need a theorem with an operator as a parameter. The proofs
take the least exception instead (`Least`, from `WFMin` of the library's theorems on well-founded relations): if what is claimed
of the first n elements failed for some n, it would fail for a least one, which the definition of a
fold or of `FlattenSeq` at that place refutes.

The assumptions are `OrderAssumption` (the order of names has none twice, and a name is a list of words) and `FileAssumption`.

### Only model-checked

* Liveness, which the prover does not handle: `EndsOrAsks`, `RunEnds`, `CallsReturn`, `AwaitedComes`, `OthersComeBack`, `SecondAttemptCompletes`
  and `RenderingEnds`.
* An invariant of the pipeline. `AddressesAreServed` relates what `ReplaceVariable` wrote into an environment, before
  links were resolved and groups were sorted, to what is rendered much later: an invariant would have to carry for each address
  why it is served, case by case of scheme, proxy and scheduler. TLC checks it on all families of files.
* The runs that find a violation.

## Not modelled

* `DryRun` (writes files for review), the wording and drawing of messages, verbose output.
* HCL decoding, Go templates and their functions (`jobs/functions.go`), vault, the cluster file and
  the command line: text and I/O, done once before anything is deployed.
* The text of unit files, docker command lines and kubernetes resources. Whether
  two contents are equal is nondeterministic in `Deployment` and a revision in `KubeUnits`.
* Resource limits, affinities, sticky sessions, weights, users of frontends, logging and
  metrics options, except where a unit refers to another for them.
* The cache of machine states in `pkg/fleet` (`fleet.go:280`), which goroutines read and fill without
  a lock: it feeds only the text of events; a concurrent write would end the process.
* Third-party code (`deps/`) and generated code (`extpoints.go`): external, as the code uses it.

## Plan

In this order; all but the last item is done.

1. `Deployment` with `RollingUpdate` and its refinement: the heart of the program.
2. `DeploymentProofs`: types, `Coherent`, the safety that follows.
3. `InterruptibleSleep`.
4. `FleetTunnel`: retries that find their own work done, waiting for states,
   goroutines and processes that share units; its theorems.
5. `KubeUnits`, `KubeCluster` and `KubeScheduler`: rollouts, rotations, the configuration of a
   cluster with partial failure and a second attempt.
6. The job modules and `JobPipeline`: pods, order, addresses, placement, names, references.
7. `TerminalUI`: who sends to the screen, and its end.
8. Theorems about what is shared: deployers of different units, the refinement, `StoppedBeforeDestroyed`; types and
   `OnlyOwnTimerWakes` of the delays, the delays within `TerminalUI`, `ClosedAfterWork`, `EventsInOrder`; the kubernetes scheduler.
9. Theorems about `JobPipeline`: `PipelineInv`, and from it the pods, the order, the placement, the references and the names.
10. To come: `AddressesAreServed` as a theorem.
