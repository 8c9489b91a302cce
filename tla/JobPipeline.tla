---------------------------- MODULE JobPipeline ----------------------------
(***************************************************************************)
(* From a job file to the units of a scheduler: parseJob (src/jobs) and    *)
(* then GenerateUnits of the renderer of the cluster (src/render).  What   *)
(* j2 does in the order of a map (the variables of a task's environment,   *)
(* the pods of a group) is done here in any order.                         *)
(***************************************************************************)
EXTENDS JobVariables, FiniteSets

CONSTANT File   \* the job files, each with its cluster and the groups asked for

FileAssumption ==
  \A f \in File :
    /\ f.cluster.kube \in BOOLEAN /\ f.cluster.instances \in Nat
    /\ AreTasks(f.tasks) /\ \A t \in ToSet(f.tasks) : t.count \in Int
    /\ AreGroups(f.groups) /\ IsList(f.deps)
ASSUME FileAssumption

VARIABLES
  file,     \* constant: the file and its cluster
  stage,    \* what is being done; at the end "done", "refused" or "panic"
  job,      \* the job made of the file
  todo,     \* what the stage has still to do, in order
  pending,  \* the variables of the environment of the task that are not replaced
  errors,   \* ctx.errors is not empty
  pods,     \* groupTaskIntoPods: the tasks of the group in pods
  ties,     \* the pairs of tasks that are still to come together in a pod
  sorted,   \* the pods that are sorted, by index
  sorting,  \* sortTasks: the pod, its tasks and the index i
  output    \* the units that are rendered

parseVars == <<job, pending, errors>>
podVars == <<pods, ties, sorted, sorting>>
pipelineVars == <<file, stage, todo, parseVars, podVars, output>>

Cluster == file.cluster
NoPod == [pod |-> 0, tasks |-> <<>>, i |-> 0]

Init ==
  /\ file \in File
  /\ stage = "parse"
  /\ job = [name |-> <<>>, groups |-> <<>>]
  /\ todo = <<>> /\ pending = {} /\ errors = FALSE
  /\ pods = [of |-> <<>>, members |-> <<>>] /\ ties = <<>> /\ sorted = <<>> /\ sorting = NoPod
  /\ output = <<>>

End(how) == stage' = how /\ UNCHANGED <<file, todo, parseVars, podVars, output>>

-----------------------------------------------------------------------------
(* parseJob.                                                               *)

Positions(j) ==
  FlattenSeq([i \in DOMAIN j.groups |-> [k \in DOMAIN j.groups[i].tasks |-> <<i, k>>]])
TaskAt(j, p) == j.groups[p[1]].tasks[p[2]]
Uses(j, ps) == IF ps = <<>> THEN {} ELSE DOMAIN TaskAt(j, ps[1]).env

Parse ==
  /\ stage = "parse"
  /\ IF FileIsRefused(file) THEN End("refused")
     ELSE /\ stage' = "replace"
          /\ job' = SetDefaults(ParseJob(file), Cluster)
          /\ todo' = Positions(job')
          /\ pending' = Uses(job', todo')
          /\ UNCHANGED <<file, errors, podVars, output>>

\* replaceStringMap replaces the values of a map, in the order it happens to have.
ReplaceVariable(k) ==
  LET g == job.groups[todo[1][1]]
      t == TaskAt(job, todo[1])
      r == ReplaceUse(Cluster, job, g, t, t.env[k])
  IN  /\ stage = "replace" /\ todo # <<>> /\ k \in pending
      /\ IF r.end = "panic" THEN End("panic")
         ELSE /\ job' = [job EXCEPT !.groups[todo[1][1]].tasks[todo[1][2]] =
                           [t EXCEPT !.env[k] = r.value,
                                     !.links = IF r.links = <<>> THEN @ ELSE AddLink(@, Head(r.links))]]
              /\ pending' = pending \ {k}
              /\ errors' = (errors \/ r.end = "error")
              /\ UNCHANGED <<file, stage, todo, podVars, output>>

EndReplaceTask ==
  LET g == job.groups[todo[1][1]] IN
  /\ stage = "replace" /\ todo # <<>> /\ pending = {}
  /\ IF errors THEN End("refused")
     ELSE /\ job' = [job EXCEPT !.groups[todo[1][1]].tasks[todo[1][2]] = ReplaceTask(@, job, g)]
          /\ todo' = Tail(todo)
          /\ pending' = Uses(job', todo')
          /\ UNCHANGED <<file, stage, errors, podVars, output>>

\* GenerateUnits: kubernetes renders the first scaling group only, fleet each one.
Rendered(j) ==
  FlattenSeq([n \in 1..IF Cluster.kube THEN 1 ELSE MaxCount(j) |->
                [k \in DOMAIN j.groups |-> [group |-> k, slice |-> n]]])

Validate ==
  /\ stage = "replace" /\ todo = <<>>
  /\ \E linked \in Link(job) : job' = NormalizeTasks(OptimizeFor(linked, Cluster), Cluster)
  /\ IF JobIsValid(job') THEN stage' = "render" /\ todo' = Rendered(job')
     ELSE stage' = "refused" /\ UNCHANGED todo
  /\ UNCHANGED <<file, pending, errors, podVars, output>>

-----------------------------------------------------------------------------
(* GenerateUnits of the fleet renderer.                                    *)

Group == job.groups[todo[1].group]
Included(g) == file.selected = {} \/ g.name \in file.selected

SkipGroup ==
  /\ stage = "render" /\ todo # <<>> /\ ~Included(Group)
  /\ todo' = Tail(todo)
  /\ UNCHANGED <<file, stage, parseVars, podVars, output>>

RenderUnits ==
  /\ stage = "render" /\ ~Cluster.kube /\ todo # <<>> /\ Included(Group)
  /\ IF todo[1].slice <= Group.count /\ UnitsFail(job, Group, Cluster) THEN End("refused")
     ELSE /\ output' = IF todo[1].slice > Group.count THEN output
                       ELSE output \o GroupUnits(job, Group, todo[1].slice, Cluster)
          /\ todo' = Tail(todo)
          /\ UNCHANGED <<file, stage, parseVars, podVars>>

Done == stage = "render" /\ todo = <<>> /\ End("done")

-----------------------------------------------------------------------------
(* GenerateUnits of the kubernetes renderer: groupTaskIntoPods, and then   *)
(* the resources of each pod.                                              *)

Sorted(p) == p \in DOMAIN sorted
Pods == {pods.of[n] : n \in DOMAIN pods.of}

\* restart = "all" puts all tasks in one pod, in the order of the group.
OnePod ==
  /\ stage = "render" /\ Cluster.kube /\ todo # <<>> /\ Included(Group) /\ Group.restart = "all"
  /\ stage' = "pods"
  /\ pods' = [of |-> [n \in Names(Group.tasks) |-> 1], members |-> <<Group.tasks>>]
  /\ sorted' = <<Group.tasks>>
  /\ UNCHANGED <<file, todo, parseVars, ties, sorting, output>>

OwnPods ==
  /\ stage = "render" /\ Cluster.kube /\ todo # <<>> /\ Included(Group) /\ Group.restart # "all"
  /\ stage' = "ties"
  /\ pods' = OnePodEach(Group)
  /\ ties' = Ties(Group)
  /\ sorted' = <<>>
  /\ UNCHANGED <<file, todo, parseVars, sorting, output>>

TiePods ==
  /\ stage = "ties" /\ ties # <<>>
  /\ pods' = JoinPods(pods, ties[1][1], ties[1][2])
  /\ ties' = Tail(ties)
  /\ UNCHANGED <<file, stage, todo, parseVars, sorted, sorting, output>>

EndTies ==
  /\ stage = "ties" /\ ties = <<>>
  /\ stage' = "pods"
  /\ UNCHANGED <<file, todo, parseVars, podVars, output>>

\* Mutant: sorting begins before the first task.
PickPodAtZero(p) ==
  /\ stage = "pods" /\ sorting = NoPod
  /\ p \in Pods /\ ~Sorted(p)
  /\ \E tasks \in Sortings(pods.members[p], ByName) :
       sorting' = [pod |-> p, tasks |-> tasks, i |-> 0]
  /\ UNCHANGED <<file, stage, todo, parseVars, pods, ties, sorted, output>>

\* The pods are taken from a map; sortTasks sorts the tasks of one by name first.
PickPod(p) ==
  /\ stage = "pods" /\ sorting = NoPod
  /\ p \in Pods /\ ~Sorted(p)
  /\ \E tasks \in Sortings(pods.members[p], ByName) :
       sorting' = [pod |-> p, tasks |-> tasks, i |-> 1]
  /\ UNCHANGED <<file, stage, todo, parseVars, pods, ties, sorted, output>>

\* Mutant: the tasks it has volumes of are to come first as well.
SwapWithVolumes(tasks, i) ==
  LET others == tasks[i].after \o tasks[i].volumesFrom
      k == SelectInSeq(others, LAMBDA n : Index(tasks, n) > i)
  IN  IF k = 0 THEN 0 ELSE Index(tasks, others[k])

SwapWith(tasks, i) ==
  LET k == SelectInSeq(tasks[i].after, LAMBDA n : Index(tasks, n) > i)
  IN  IF k = 0 THEN 0 ELSE Index(tasks, tasks[i].after[k])

WithPod(p, tasks) ==
  [q \in DOMAIN sorted \cup {p} |-> IF q = p THEN tasks ELSE sorted[q]]

\* Mutant: the task that comes here by a swap is not looked at.
SortTasksOnce ==
  LET tasks == sorting.tasks
      i == sorting.i
      other == SwapWith(tasks, i)
      swapped == [tasks EXCEPT ![i] = tasks[other], ![other] = tasks[i]]
  IN  /\ stage = "pods" /\ sorting # NoPod
      /\ IF i > Len(tasks)
         THEN sorted' = WithPod(sorting.pod, tasks) /\ sorting' = NoPod
         ELSE /\ sorting' = [sorting EXCEPT !.i = i + 1,
                                            !.tasks = IF other # 0 THEN swapped ELSE @]
              /\ UNCHANGED sorted
      /\ UNCHANGED <<file, stage, todo, parseVars, pods, ties, output>>

\* One round of sortTasks: a task changes places with the first one that it is to come
\* after and that comes later; the one that comes here is looked at next.
SortTasks ==
  LET tasks == sorting.tasks
      i == sorting.i
      other == SwapWith(tasks, i)
      swapped == [tasks EXCEPT ![i] = tasks[other], ![other] = tasks[i]]
  IN  /\ stage = "pods" /\ sorting # NoPod
      /\ IF i > Len(tasks)
         THEN sorted' = WithPod(sorting.pod, tasks) /\ sorting' = NoPod
         ELSE /\ sorting' = IF other # 0 THEN [sorting EXCEPT !.tasks = swapped]
                            ELSE [sorting EXCEPT !.i = i + 1]
              /\ UNCHANGED sorted
      /\ UNCHANGED <<file, stage, todo, parseVars, pods, ties, output>>

PodList ==
  LET Name(p) == IF Group.restart = "all" THEN Group.name ELSE PodName(Group, sorted[p])
  IN  FlattenSeq([p \in DOMAIN Group.tasks |->
                    IF Sorted(p) THEN <<[name |-> Name(p), tasks |-> sorted[p]]>> ELSE <<>>])

RenderPods ==
  /\ stage = "pods" /\ sorting = NoPod /\ \A p \in Pods : Sorted(p)
  /\ IF \E p \in ToSet(PodList) : ~PodIsValid(p.tasks) \/ ResourcesFail(job, Group, p)
     THEN End("refused")
     ELSE /\ output' = output \o FlattenSeq([i \in DOMAIN PodList |->
                                               Resources(job, Group, PodList[i])])
          /\ stage' = "render"
          /\ todo' = Tail(todo)
          /\ UNCHANGED <<file, parseVars, podVars>>

-----------------------------------------------------------------------------
IsEnded == stage \in {"done", "refused", "panic"}
Ended == IsEnded /\ UNCHANGED pipelineVars

Steps ==
  \/ Parse \/ EndReplaceTask \/ Validate \/ RenderUnits \/ Done
  \/ SkipGroup \/ OnePod \/ OwnPods \/ TiePods \/ EndTies \/ SortTasks \/ RenderPods
  \/ \E k \in pending : ReplaceVariable(k)
  \/ \E p \in Pods : PickPod(p)

Next == Steps \/ Ended

\* One process, which runs until it ends: WF_pipelineVars(Steps), with IsEnded in place of
\* ~ENABLED <<Steps>>_pipelineVars.  Each step changes a variable, and without deadlock one
\* is possible until the end.
Fairness == []<>IsEnded \/ []<><<Steps>>_pipelineVars

Spec == Init /\ [][Next]_pipelineVars /\ Fairness

-----------------------------------------------------------------------------
(* Properties.                                                             *)

\* What the variables hold at each stage.
PipelineTypeOK ==
  /\ stage \in {"parse", "replace", "render", "ties", "pods", "done", "refused", "panic"}
  /\ \A p \in ToSet(todo) : stage = "replace" => p \in ToSet(Positions(job))
  /\ pending # {} => pending \subseteq Uses(job, todo)
  /\ errors \in BOOLEAN
  /\ \A p \in DOMAIN sorted : Names(sorted[p]) \subseteq DOMAIN pods.of
  /\ sorting # NoPod => sorting.pod \in Pods /\ sorting.i \in 1..Len(sorting.tasks) + 1
  /\ \A u \in ToSet(output) : IF Cluster.kube
       THEN u.kind \in {"deployment", "daemonset", "job", "secret", "service", "ingress"}
       ELSE u.name.type \in {"service", "timer"}

\* The names that tasks give lead in a circle: some tasks all name one of themselves.
HasCycle(g, names(_)) ==
  \E S \in SUBSET Names(g.tasks) :
    S # {} /\ \A n \in S : S \cap ToSet(names(Get(g.tasks, n))) # {}
After(t) == t.after
Others(t) == t.after \o t.volumesFrom

\* groupTaskIntoPods: two tasks are in one pod exactly when after and volumes-from connect
\* them, through whichever other tasks (tied tasks are in one pod, and what no tie leaves keeps
\* its pods to itself), and every task of a pod is in it once, also after it is sorted.  A task
\* left behind when two pods become one would be rendered in a pod that is not started with
\* the others, or twice.
PodsAreTies ==
  stage = "pods" /\ Group.restart # "all" =>
    LET tasks == Names(Group.tasks)
        Near(n) == {m \in tasks : \/ m \in ToSet(Others(Get(Group.tasks, n)))
                                  \/ n \in ToSet(Others(Get(Group.tasks, m)))}
        Pod(n) == {m \in tasks : pods.of[m] = pods.of[n]}
    IN  /\ \A n \in tasks : Near(n) \subseteq Pod(n)
        /\ \A S \in SUBSET tasks :
             (\A n \in S : Near(n) \subseteq S) => \A n \in S : Pod(n) \subseteq S
        /\ \A p \in DOMAIN sorted :
             /\ Names(sorted[p]) = {n \in tasks : pods.of[n] = p}
             /\ ~Duplicate(sorted[p])

\* The order of after: on kubernetes no task of a sorted pod comes before one it is to come
\* after, whatever the swaps have moved; on fleet the units of a slice start after all units
\* of the tasks before, and never wait for themselves in a circle of units if the tasks do
\* not.
AfterIsKept ==
  /\ stage = "pods" /\ Group.restart # "all" =>
       \A p \in DOMAIN sorted : \A i, k \in DOMAIN sorted[p] :
         i < k => sorted[p][k].name \notin ToSet(sorted[p][i].after)
  /\ stage = "done" /\ ~Cluster.kube =>
       LET units == ToSet(output)
           Before(u) == {v \in units : v.name \in u.after}
           Of(g, t, n) == {u \in units : u.name.task = <<job.name, g.name, t.name>>
                                          /\ u.name.type = "service" /\ u.slice = n}
       IN  \A g \in ToSet(job.groups) :
             /\ \A t \in ToSet(g.tasks) : \A n \in 1..g.count : \A m \in ToSet(t.after) :
                  \A u \in Of(g, t, n) : Of(g, Get(g.tasks, m), n) \subseteq Before(u)
             /\ ~HasCycle(g, Others) =>
                  \A S \in SUBSET {u \in units : u.name.task[2] = g.name} :
                    S # {} => \E u \in S : S \cap Before(u) = {}

\* A file is rendered or refused: sortTasks, which goes on with the same task after each
\* swap, comes to an end for every pod unless a task is to come after itself.
RenderingEnds ==
  <>(IsEnded \/ /\ stage \in {"render", "ties", "pods"}
                /\ \E g \in ToSet(job.groups) : HasCycle(g, After))

-----------------------------------------------------------------------------
(* What is rendered at the end.                                            *)

OfKind(kind) == {u \in ToSet(output) : u.kind = kind}
AllTasks == UNION {{[group |-> g, task |-> t] : t \in ToSet(g.tasks)} : g \in ToSet(job.groups)}
MainOf(f) == {u \in ToSet(output) : u.name.kind = <<"mn">>
                                    /\ u.name.task = <<job.name, f.group.name, f.task.name>>}

\* The task a link leads to, and the one that a proxy stands for.
Linked(ln) ==
  LET r == Resolve(ln, job)
  IN  {f \in AllTasks : r.to = "task" /\ r.group = f.group /\ r.task = f.task}
StandsFor(f) == IF f.task.type = "proxy" THEN Linked(f.task.target) ELSE {f}

\* The resource names that a name leads to by aliases, and the tasks it reaches so.
Aliases(h) ==
  LET Leads(x) == UNION {ToSet(s.alias) : s \in {s \in OfKind("service") :
                                                   x = [svc |-> s.name, ns |-> job.name]}}
  IN  Closure({h}, {h} \cup UNION {ToSet(s.alias) : s \in OfKind("service")}, Leads)
PodsAt(h) == {s.pod : s \in {s \in OfKind("service") :
                               [svc |-> s.name, ns |-> job.name] \in Aliases(h)}}
Runs(c, f) == \E k \in ToSet(c.spec.containers) : k.name = FullName(job, f.group, f.task)
Reaches(h, f) ==
  \E c \in OfKind("deployment") \cup OfKind("daemonset") : c.pod \in PodsAt(h) /\ Runs(c, f)

\* The records that make the load-balancer serve a domain for a mode.
RecordsFor(domain, mode) ==
  LET all == UNION {ToSet(u.records) : u \in IF Cluster.kube THEN OfKind("ingress")
                                             ELSE ToSet(output)}
  IN  {r \in all : r.key[3] = mode /\ \E s \in ToSet(r.selectors) : s.domain = domain}

\* By the load-balancer: a record rewrites what proxy f asks for and leads to task to.
Balanced(a, f, to) ==
  \E r \in RecordsFor(a.host, a.scheme) :
    /\ r.rewrite = f.task.rewrite
    /\ IF Cluster.kube THEN Reaches(r.service[1], to)
       ELSE /\ r.service[1] = TaskLink(job, to.group, to.task)
            /\ a.for.inst # 0 => r.service[2] = a.for.inst

\* Directly, which does all that proxy f does if it adds a path at most.
Direct(a, f, to) ==
  /\ \/ f.task.type = "service" \/ f.task.rewrite = <<>>
     \/ f.task.rewrite[1] = [prefix |-> a.path, remove |-> "", domain |-> ""]
  /\ IF Cluster.kube
     THEN /\ Reaches(a.host, to)
          /\ a.scheme = "http" /\ f = to =>
               \E s \in OfKind("service") : s.name = a.host.svc /\ a.port \in s.ports
     ELSE \E u \in MainOf(to) : a.host \in ToSet(u.hostname)

\* link_url and link_tcp: the address that a task is given for a task of its own job leads to
\* that task, or to the one that the proxy it names stands for: directly by a name the
\* cluster serves and a port the task has, or over the load-balancer, which then has a record
\* that asks for the same rewriting; and on fleet the container of the task that uses it is
\* told where that host is.  The linked task has a frontend for it; links to one instance are
\* for fleet, and to a proxy of a proxy for neither.
AddressesAreServed ==
  stage = "done" /\ file.selected = {} =>
    \A user \in AllTasks : \A a \in {v \in ToSet(user.task.env) : v.kind = "address"} :
      \A f \in Linked(a.for @@ [parts |-> <<>>]) : \A to \in StandsFor(f) :
        /\ to.task.type = "service" /\ HasService(to.task)
        /\ \E p \in ToSet(f.task.private) :
             (p.mode = "tcp") = (a.scheme = "tcp") /\ (a.for.inst # 0 => p.register)
        => \/ Direct(a, f, to)
           \/ /\ Balanced(a, f, to)
              /\ IF Cluster.kube
                 THEN "svc" \in DOMAIN a.host => LoadBalancer \in Aliases(a.host)
                 ELSE \A u \in MainOf(user) : a.host \in u.hosts

\* Fleet conflicts: a pattern and a name.
Matches(pattern, name) ==
  [pattern EXCEPT !.at = name.at] = name /\ (pattern.at = name.at \/ (pattern.at = AnySlice /\ name.at # 0))
Apart(u, v) ==
  \/ \E p \in u.conflicts : Matches(p, v.name)
  \/ \E p \in v.conflicts : Matches(p, u.name)
  \/ u.instance # <<>> /\ v.instance # <<>> /\ u.instance # v.instance

\* setupInstanceConstraints, optimizeFor, setupConstraints and the joining of the units of a
\* slice: on a cluster of several machines the instances of a task are on different ones, so
\* that none goes with another, and no two units on a machine run a container of one name; a
\* group keeps away from the group that a constraint names; and the units of one slice, which
\* fleet is to put on one machine, never exclude each other.
PlacedApart ==
  stage = "done" /\ ~Cluster.kube =>
    \A u, v \in {u \in ToSet(output) : u.name.type = "service"} : u # v =>
      LET same == u.name.task[2] = v.name.task[2]
          g == Get(job.groups, u.name.task[2])
          own == {c \in ToSet(MergedConstraints(job, g)) : Head(c.name) = "taskgroup"}
      IN  /\ u.container = v.container => Apart(u, v)
          /\ same /\ u.slice = v.slice /\ ~(\E c \in own : c.value = g.name) => ~Apart(u, v)
          /\ same /\ u.slice = v.slice /\ ~g.global =>
               \E first \in (u.machineOf \cup {u.name}) \cap (v.machineOf \cup {v.name}) :
                 \E w \in ToSet(output) : w.name = first
          /\ u.name.task = v.name.task /\ u.name.kind = v.name.kind /\ Cluster.instances > 1
             => Apart(u, v)
          /\ \A c \in own : c.value = v.name.task[2] /\ v.name.kind = <<"mn">> => Apart(u, v)

\* Names that are made of the names of groups and tasks, cut or joined: no two resources,
\* units, containers of a pod or records of a job have the same, as what comes second would
\* replace what came first.  Names without "_", which becomes the "-" that joins names.
NamesAreUnique ==
  stage = "done" /\ (\A f \in AllTasks : Len(f.group.name) = 1 /\ Len(f.task.name) = 1) =>
    LET Key(u) == IF Cluster.kube THEN <<u.kind, u.name>> ELSE u.name
        Records(u) == IF ~Cluster.kube \/ u.kind = "ingress" THEN u.records ELSE <<>>
        keys == FlattenSeq([i \in DOMAIN output |->
                  [k \in DOMAIN Records(output[i]) |-> Records(output[i])[k].key]])
    IN  /\ IsInjective([i \in DOMAIN output |-> Key(output[i])])
        /\ IsInjective(keys)
        /\ Cluster.kube =>
             \A c \in OfKind("deployment") \cup OfKind("daemonset") \cup OfKind("job") :
               ~Duplicate(c.spec.init \o c.spec.containers)

\* A frontend or proxy of one leads to what has a service.
Serves(f) == f.task.type = "proxy" \/ HasService(f.task)
FrontendsServe ==
  \A f \in AllTasks : HasFrontends(f.task) => \A to \in {f} \cup Linked(f.task.target) : Serves(to)

\* What a container refers to is there when it starts.  On kubernetes: the volumes it mounts
\* are volumes of its pod, and its secret, and the service behind an ingress, are rendered (if
\* what has frontends, and what its proxies lead to, is no oneshot and has a port).  On fleet:
\* the containers it has volumes of or links to are run by units that its unit needs and starts
\* after, directly or through others, and the files of secrets it reads are made by its unit
\* (for secrets with a file or a variable, not with both).
ReferencesAreThere ==
  stage = "done" =>
    IF Cluster.kube
    THEN /\ \A c \in OfKind("deployment") \cup OfKind("daemonset") \cup OfKind("job") :
              \A k \in ToSet(c.spec.init \o c.spec.containers) :
                /\ k.mounts \subseteq c.spec.volumes
                /\ k.secret # <<>> => k.secret \in {s.name : s \in OfKind("secret")}
         /\ \A i \in OfKind("ingress") : \A r \in ToSet(i.rules) :
              r.backend.ns = job.name /\ file.selected = {} /\ FrontendsServe =>
                r.backend.svc \in {s.name : s \in OfKind("service")}
    ELSE \A u \in ToSet(output) :
      LET Named(names) == {v \in ToSet(output) : v.name \in names}
          Needs(S) == S \cup UNION {Named(x.requires) : x \in S}
          Earlier(S) == S \cup UNION {Named(x.after) : x \in S}
      IN  /\ u.uses \subseteq UNION {ToSet(v.container) :
                                      v \in Needs(Needs({u})) \cap Earlier(Earlier({u}))}
          /\ u.reads \subseteq u.makes
             \/ \E f \in AllTasks : /\ u.name.task = <<job.name, f.group.name, f.task.name>>
                                   /\ \E s \in ToSet(f.task.secrets) : s.file # "" /\ s.env # ""
=============================================================================
