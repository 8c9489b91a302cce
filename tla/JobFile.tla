------------------------------- MODULE JobFile -------------------------------
(***************************************************************************)
(* From a job file to a job: src/jobs/parse.go and the steps of parseJob   *)
(* that complete the structures.  A file has the shape of a job, with what *)
(* the parser takes apart left in it: a task carries a count, a global     *)
(* flag and constraints, any number of images, rewrites and metrics, and   *)
(* Absent for a number that is not written; top-level tasks are apart from *)
(* the groups.                                                             *)
(***************************************************************************)
EXTENDS JobModel

Absent == -1
Default(n, default) == IF n = Absent THEN default ELSE n

\* parseTask.parse: what the file may not say of one task.
TaskIsRefused(raw, anonymous) ==
  \/ ~anonymous /\ (Default(raw.count, 1) # 1 \/ raw.global)
  \/ raw.images > 1 \/ (raw.images = 0 /\ raw.type # "proxy")
  \/ Len(raw.metrics) > 1

ParseFrontends(private) == [i \in DOMAIN private |-> [private[i] EXCEPT !.port = Default(@, 80)]]

ParseTask(raw) ==
  [raw EXCEPT
     !.links = [i \in DOMAIN @ |-> [@[i] EXCEPT !.target = Normalize(@)]],
     !.private = ParseFrontends(@),
     !.rewrite = IF @ = <<>> THEN <<>>
                 ELSE <<FoldLeft(MergeRewrite, Head(@), Tail(@))>>]

\* TaskGroup.addTask and TaskGroup.parse number the tasks.
AtIndex(t, i) == [f \in DOMAIN t \cup {"index"} |-> IF f = "index" THEN i ELSE t[f]]

\* A task outside a group gets a group of its own, with its count and constraints.
AnonymousGroup(raw) ==
  [name |-> raw.name, count |-> Default(raw.count, 1), global |-> raw.global,
   restart |-> "", constraints |-> raw.constraints,
   tasks |-> <<AtIndex(ParseTask(raw), 0)>>]

\* TaskGroup.parse and addAll: the constraints of the tasks come first, of the last task
\* before those of the others.
AllConstraints(raw) ==
  FoldLeft(LAMBDA all, t : t.constraints \o all, raw.constraints, raw.tasks)
ParseGroup(raw) ==
  [raw EXCEPT !.count = Default(@, 1), !.constraints = AllConstraints(raw),
              !.tasks = [i \in DOMAIN @ |-> AtIndex(ParseTask(@[i]), i - 1)]]

\* addAll adds task by task to what the tasks before have asked for.
TasksDisagree(raw) ==
  \E i, k \in DOMAIN raw.tasks :
    i < k /\ CannotAdd(raw.tasks[i].constraints, raw.tasks[k].constraints)

FileIsRefused(f) ==
  \/ Duplicate(f.tasks) \/ Duplicate(f.groups)
  \/ \E t \in ToSet(f.tasks) : TaskIsRefused(t, TRUE)
  \/ \E g \in ToSet(f.groups) :
       \/ Duplicate(g.tasks) \/ TasksDisagree(g)
       \/ \E t \in ToSet(g.tasks) : TaskIsRefused(t, FALSE)

ParseJob(f) ==
  [name |-> f.name, id |-> f.id, constraints |-> f.constraints,
   deps |-> [i \in DOMAIN f.deps |-> [f.deps[i] EXCEPT !.private = ParseFrontends(@)]],
   groups |-> [i \in DOMAIN f.tasks |-> AnonymousGroup(f.tasks[i])]
              \o [i \in DOMAIN f.groups |-> ParseGroup(f.groups[i])]]

-----------------------------------------------------------------------------
(* The steps of parseJob on the whole job; EachTask changes every task.    *)

EachGroup(j, Op(_)) == [j EXCEPT !.groups = [i \in DOMAIN @ |-> Op(@[i])]]
EachTask(j, Op(_, _)) ==
  EachGroup(j, LAMBDA g : [g EXCEPT !.tasks = [i \in DOMAIN @ |-> Op(g, @[i])]])

SetDefaults(j, cluster) ==
  EachTask(j, LAMBDA g, t :
    [t EXCEPT !.type = IF @ = "" THEN "service" ELSE @,
              !.network = CASE @ # "" -> @
                            [] @ = "" /\ cluster.network # "" -> cluster.network
                            [] OTHER -> "default"])

\* Job.link: links are resolved in their task, and groups and tasks sorted.
ResolveLinks(j) ==
  EachTask(j, LAMBDA g, t :
    [t EXCEPT !.target = ResolveLink(@, j, g, t),
              !.links = [i \in DOMAIN @ |->
                           [@[i] EXCEPT !.target = ResolveLink(@, j, g, t)]]])

Link(j) ==
  LET groups == ResolveLinks(j).groups
      TaskLists == {ts \in [DOMAIN groups -> UNION {Sortings(g.tasks, ByName) : g \in ToSet(groups)}] :
                      \A i \in DOMAIN groups : ts[i] \in Sortings(groups[i].tasks, ByName)}
      With(ts) == [i \in DOMAIN groups |-> [groups[i] EXCEPT !.tasks = ts[i]]]
  IN  {[j EXCEPT !.groups = gs] : gs \in UNION {Sortings(With(ts), ByName) : ts \in TaskLists}}

\* Mutant: the count of a global group is left as it is.
OptimizeForAny(j, cluster) == j

\* Job.optimizeFor: no more global instances than machines.
OptimizeFor(j, cluster) ==
  EachGroup(j, LAMBDA g :
    IF g.global /\ g.count > cluster.instances THEN [g EXCEPT !.count = cluster.instances] ELSE g)

\* NormalizeTask of the kubernetes renderer; that of fleet does nothing.
NormalizeTasks(j, cluster) ==
  IF ~cluster.kube THEN j
  ELSE EachTask(j, LAMBDA g, t :
         [t EXCEPT !.network = IF @ \in {"weave", "default"} THEN "default" ELSE @])
=============================================================================
