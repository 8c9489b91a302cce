------------------------------ MODULE JobModel ------------------------------
(***************************************************************************)
(* The data of a job and the functions on it: src/jobs.                    *)
(*                                                                         *)
(* A name is the sequence of the words that "_" joins, so that a resource  *)
(* name, where "_" and "/" become "-", is a concatenation.  A string that  *)
(* may be empty is "" (or <<>>, for a name), a pointer that may be nil is  *)
(* a sequence of length at most 1.                                         *)
(***************************************************************************)
EXTENDS Integers, Sequences, SequencesExt, TLC

CONSTANT Order   \* the names that match the patterns of names, as strings sort

\* The lists of src/jobs: the groups of a job, their tasks and what these have several of.
IsList(s) == s \in Seq(ToSet(s))

OrderAssumption ==
  /\ \A i, j \in DOMAIN Order : Order[i] = Order[j] => i = j
  /\ \A n \in ToSet(Order) : IsList(n)
ASSUME OrderAssumption

ListFields == {"after", "volumesFrom", "links", "volumes", "secrets", "public", "private"}
IsTask(t) == ListFields \cup {"name", "env"} \subseteq DOMAIN t /\ \A f \in ListFields : IsList(t[f])
AreTasks(s) == IsList(s) /\ \A t \in ToSet(s) : IsTask(t)
IsGroup(g) ==
  {"name", "count", "global", "tasks"} \subseteq DOMAIN g /\ g.count \in Int /\ AreTasks(g.tasks)
AreGroups(s) == IsList(s) /\ \A g \in ToSet(s) : IsGroup(g)

IsName(n) == n \in ToSet(Order)
Position(n) == SelectInSeq(Order, LAMBDA m : m = n)

\* TaskList.Less, TaskGroupList.Less, Constraints.Less
ByName(x, y) == Position(x.name) < Position(y.name)

Duplicate(s) == \E i, j \in DOMAIN s : i # j /\ s[i].name = s[j].name
Index(s, n) == SelectInSeq(s, LAMBDA x : x.name = n)  \* 0 when there is none
Known(s, n) == Index(s, n) # 0
Get(s, n) == s[Index(s, n)]

\* What sort.Sort may make of s: it is not stable, so that what is equal may change places.
Sortings(s, Less(_, _)) ==
  {[i \in DOMAIN s |-> s[p[i]]] :
     p \in {p \in Bijection(DOMAIN s, DOMAIN s) :
              \A i, k \in DOMAIN s : i < k => ~Less(s[p[k]], s[p[i]])}}

\* What set S leads to in set U.
Closure(S, U, Step(_)) ==
  {x \in U : \A C \in SUBSET U : S \subseteq C /\ (\A y \in C : Step(y) \subseteq C) => x \in C}

-----------------------------------------------------------------------------
(* Link names: job.task[@instance] and job.group.task[@instance].  An      *)
(* instance is a number, 0 when there is none.                             *)

NoLink == [parts |-> <<>>, inst |-> 0]

LinkName(job, group, task, inst) == [parts |-> <<job, group, task>>, inst |-> inst]

\* parse returns empty names when the number of parts is wrong, and with every
\* other error the names as they are.
ParseLink(ln) ==
  LET known == Len(ln.parts) \in {2, 3} IN
  [job |-> IF known THEN ln.parts[1] ELSE <<>>,
   group |-> IF known THEN ln.parts[2] ELSE <<>>,
   task |-> IF known THEN Last(ln.parts) ELSE <<>>,
   inst |-> ln.inst,
   ok |-> known /\ \A n \in ToSet(ln.parts) : IsName(n)]

Normalize(ln) ==
  LET p == ParseLink(ln) IN IF p.ok THEN LinkName(p.job, p.group, p.task, p.inst) ELSE ln

\* What a link name leaves out is taken from the task it is used in: Task.resolveLink
\* and, for the variables, findTarget.
ResolveLink(ln, j, g, t) ==
  LET p == ParseLink(ln)
      Or(n, default) == IF n = <<>> THEN default ELSE n
  IN  IF ln = NoLink THEN ln
      ELSE LinkName(Or(p.job, j.name), Or(p.group, g.name), Or(p.task, t.name), p.inst)

\* LinkName.Resolve: the task or the dependency a link leads to.
Resolve(ln, j) ==
  LET p == ParseLink(ln) IN
  CASE ~p.ok -> [to |-> "nothing"]
    [] p.ok /\ p.job # j.name /\ Known(j.deps, ln) ->
         [to |-> "dependency", dep |-> Get(j.deps, ln)]
    [] p.ok /\ p.job = j.name /\ Known(j.groups, p.group)
         /\ Known(Get(j.groups, p.group).tasks, p.task) ->
         [to |-> "task", group |-> Get(j.groups, p.group),
          task |-> Get(Get(j.groups, p.group).tasks, p.task)]
    [] OTHER -> [to |-> "nothing"]

TaskLink(j, g, t) == LinkName(j.name, g.name, t.name, 0)

\* The names a link has in the private domain, which robin serves.
PrivateDomainName(ln) ==
  LET p == ParseLink(ln) IN [private |-> <<p.job, p.group, p.task>>, inst |-> p.inst]

LinkIsValid(l) ==
  /\ ParseLink(l.target).ok
  /\ l.type \in {"", "http", "tcp"}
  /\ (l.type = "tcp") = (l.ports # <<>>)

\* Links.Add
AddLink(list, l) == IF l \in ToSet(list) THEN list ELSE Append(list, l)

-----------------------------------------------------------------------------
(* Constraints: [name, value, op], by the name of their attribute.         *)

OperatorEquals(c, op) == (IF c.op = "" THEN "==" ELSE c.op) = op
Conflicts(c, d) == (c.name = d.name /\ c.value # d.value) \/ c.op # d.op

\* Constraints.Add refuses two values for one attribute.
CannotAdd(list, extra) ==
  \E c \in ToSet(list) : Known(extra, c.name) /\ Conflicts(c, Get(extra, c.name))
Merge(list, extra) == extra \o SelectSeq(list, LAMBDA c : ~Known(extra, c.name))

MergedConstraints(j, g) == Merge(j.constraints, g.constraints)

ConstraintsAreValid(list) ==
  /\ ~Duplicate(list)
  /\ \A c \in ToSet(list) : c.name # <<>> /\ c.op \in {"", "==", "!="}

-----------------------------------------------------------------------------
(* Frontends, rewrites, ports, secrets and volumes.                        *)

\* PrivateFrontEndPort, PublicFrontEndPort: the first that is not 0.
PortOf(frontends, default) ==
  LET ports == SelectSeq(frontends, LAMBDA f : f.port # 0)
  IN  IF ports = <<>> THEN default ELSE ports[1].port

\* Mutant: a rewrite to another domain counts as a prefix.
HasPathPrefix(r) == r.prefix # "" /\ r.remove = ""

HasPathPrefixOnly(r) == r.prefix # "" /\ r.remove = "" /\ r.domain = ""

\* Rewrite.Merge: what is given first prevails.
MergeRewrite(r, other) ==
  [f \in {"prefix", "remove", "domain"} |-> IF r[f] = "" THEN other[f] ELSE r[f]]

PublicIsValid(f) ==
  /\ f.cert => f.domain # ""
  /\ f.mode \in {"", "http", "tcp"}
  /\ f.mode = "tcp" => /\ (f.domain = "") = (f.hostPort # 0)
                       /\ f.path = "" \/ f.hostPort = 0

PortIsValid(p) ==
  p.host \in 0..65535 /\ p.container \in 1..65535 /\ p.protocol \in {"tcp", "udp"}

SecretIsValid(s) == s.file # "" \/ s.env # ""

HasRWHostVolume(t) == \E v \in ToSet(t.volumes) : v.type = "local" /\ ~v.ro

-----------------------------------------------------------------------------
(* Validation.                                                             *)

TaskIsValid(t, g) ==
  LET tcp == \E f \in ToSet(t.private) : f.mode = "tcp"
      http == t.public # <<>> \/ \E f \in ToSet(t.private) : f.mode # "tcp"
  IN  /\ IsName(t.name)
      /\ t.type \in {"service", "oneshot", "proxy"}
      /\ \A n \in ToSet(t.after \o t.volumesFrom) : Known(g.tasks, n)
      /\ t.network \in {"default", "host", "weave"}
      /\ \A l \in ToSet(t.links) : LinkIsValid(l)
      /\ \A p \in ToSet(t.ports) : PortIsValid(p)
      /\ \A f \in ToSet(t.public) : PublicIsValid(f)
      /\ \A f \in ToSet(t.private) : f.mode \in {"", "http", "tcp"}
      /\ ~(tcp /\ http)
      /\ \A s \in ToSet(t.secrets) : SecretIsValid(s)
      /\ t.timer => t.type = "oneshot"
      /\ (t.target # NoLink) = (t.type = "proxy")

GroupIsValid(g) ==
  /\ IsName(g.name)
  /\ g.count > 0
  /\ g.tasks # <<>> /\ ~Duplicate(g.tasks)
  /\ \A t \in ToSet(g.tasks) : TaskIsValid(t, g)
  /\ ConstraintsAreValid(g.constraints)
  /\ g.restart \in {"", "all"}

DependencyIsValid(d) == ParseLink(d.name).ok /\ d.network \in {"default", "host", "weave"}

\* Mutant: groups may have the same name.
JobIsValidAnyGroups(j) ==
  /\ IsName(j.name)
  /\ j.groups # <<>>
  /\ \A g \in ToSet(j.groups) : GroupIsValid(g)
  /\ ConstraintsAreValid(j.constraints)
  /\ \A d \in ToSet(j.deps) : DependencyIsValid(d)

JobIsValid(j) ==
  /\ IsName(j.name)
  /\ j.groups # <<>> /\ ~Duplicate(j.groups)
  /\ \A g \in ToSet(j.groups) : GroupIsValid(g)
  /\ ConstraintsAreValid(j.constraints)
  /\ \A d \in ToSet(j.deps) : DependencyIsValid(d)

MaxCount(j) == Max({0} \cup {g.count : g \in ToSet(j.groups)})
=============================================================================
