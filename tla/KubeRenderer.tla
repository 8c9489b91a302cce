---------------------------- MODULE KubeRenderer ----------------------------
(***************************************************************************)
(* How a job becomes kubernetes resources: src/render/kubernetes.  The     *)
(* steps of groupTaskIntoPods are actions of JobPipeline.                  *)
(***************************************************************************)
EXTENDS RobinRecords

\* A resource name, with "/" and "_" made "-": the words of its parts.
ServiceName(g, t) == g.name \o t.name \o <<"srv">>
SecretName(g, t) == g.name \o t.name \o <<"sec">>
IngressName(g, t) == g.name \o t.name \o <<"igr">>
FullName(j, g, t) == j.name \o g.name \o t.name

TaskDNSName(j, g, t) == [svc |-> ServiceName(g, t), ns |-> j.name]
DependencyDNSName(d) ==
  LET p == ParseLink(d.name) IN [svc |-> p.group \o p.task \o <<"srv">>, ns |-> p.job]
LoadBalancer == [svc |-> <<"lb", "lb", "srv">>, ns |-> <<"base">>]

KubeSupportsDNSLinkTo(ln) == ln.inst = 0
KubeAcceptsDNSLink(t) == t.type \in {"service", "proxy"}
KubeTaskPort(t, port, mode) ==
  CASE t.type = "proxy" /\ t.rewrite # <<>> /\ mode = "tcp" -> 82
    [] t.type = "proxy" /\ t.rewrite # <<>> /\ mode # "tcp" -> 81
    [] OTHER -> port

-----------------------------------------------------------------------------
(* Pods.  of: the pod of each task; members: its tasks, by pod.            *)

Names(tasks) == {t.name : t \in ToSet(tasks)}

OnePodEach(g) ==
  [of |-> [n \in Names(g.tasks) |-> Index(g.tasks, n)],
   members |-> [i \in DOMAIN g.tasks |-> <<g.tasks[i]>>]]

\* Mutant: only the second task changes its pod.
JoinPodOfOne(pods, n1, n2) ==
  LET p1 == pods.of[n1]
      p2 == pods.of[n2]
  IN  IF p1 = p2 THEN pods
      ELSE [of |-> [pods.of EXCEPT ![n2] = p1],
            members |-> [pods.members EXCEPT ![p1] = @ \o pods.members[p2]]]

\* The closure group: the pod of the second task joins that of the first.
JoinPods(pods, n1, n2) ==
  LET p1 == pods.of[n1]
      p2 == pods.of[n2]
      moved == Names(pods.members[p2])
  IN  IF p1 = p2 THEN pods
      ELSE [of |-> [n \in DOMAIN pods.of |-> IF n \in moved THEN p1 ELSE pods.of[n]],
            members |-> [pods.members EXCEPT ![p1] = @ \o pods.members[p2]]]

\* The pairs of tasks that volumes-from and after tie together, in the order of the code.
Ties(g) ==
  FlattenSeq([i \in DOMAIN g.tasks |->
    LET t == g.tasks[i]
        others == t.volumesFrom \o t.after
    IN  [k \in DOMAIN others |-> <<t.name, others[k]>>]])

\* createPodName: the group and its first task, in the order of the file.
PodName(g, tasks) ==
  LET first == CHOOSE t \in ToSet(tasks) : \A u \in ToSet(tasks) : t.index <= u.index
  IN  g.name \o first.name

HasType(tasks, type) == \E t \in ToSet(tasks) : t.type = type

PodIsValid(tasks) ==
  /\ \A t \in ToSet(tasks) : t.network = tasks[1].network
  /\ ~(HasType(tasks, "oneshot") /\ HasType(tasks, "service"))
  /\ \A i, k \in DOMAIN tasks : tasks[i].metrics # <<>> /\ tasks[k].metrics # <<>> => i = k

-----------------------------------------------------------------------------
(* Pod specifications, of a pod [name, tasks].                             *)

VolumeName(g, v) == g.name \o <<"vol", v.host>>

EnvSecrets(t) == {s \in ToSet(t.secrets) : s.env # ""}
FileSecrets(t) ==
  FlattenSeq([i \in DOMAIN t.secrets |-> IF t.secrets[i].env = "" THEN <<t.secrets[i]>> ELSE <<>>])

\* createPodSpec fails on a volume that is not local, on secrets of a job without an ID,
\* and on file secrets that are not in one folder other than the root.
PodSpecFails(j, tasks) ==
  \E t \in ToSet(tasks) :
    \/ \E v \in ToSet(t.volumes) : v.type # "local"
    \/ /\ t.type # "proxy" /\ t.secrets # <<>>
       /\ \/ ~j.id
          \/ \E s, r \in ToSet(FileSecrets(t)) : s.folder # r.folder \/ s.folder = "/"

\* createAffinity knows meta.*, node.id and, if there is such a group, taskgroup.
AffinityFails(j, constraints) ==
  \E c \in ToSet(constraints) :
    \/ Head(c.name) \notin {"meta", "node.id", "taskgroup"}
    \/ Head(c.name) = "taskgroup" /\ ~(IsName(c.value) /\ Known(j.groups, c.value))

\* Node selectors, and the groups to be with and those not to be with.
Affinity(j, constraints) ==
  LET Chosen(test) == {c \in ToSet(constraints) : (Head(c.name) = "taskgroup") = test}
      Groups(op) == {j.name \o c.value : c \in {d \in Chosen(TRUE) : OperatorEquals(d, op)}}
  IN  [nodes |-> {[name |-> c.name, in |-> OperatorEquals(c, "=="), value |-> c.value] :
                    c \in Chosen(FALSE)},
       with |-> Groups("=="), without |-> Groups("!=")]

\* The tasks a task mounts volumes from: itself, and those volumes-from leads to.
MountTasks(t, tasks) ==
  Closure({t}, ToSet(tasks), LAMBDA x : {u \in ToSet(tasks) : u.name \in ToSet(x.volumesFrom)})

Container(name, t, mounts, secret) ==
  [name |-> name, of |-> t.name, mounts |-> mounts, secret |-> secret]

\* createTaskContainers: vault-monkey runs before the container of the task.
SecretContainers(j, g, t) ==
  LET files == FileSecrets(t) IN
  (IF EnvSecrets(t) = {} THEN <<>>
   ELSE <<Container(FullName(j, g, t) \o <<"vm">>, t, {<<"vault-info-env">>}, SecretName(g, t))>>)
  \o [i \in DOMAIN files |->
        Container(FullName(j, g, t) \o <<"vmf", i - 1>>, t,
                  {<<"vault-files">>, <<"vault-info-file">>}, <<>>)]

MainContainer(j, g, t, tasks) ==
  Container(FullName(j, g, t), t,
    (UNION {{VolumeName(g, v) : v \in ToSet(u.volumes)} : u \in MountTasks(t, tasks)})
      \cup (IF FileSecrets(t) = <<>> THEN {} ELSE {<<"vault-files">>}),
    IF EnvSecrets(t) = {} THEN <<>> ELSE SecretName(g, t))

TaskContainers(j, g, t, tasks, type) ==
  CASE t.type = "proxy" -> <<>>
    [] t.type # "proxy" /\ type = "init" ->
         SecretContainers(j, g, t)
         \o IF t.type = "oneshot" THEN <<MainContainer(j, g, t, tasks)>> ELSE <<>>
    [] OTHER -> IF t.type = "service" THEN <<MainContainer(j, g, t, tasks)>> ELSE <<>>

RestartPolicy(tasks, always) ==
  IF ~always /\ HasType(tasks, "oneshot") /\ ~HasType(tasks, "service")
  THEN "OnFailure" ELSE "Always"

\* The constraints that the tasks of a pod add to its affinity.
PodConstraints(j, g, tasks) ==
  FoldLeft(LAMBDA all, t : Merge(all, MergedConstraints(j, g)), <<>>, tasks)

\* createPodSpec: without a container the last init container becomes one.
PodSpec(j, g, tasks) ==
  LET All(type) == FlattenSeq([i \in DOMAIN tasks |->
                                 TaskContainers(j, g, tasks[i], tasks, type)])
      init == All("init")
      lone == All("main") = <<>> /\ init # <<>>
      Uses(test(_)) == \E t \in ToSet(tasks) : t.type # "proxy" /\ test(t)
  IN  [init |-> IF lone THEN Front(init) ELSE init,
       containers |-> IF lone THEN <<Last(init)>> ELSE All("main"),
       volumes |-> (UNION {{VolumeName(g, v) : v \in ToSet(t.volumes)} : t \in ToSet(tasks)})
         \cup (IF Uses(LAMBDA t : EnvSecrets(t) # {}) THEN {<<"vault-info-env">>} ELSE {})
         \cup (IF Uses(LAMBDA t : FileSecrets(t) # <<>>)
               THEN {<<"vault-files">>, <<"vault-info-file">>} ELSE {}),
       hostNetwork |-> \E t \in ToSet(tasks) : t.network = "host",
       affinity |-> Affinity(j, PodConstraints(j, g, tasks))]

-----------------------------------------------------------------------------
(* Services and ingresses.                                                 *)

\* collectPorts: the ports of the task, its frontends and its metrics.
CollectPorts(t) ==
  LET Nonzero(fs) == SelectSeq([i \in DOMAIN fs |-> fs[i].port], LAMBDA n : n # 0)
      Add(list, n) == IF Contains(list, n) THEN list ELSE Append(list, n)
  IN  FoldLeft(Add, [i \in DOMAIN t.ports |-> t.ports[i].container],
               Nonzero(t.public) \o Nonzero(t.private) \o t.metrics)

HasService(t) == t.type = "service" /\ t.ports \o t.public \o t.private # <<>>

\* A service leads to the pods with a label, or is an alias of another service.
Service(name, pod, alias, ports, nodePorts) ==
  [kind |-> "service", name |-> name, pod |-> pod, alias |-> alias, ports |-> ports,
   nodePorts |-> nodePorts]

PodServices(g, t, pod) ==
  LET mapped == SelectSeq(t.ports, LAMBDA p : p.ip = "0.0.0.0")
      NodePort(p) == IF p.host = 0 THEN p.container ELSE p.host
  IN  <<Service(ServiceName(g, t), pod.name, <<>>, ToSet(CollectPorts(t)), {})>>
      \o IF t.network = "host" \/ mapped = <<>> THEN <<>>
         ELSE <<Service(ServiceName(g, t) \o <<"host">>, pod.name, <<>>,
                        {p.container : p \in ToSet(mapped)}, {NodePort(p) : p \in ToSet(mapped)})>>

\* createProxyService: robin rewrites, otherwise the service is that of the target.
ProxyService(j, g, t) ==
  LET r == Resolve(t.target, j)
      alias == CASE t.rewrite # <<>> -> LoadBalancer
                 [] t.rewrite = <<>> /\ r.to = "task" -> TaskDNSName(j, r.group, r.task)
                 [] OTHER -> DependencyDNSName(r.dep)
  IN  Service(ServiceName(g, t), <<>>, <<alias>>, {}, {})

Services(j, g, t, pod) ==
  CASE t.type = "proxy" -> <<ProxyService(j, g, t)>>
    [] HasService(t) -> PodServices(g, t, pod)
    [] OTHER -> <<>>

HasFrontends(t) == t.public \o t.private # <<>>

\* createIngressBackend
IngressBackend(j, g, t, port) ==
  LET r == Resolve(t.target, j)
      Or(n, default) == IF n = 0 THEN default ELSE n
      At(name, p) == [svc |-> name.svc, ns |-> name.ns, port |-> p]
  IN  CASE t.type = "proxy" /\ t.rewrite = <<>> /\ r.to = "task" ->
             At(TaskDNSName(j, r.group, r.task), PortOf(r.task.public, Or(port, 80)))
        [] t.type = "proxy" /\ t.rewrite = <<>> /\ r.to = "dependency" ->
             At(DependencyDNSName(r.dep), Or(port, PortOf(r.dep.private, 0)))
        [] OTHER -> At(TaskDNSName(j, g, t), port)

\* createTargetServiceName: what the records of robin say serves the task.
TargetService(j, g, t) ==
  LET r == Resolve(t.target, j) IN
  CASE t.type = "proxy" /\ r.to = "task" -> TaskDNSName(j, r.group, r.task)
    [] t.type = "proxy" /\ r.to = "dependency" -> DependencyDNSName(r.dep)
    [] OTHER -> TaskDNSName(j, g, t)

Ingress(j, g, t) ==
  LET Rules(fs, Host(_)) == [i \in DOMAIN fs |->
        [host |-> Host(fs[i]), backend |-> IngressBackend(j, g, t, fs[i].port)]]
  IN  [kind |-> "ingress", name |-> IngressName(g, t),
       rules |-> Rules(t.public, LAMBDA f : [public |-> f.domain])
                 \o Rules(t.private, LAMBDA f : TaskDNSName(j, g, t)),
       records |-> FrontEndRecords(t, 1, ServiceName(g, t), TargetService(j, g, t),
                     <<TaskDNSName(j, g, t),
                       PrivateDomainName(TaskLink(j, g, t))>>, <<>>)]

-----------------------------------------------------------------------------
(* The resources of a pod: GenerateUnits.                                  *)

\* The controllers of a pod; a pod of proxies only has none.  The tasks of a deployment are
\* replaced before they are removed unless they write to a volume of the host.
Controller(kind, name, j, g, pod, replicas, surge) ==
  [kind |-> kind, name |-> name, pod |-> pod.name, spec |-> PodSpec(j, g, pod.tasks),
   replicas |-> replicas, surge |-> surge, restart |-> RestartPolicy(pod.tasks, kind # "job")]

Deployments(j, g, pod) ==
  IF g.global \/ ~HasType(pod.tasks, "service") THEN <<>>
  ELSE <<Controller("deployment", pod.name \o <<"depl">>, j, g, pod, g.count,
                    IF \E t \in ToSet(pod.tasks) : HasRWHostVolume(t) THEN 0 ELSE g.count)>>

DaemonSets(j, g, pod) ==
  IF ~g.global \/ ~HasType(pod.tasks, "service") THEN <<>>
  ELSE <<Controller("daemonset", pod.name \o <<"dset">>, j, g, pod, 0, 0)>>

Jobs(j, g, pod) ==
  IF HasType(pod.tasks, "service") \/ ~HasType(pod.tasks, "oneshot") THEN <<>>
  ELSE <<Controller("job", pod.name \o <<"job">>, j, g, pod, 1, 0)>>

Secrets(g, t) ==
  IF t.secrets = <<>> THEN <<>> ELSE <<[kind |-> "secret", name |-> SecretName(g, t)]>>

Resources(j, g, pod) ==
  LET OfTasks(Op(_)) == FlattenSeq([i \in DOMAIN pod.tasks |-> Op(pod.tasks[i])]) IN
  Deployments(j, g, pod) \o DaemonSets(j, g, pod) \o Jobs(j, g, pod)
  \o OfTasks(LAMBDA t : Secrets(g, t))
  \o OfTasks(LAMBDA t : Services(j, g, t, pod))
  \o OfTasks(LAMBDA t : IF HasFrontends(t) THEN <<Ingress(j, g, t)>> ELSE <<>>)

\* The errors of the functions above: a metrics port that is 0, a proxy whose target is
\* unknown, an instance that is to be registered.
ResourcesFail(j, g, pod) ==
  \/ (HasType(pod.tasks, "service") \/ HasType(pod.tasks, "oneshot"))
     /\ (PodSpecFails(j, pod.tasks) \/ AffinityFails(j, MergedConstraints(j, g)))
  \/ \E t \in ToSet(pod.tasks) :
       \/ HasService(t) /\ t.metrics = <<0>>
       \/ /\ t.type = "proxy" /\ Resolve(t.target, j).to = "nothing"
          /\ t.rewrite = <<>> \/ HasFrontends(t)
       \/ \E f \in ToSet(t.private) : f.register
=============================================================================
