---------------------------- MODULE JobVariables ----------------------------
(***************************************************************************)
(* The variables of a job file whose value depends on the other tasks:     *)
(* link_url and link_tcp, of src/jobs/variables.go, with the functions     *)
(* they ask the renderer of the cluster.  An address is [scheme, host,     *)
(* port, path] and, for the properties, the link it was made for.          *)
(***************************************************************************)
EXTENDS JobFile, KubeRenderer, FleetRenderer

SupportsDNSLinkTo(c, t, ln) ==
  IF c.kube THEN KubeSupportsDNSLinkTo(ln) ELSE FleetSupportsDNSLinkTo(t, ln)
AcceptsDNSLink(c, t) == IF c.kube THEN KubeAcceptsDNSLink(t) ELSE FleetAcceptsDNSLink(t)
DNSName(c, j, g, t) ==
  IF c.kube THEN TaskDNSName(j, g, t) ELSE WeaveDomainName(TaskLink(j, g, t))
TaskPort(c, t, port, mode) == IF c.kube THEN KubeTaskPort(t, port, mode) ELSE port
DependencyAccepts(c, d) == c.kube \/ d.network = "weave"
DependencyName(c, d) == IF c.kube THEN DependencyDNSName(d) ELSE WeaveDomainName(d.name)

\* The words "${job}", "${group}" and "${task}" of a name.
ReplaceName(n, j, g, t) ==
  FlattenSeq([i \in DOMAIN n |-> CASE n[i] = "${job}" -> j.name
                                   [] n[i] = "${group}" -> g.name
                                   [] n[i] = "${task}" -> t.name
                                   [] OTHER -> <<n[i]>>])
ReplaceLink(ln, j, g, t) ==
  [ln EXCEPT !.parts = [i \in DOMAIN @ |-> ReplaceName(@[i], j, g, t)]]

\* Task.replaceVariables, without the environment.
ReplaceTask(t, j, g) ==
  LET Each(names) == [i \in DOMAIN names |-> ReplaceName(names[i], j, g, t)]
  IN  [t EXCEPT !.after = Each(@), !.volumesFrom = Each(@),
                !.links = [i \in DOMAIN @ |->
                             [@[i] EXCEPT !.target = ReplaceLink(@, j, g, t)]],
                !.target = ReplaceLink(@, j, g, t)]

-----------------------------------------------------------------------------
\* findTask, as a set of at most one [group, task]: it must be of this job.
FindTask(ln, j) ==
  LET p == ParseLink(ln)
  IN  IF p.job = j.name /\ p.inst = 0 /\ Known(j.groups, p.group)
           /\ Known(Get(j.groups, p.group).tasks, p.task)
      THEN {[group |-> Get(j.groups, p.group),
             task |-> Get(Get(j.groups, p.group).tasks, p.task)]}
      ELSE {}

IsSameJob(ln, j) == ParseLink(ln).job = j.name

\* What becomes of a use of a variable: text when it has no value; the links the task
\* gets; an error that refuses the job, or the panic that ends j2.
Text == [kind |-> "text"]
Result(value, links, end) == [value |-> value, links |-> links, end |-> end]
Refused == Result(Text, <<>>, "error")

Address(scheme, host, port, path, ln) ==
  Result([kind |-> "address", scheme |-> scheme, host |-> host, port |-> port,
          path |-> path, for |-> ln], <<>>, "")

\* linkURL, linkTCP: the load-balancer serves the private name, if the link is valid.
ByLink(scheme, port, link) ==
  Result(IF ~ParseLink(link.target).ok THEN Text
         ELSE [kind |-> "address", scheme |-> scheme, port |-> port, path |-> "",
               host |-> PrivateDomainName(link.target), for |-> link.target],
         <<link>>, "")

HTTPLink(ln) == ByLink("http", 81, [target |-> ln, type |-> "", ports |-> <<>>])
TCPLink(ln, port) == ByLink("tcp", port, [target |-> ln, type |-> "tcp", ports |-> <<port>>])

\* link_url to a proxy: what it proxies, as its variables may still have to be replaced and
\* seen from the task of the variable, has the address if the proxy adds nothing but a path.
ProxyAddress(c, j, g, t, ln, proxy) ==
  LET target == ResolveLink(proxy.target, j, g, t)
      found == FindTask(target, j)
      port == TaskPort(c, proxy, PortOf(proxy.private, 80), "http")
      At(accepts, host) ==
        CASE accepts /\ proxy.rewrite = <<>> -> Address("http", host, port, "", ln)
          [] accepts /\ proxy.rewrite # <<>> /\ HasPathPrefixOnly(proxy.rewrite[1]) ->
               Address("http", host, port, proxy.rewrite[1].prefix, ln)
          [] OTHER -> HTTPLink(ln)
  IN  CASE Len(proxy.private) # 1 \/ target.inst # 0 -> HTTPLink(ln)
        [] Len(proxy.private) = 1 /\ target.inst = 0 /\ IsSameJob(target, j) ->
             IF found = {} THEN Refused
             ELSE LET f == CHOOSE f \in found : TRUE
                  IN  At(AcceptsDNSLink(c, f.task), DNSName(c, j, f.group, f.task))
        [] OTHER ->
             IF ~Known(j.deps, target) THEN Refused
             ELSE LET d == Get(j.deps, target)
                  IN  At(DependencyAccepts(c, d), DependencyName(c, d))

LinkURL(c, j, g, t, raw) ==
  LET ln == ResolveLink(raw, j, g, t)
      found == FindTask(ln, j)
      f == CHOOSE f \in found : TRUE
      d == Get(j.deps, ln)
  IN  CASE ~SupportsDNSLinkTo(c, t, ln) -> HTTPLink(ln)
        [] SupportsDNSLinkTo(c, t, ln) /\ ~IsSameJob(ln, j) ->
             IF Known(j.deps, ln) /\ DependencyAccepts(c, d)
             THEN Address("http", DependencyName(c, d), PortOf(d.private, 80), "", ln)
             ELSE Refused
        [] SupportsDNSLinkTo(c, t, ln) /\ IsSameJob(ln, j) /\ found = {} -> Refused
        [] OTHER ->
             CASE AcceptsDNSLink(c, f.task) ->
                    Address("http", DNSName(c, j, f.group, f.task),
                            TaskPort(c, f.task, PortOf(f.task.private, 80), "http"), "", ln)
               [] ~AcceptsDNSLink(c, f.task) /\ f.task.type = "proxy" ->
                    ProxyAddress(c, j, g, t, ln, f.task)
               [] OTHER -> HTTPLink(ln)

\* link_tcp records an error for an unknown target and then uses the nil task.
LinkTCP(c, j, g, t, raw, port) ==
  LET ln == ResolveLink(raw, j, g, t)
      found == FindTask(ln, j)
      f == CHOOSE f \in found : TRUE
  IN  CASE ~SupportsDNSLinkTo(c, t, ln) -> TCPLink(ln, port)
        [] SupportsDNSLinkTo(c, t, ln) /\ found = {} -> Result(Text, <<>>, "panic")
        [] OTHER -> IF AcceptsDNSLink(c, f.task)
                    THEN Address("tcp", DNSName(c, j, f.group, f.task), port, "", ln)
                    ELSE TCPLink(ln, TaskPort(c, f.task, port, "tcp"))

ReplaceUse(c, j, g, t, use) ==
  CASE use.kind = "link_url" -> LinkURL(c, j, g, t, use.to)
    [] use.kind = "link_tcp" -> LinkTCP(c, j, g, t, use.to, use.port)
    [] OTHER -> Result(use, <<>>, "")
=============================================================================
