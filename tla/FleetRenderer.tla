---------------------------- MODULE FleetRenderer ----------------------------
(***************************************************************************)
(* How a job becomes systemd units for fleet: src/render/fleet, with the   *)
(* unit options of src/pkg/sdunits and the docker commands of              *)
(* src/engine/docker.  Of the commands of a unit it keeps the container    *)
(* they run, the containers it refers to, the hosts it is told of, and the *)
(* files with secrets that are made and read.                              *)
(***************************************************************************)
EXTENDS RobinRecords

AnySlice == -1   \* "*" in the name of a unit

\* The name of a unit, with its kind and the number of that: unitNameExt leaves the slice out for the one instance of a global
\* group.  A container has no slice in any global group (containerNameExt).
UnitName(j, g, t, kind, n, type) ==
  [task |-> <<j.name, g.name, t.name>>, kind |-> kind, type |-> type,
   at |-> IF g.global /\ g.count = 1 THEN 0 ELSE n]
ContainerName(j, g, t, n, part) ==
  [task |-> <<j.name, g.name, t.name>>, part |-> part, at |-> IF g.global THEN 0 ELSE n]

WeaveDomainName(ln) ==
  LET p == ParseLink(ln) IN [weave |-> p.job \o p.group \o p.task, inst |-> p.inst]

FleetSupportsDNSLinkTo(t, ln) == t.network = "weave" /\ ln.inst = 0
FleetAcceptsDNSLink(t) == t.type = "service" /\ t.network = "weave"

-----------------------------------------------------------------------------
(* Constraints.                                                            *)

\* setupConstraints fails on what fleet has no option for, setupInstanceConstraints
\* when there are more global instances than constraints to tell them apart.
ConstraintsFail(j, g) ==
  \E c \in ToSet(MergedConstraints(j, g)) :
    \/ Head(c.name) \notin {"meta", "node.id", "taskgroup"}
    \/ Head(c.name) # "taskgroup" /\ ~OperatorEquals(c, "==")
    \/ Head(c.name) = "taskgroup" /\ (~Known(j.groups, c.value) \/ ~OperatorEquals(c, "!="))
InstancesFail(g, cluster) ==
  cluster.instances > 1 /\ g.global /\ g.count > 1 /\ g.count > cluster.globals

\* createBaseUnit, and what createDefaultUnit adds for instances and constraints.
BaseUnit(name, n) ==
  [name |-> name, slice |-> n, global |-> FALSE, conflicts |-> {}, machineID |-> <<>>,
   instance |-> <<>>, metadata |-> {}, requires |-> {}, after |-> {}, machineOf |-> {},
   container |-> <<>>, uses |-> {}, hostname |-> <<>>, hosts |-> {}, reads |-> {},
   makes |-> {}, records |-> <<>>, starts |-> <<>>]

DefaultUnit(j, g, t, kind, n, cluster) ==
  LET constraints == ToSet(MergedConstraints(j, g))
      Named(a) == {c \in constraints : Head(c.name) = a}
      apart == UNION {{UnitName(j, Get(j.groups, c.value), u, <<"mn">>, AnySlice, "service") :
                         u \in ToSet(Get(j.groups, c.value).tasks)} : c \in Named("taskgroup")}
      own == IF cluster.instances > 1 /\ ~g.global
             THEN {UnitName(j, g, t, kind, AnySlice, "service")} ELSE {}
      distinct == cluster.instances > 1 /\ g.global /\ g.count > 1
  IN  [BaseUnit(UnitName(j, g, t, kind, n, "service"), n) EXCEPT
         !.global = g.global,
         !.conflicts = own \cup apart,
         !.machineID = SetToSeq({c.value : c \in Named("node.id")}),
         !.instance = IF distinct THEN <<n>> ELSE <<>>,
         !.metadata = {<<Tail(c.name), c.value>> : c \in Named("meta")}]

-----------------------------------------------------------------------------
(* The units of a task.                                                    *)

TcpLinks(t) ==
  FlattenSeq([i \in DOMAIN t.links |-> IF t.links[i].type = "tcp" THEN <<t.links[i]>> ELSE <<>>])
Numbered(kind, i) == <<kind, i - 1>>

\* createProxyUnit, CreateProxyCmds: wormhole proxies a tcp link.
ProxyUnits(j, g, t, n, cluster) ==
  [i \in DOMAIN TcpLinks(t) |->
     [DefaultUnit(j, g, t, Numbered("pr", i), n, cluster) EXCEPT
        !.container = <<ContainerName(j, g, t, n, Numbered("pr", i))>>]]

\* createVolumeUnit, CreateVolumeCmds: a container serves a volume that is not local.
VolumeNumbers(t) ==
  FlattenSeq([i \in DOMAIN t.volumes |-> IF t.volumes[i].type # "local" THEN <<i>> ELSE <<>>])
VolumeContainers(j, g, t, n) ==
  {ContainerName(j, g, t, n, Numbered("vl", i)) : i \in ToSet(VolumeNumbers(t))}
VolumeUnits(j, g, t, n, cluster) ==
  [k \in DOMAIN VolumeNumbers(t) |->
     LET kind == Numbered("vl", VolumeNumbers(t)[k])
     IN  [DefaultUnit(j, g, t, kind, n, cluster) EXCEPT
            !.container = <<ContainerName(j, g, t, n, kind)>>]]

\* createSecretsExecStartPre makes a file for a secret with a file name, otherwise it goes
\* into the environment file.
Made(t) == {s.file : s \in {r \in ToSet(t.secrets) : r.file # ""}}
           \cup (IF \E s \in ToSet(t.secrets) : s.file = "" THEN {"environment"} ELSE {})
Read(t) == {s.file : s \in {r \in ToSet(t.secrets) : r.file # ""}}
           \cup (IF \E s \in ToSet(t.secrets) : s.env # "" THEN {"environment"} ELSE {})

\* The domain names of the frontends: fleetFrontendNameBuilder.
UnitRecords(j, g, t, n) ==
  LET service == TaskLink(j, g, t)
      target == IF t.type = "proxy" THEN t.target ELSE service
  IN  FrontEndRecords(t, n, service, target, <<PrivateDomainName(service)>>,
                      <<PrivateDomainName(LinkName(j.name, g.name, t.name, n))>>)

\* createMainUnit, CreateMainCmds, createMainDockerCmdLine.
MainUnit(j, g, t, n, sidekicks, cluster) ==
  LET others == {Get(g.tasks, name) : name \in ToSet(t.volumesFrom)}
      mains == {UnitName(j, g, o, <<"mn">>, n, "service") : o \in others}
      unit == DefaultUnit(j, g, t, <<"mn">>, n, cluster)
  IN  [unit EXCEPT
         !.container = <<ContainerName(j, g, t, n, <<>>)>>,
         !.uses = VolumeContainers(j, g, t, n)
                  \cup {ContainerName(j, g, t, n, Numbered("pr", i)) : i \in DOMAIN TcpLinks(t)}
                  \cup UNION {VolumeContainers(j, g, o, n) \cup {ContainerName(j, g, o, n, <<>>)} :
                                o \in others},
         !.hostname = CASE t.network # "weave" -> <<>>
                        [] t.network = "weave" /\ t.type # "proxy" ->
                             <<WeaveDomainName(TaskLink(j, g, t))>>
                        [] OTHER -> <<PrivateDomainName(TaskLink(j, g, t))>>,
         !.hosts = {PrivateDomainName(l.target) : l \in ToSet(t.links)},
         !.reads = Read(t),
         !.makes = Made(t),
         !.requires = sidekicks \cup mains,
         !.after = sidekicks \cup mains,
         !.records = UnitRecords(j, g, t, n)]

\* UnitChain.Link: each unit needs its neighbours, the first needs the last, and each is
\* on the machine of the one before.
LinkChain(chain) ==
  [i \in DOMAIN chain |->
     LET before == IF i > 1 THEN {chain[i - 1].name} ELSE {}
         next == IF i < Len(chain) THEN {chain[i + 1].name} ELSE {}
         last == IF i = 1 /\ Len(chain) > 1 THEN {Last(chain).name} ELSE {}
     IN  [chain[i] EXCEPT !.requires = @ \cup before \cup next \cup last,
                          !.after = @ \cup before,
                          !.machineOf = @ \cup before]]

\* Mutant: a main unit does not need the units of the tasks it has volumes of.
MainChainOnly(j, g, t, n, cluster) ==
  LET sidekicks == ProxyUnits(j, g, t, n, cluster) \o VolumeUnits(j, g, t, n, cluster)
      names == {u.name : u \in ToSet(sidekicks)}
      main == [MainUnit(j, g, t, n, names, cluster) EXCEPT !.requires = names]
  IN  LinkChain(Append(sidekicks, main))

MainChain(j, g, t, n, cluster) ==
  LET sidekicks == ProxyUnits(j, g, t, n, cluster) \o VolumeUnits(j, g, t, n, cluster)
      names == {u.name : u \in ToSet(sidekicks)}
  IN  LinkChain(Append(sidekicks, MainUnit(j, g, t, n, names, cluster)))

\* createTimerUnit builds on createBaseUnit.
TimerChain(j, g, t, n) ==
  IF ~t.timer THEN <<>>
  ELSE <<[BaseUnit(UnitName(j, g, t, <<"ti">>, n, "timer"), n) EXCEPT
            !.starts = <<UnitName(j, g, t, <<"mn">>, n, "service")>>]>>

-----------------------------------------------------------------------------
(* The units of a group in slice n: createTaskGroupUnits.                  *)

Together(chain, others) ==
  LET names == {u.name : u \in UNION {ToSet(c) : c \in others}}
  IN  [i \in DOMAIN chain |-> [chain[i] EXCEPT !.requires = @ \cup names]]
Behind(chain, others) ==
  LET names == {u.name : u \in UNION {ToSet(c) : c \in others}}
  IN  [i \in DOMAIN chain |-> [chain[i] EXCEPT !.after = @ \cup names]]

GroupUnits(j, g, n, cluster) ==
  LET mains == [i \in DOMAIN g.tasks |-> MainChain(j, g, g.tasks[i], n, cluster)]
      bound == [i \in DOMAIN mains |->
                  IF g.restart = "all"
                  THEN Together(mains[i], {mains[k] : k \in DOMAIN mains \ {i}})
                  ELSE mains[i]]
      ordered == [i \in DOMAIN bound |->
                    Behind(bound[i], {mains[Index(g.tasks, a)] : a \in ToSet(g.tasks[i].after)})]
      units == FlattenSeq([i \in DOMAIN ordered |->
                             ordered[i] \o TimerChain(j, g, g.tasks[i], n)])
  IN  IF g.global THEN units
      ELSE [i \in DOMAIN units |->
              IF i = 1 THEN units[i] ELSE [units[i] EXCEPT !.machineOf = @ \cup {units[1].name}]]

UnitsFail(j, g, cluster) ==
  \/ ConstraintsFail(j, g) \/ InstancesFail(g, cluster)
  \/ ~j.id /\ \E t \in ToSet(g.tasks) : t.secrets # <<>>
=============================================================================
