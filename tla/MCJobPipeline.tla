---------------------------- MODULE MCJobPipeline ----------------------------
(***************************************************************************)
(* Job files for TLC: six families, each about one thing that job files    *)
(* combine freely, on each kind of cluster it matters on.                  *)
(***************************************************************************)
EXTENDS JobPipeline

MCOrder == <<<<"a">>, <<"a", "b">>, <<"b">>, <<"c">>, <<"g">>, <<"h">>, <<"j">>, <<"k">>>>

Kube == [kube |-> TRUE, network |-> "", instances |-> 1, globals |-> 0]
Fleet(instances, globals) ==
  [kube |-> FALSE, network |-> "weave", instances |-> instances, globals |-> globals]

Task(name, extra) ==
  extra @@
  [name |-> name, type |-> "", network |-> "", count |-> Absent, global |-> FALSE,
   constraints |-> <<>>, images |-> 1, after |-> <<>>, volumesFrom |-> <<>>, volumes |-> <<>>,
   env |-> <<>>, ports |-> <<>>, public |-> <<>>, private |-> <<>>, links |-> <<>>,
   secrets |-> <<>>, target |-> NoLink, rewrite |-> <<>>, metrics |-> <<>>, timer |-> FALSE]
Group0(name, tasks, extra) ==
  extra @@ [name |-> name, count |-> Absent, global |-> FALSE, restart |-> "",
            tasks |-> tasks, constraints |-> <<>>]
JobFile0(cluster, groups, extra) ==
  extra @@ [cluster |-> cluster, selected |-> {}, name |-> <<"j">>, id |-> TRUE,
            tasks |-> <<>>, groups |-> groups, constraints |-> <<>>, deps |-> <<>>]

Private(port) == [port |-> port, hostPort |-> 0, mode |-> "", register |-> FALSE]
Public(domain) == [domain |-> domain, port |-> 0, hostPort |-> 0, mode |-> "", cert |-> FALSE,
                   path |-> ""]

-----------------------------------------------------------------------------
(* Ties: each two of the three tasks of a group are apart, the one is to   *)
(* come after the other, or both, or the first has volumes of the second.  *)

Three == <<<<"c">>, <<"a">>, <<"b">>>>
Pairs == {p \in (1..3) \X (1..3) : p[1] < p[2]}
Ties3 == [Pairs -> {"apart", "after", "before", "both", "from"}]
TiedTask(tie, i, c) ==
  LET With(test(_, _)) == [k \in DOMAIN SelectSeq(<<1, 2, 3>>, LAMBDA o : test(i, o)) |->
                            Three[SelectSeq(<<1, 2, 3>>, LAMBDA o : test(i, o))[k]]]
  IN  Task(Three[i],
        [after |-> With(LAMBDA x, o : \/ x < o /\ tie[<<x, o>>] \in {"after", "both"}
                                      \/ o < x /\ tie[<<o, x>>] \in {"before", "both"}),
         volumesFrom |-> With(LAMBDA x, o : x < o /\ tie[<<x, o>>] = "from"),
         volumes |-> IF i = 2 THEN <<[type |-> IF c.kube THEN "local" ELSE "instance",
                                           host |-> "/v", ro |-> FALSE]>>
                     ELSE <<>>])
TiedFiles ==
  {JobFile0(c, <<Group0(<<"g">>, [i \in 1..3 |-> TiedTask(tie, i, c)], [restart |-> r])>>, <<>>) :
     c \in {Kube, Fleet(1, 0)}, tie \in Ties3, r \in {""}}
  \cup {JobFile0(Kube, <<Group0(<<"g">>, [i \in 1..3 |-> TiedTask(tie, i, Kube)],
                                [restart |-> "all"])>>, <<>>) :
          tie \in [Pairs -> {"apart", "after"}]}

-----------------------------------------------------------------------------
(* Addresses: task a of group g asks for b of group h, a service or a      *)
(* proxy of c.                                                             *)

To(task, inst) == [parts |-> <<<<"j">>, <<"h">>, task>>, inst |-> inst]
Proxy == [type |-> "proxy", images |-> 0, target |-> To(<<"c">>, 0)]
Rewrite(prefix, domain) == <<[prefix |-> prefix, remove |-> "", domain |-> domain]>>
LinkedKinds == {<<>>, Proxy} \cup
  {[rewrite |-> r] @@ Proxy : r \in {Rewrite("/api", ""), Rewrite("", "x"), Rewrite("/api", "x")}}

Use(kind, ln) == [kind |-> kind, to |-> ln] @@ (IF kind = "link_tcp" THEN [port |-> 99] ELSE <<>>)
LinkFile(cluster, kind, network, own, use, inst) ==
  LET frontend == [Private(IF use = "link_tcp" THEN 99 ELSE Absent) EXCEPT
                     !.mode = IF use = "link_tcp" THEN "tcp" ELSE "", !.register = inst # 0]
      b == kind @@ [network |-> network, private |-> <<frontend>>]
      c == [network |-> network, private |-> <<frontend>>]
      a == [network |-> own,
            env |-> <<Use(use, To(<<"b">>, inst)), [kind |-> "text"], Use(use, To(<<"c">>, 0))>>]
  IN  JobFile0(cluster, <<Group0(<<"g">>, <<Task(<<"a">>, a)>>, <<>>),
                          Group0(<<"h">>, <<Task(<<"b">>, b), Task(<<"c">>, c)>>, [count |-> 2])>>,
               <<>>)
LinkFiles ==
  {LinkFile(c, kind, network, own, use, inst) :
     c \in {Kube, Fleet(2, 0)}, kind \in LinkedKinds, network \in {"", "host"},
     own \in {"", "host"}, use \in {"link_url", "link_tcp"}, inst \in {0, 1}}

\* A dependency, an unknown task, and a proxy of each.
Elsewhere(group) == [parts |-> <<<<"k">>, group, <<"a">>>>, inst |-> 0]
DependencyFiles ==
  {JobFile0(c, <<Group0(<<"g">>, <<Task(<<"a">>, [env |-> <<Use(use, to)>>]),
                                   Task(<<"b">>, [target |-> Elsewhere(<<"g">>)] @@ Proxy)>>, <<>>)>>,
            [deps |-> <<[name |-> Elsewhere(<<"g">>), network |-> n, private |-> <<Private(80)>>]>>]) :
     c \in {Kube, Fleet(2, 0)}, n \in {"weave", "host"}, use \in {"link_url", "link_tcp"},
     to \in {Elsewhere(<<"g">>), Elsewhere(<<"h">>), To(<<"a">>, 0),
             [parts |-> <<<<"j">>, <<"g">>, <<"b">>>>, inst |-> 0]}}

-----------------------------------------------------------------------------
(* Placement on fleet.                                                     *)

NotWith(group) == <<[name |-> <<"taskgroup">>, value |-> group, op |-> "!="]>>
PlacedFiles ==
  {JobFile0(c, <<Group0(<<"g">>,
                   <<Task(<<"a">>, [volumes |-> <<[type |-> "instance", host |-> "", ro |-> FALSE]>>,
                                    links |-> <<[target |-> To(<<"c">>, 0), type |-> "tcp",
                                                 ports |-> <<99>>]>>]),
                     Task(<<"b">>, [volumesFrom |-> <<<<"a">>>>, type |-> "oneshot", timer |-> TRUE])>>,
                   [count |-> n, global |-> all, constraints |-> apart, restart |-> restart]),
                 Group0(<<"h">>, <<Task(<<"c">>, <<>>)>>, [count |-> 2])>>, <<>>) :
     c \in {Fleet(1, 0), Fleet(2, 2), Fleet(3, 2)}, n \in 1..3, all \in BOOLEAN,
     apart \in {<<>>, NotWith(<<"h">>)}, restart \in {"", "all"}}

-----------------------------------------------------------------------------
(* Secrets and volumes of tasks of all types.                              *)

Secret(at, env) == [file |-> at, folder |-> "/etc", env |-> env]
Secrets0 == {<<>>, <<Secret("", "V")>>, <<Secret("f", "")>>, <<Secret("", "V"), Secret("f", "")>>}
OfType(type) == IF type = "proxy" THEN [type |-> type, images |-> 0, target |-> To(<<"c">>, 0),
                                       private |-> <<Private(80)>>]
                ELSE [type |-> type]
SecretFiles ==
  {JobFile0(c, <<Group0(<<"h">>,
                   <<Task(<<"a">>, [secrets |-> secrets, after |-> after,
                                    volumes |-> <<[type |-> "local", host |-> "/v", ro |-> ro]>>]
                                   @@ OfType(type)),
                     Task(<<"b">>, [volumesFrom |-> <<<<"a">>>>, secrets |-> secrets,
                                    metrics |-> <<90>>]),
                     Task(<<"c">>, [ports |-> <<[ip |-> "0.0.0.0", host |-> 0, container |-> 80,
                                                 protocol |-> "tcp"]>>])>>, [global |-> ro])>>,
            [id |-> ro]) :
     c \in {Kube, Fleet(1, 0)}, secrets \in Secrets0, after \in {<<>>, <<<<"b">>>>},
     type \in {"service", "oneshot", "proxy"}, ro \in BOOLEAN}

-----------------------------------------------------------------------------
(* Names, that may be taken already or joined, and what a file may not say. *)

NamedTask(name, extra) ==
  Task(name, extra @@ [secrets |-> <<Secret("", "V")>>, private |-> <<Private(80)>>,
                       public |-> <<Public("x")>>])
NamedFiles ==
  {JobFile0(c, <<Group0(g, <<NamedTask(t, <<>>)>>, <<>>),
                 Group0(<<"b">>, <<NamedTask(u, <<>>), NamedTask(<<"c">>, extra)>>, <<>>)>>,
            [tasks |-> <<NamedTask(top, [count |-> 2])>>, selected |-> selected]) :
     c \in {Kube, Fleet(2, 0)}, g \in {<<"a">>, <<"b">>, <<"a", "b">>}, t \in {<<"a">>, <<"c">>},
     u \in {<<"a">>, <<"c">>}, top \in {<<"a">>, <<"c">>, <<"x">>},
     extra \in {<<>>, [count |-> 2], [constraints |-> NotWith(<<"a">>)]},
     selected \in {{}, {<<"b">>}}}

MCFile == TiedFiles \cup LinkFiles \cup DependencyFiles \cup PlacedFiles \cup SecretFiles
          \cup NamedFiles
=============================================================================
