--------------------------- MODULE MCKubeScheduler ---------------------------
(***************************************************************************)
(* Instances of KubeScheduler for TLC.                                     *)
(***************************************************************************)
EXTENDS KubeScheduler, TLC

\* A task group with a deployment, one with two of them, and one with two daemon sets
\* and a job.
MCKind ==
  "d" :> "deployment" @@ "e" :> "deployment" @@ "f" :> "deployment"
  @@ "n" :> "daemonset" @@ "m" :> "daemonset" @@ "j" :> "job" @@ "s" :> "secret"

MCTaskGroup ==
  "d" :> "web" @@ "e" :> "api" @@ "f" :> "api"
  @@ "n" :> "agents" @@ "m" :> "agents" @@ "j" :> "agents" @@ "s" :> "none"

MCReplicas == [u \in Unit |-> IF u = "d" THEN 2 ELSE 1]

MCRequests ==
  {[op |-> "start", units |-> us] : us \in {{"d"}, {"n"}, {"n", "m"}, {"j"}, {"s"}}}
  \cup {[op |-> "destroy", units |-> us] : us \in {{"d"}, {"e"}, {"e", "f"}, {"j"}, {"n", "s"}}}

\* One daemon set of a task group that has two of them.
MCOneOfTwo == {[op |-> "start", units |-> {"n"}]}

\* The run of the units, and a process of the same job before it or beside it.
MCArgs ==
  "run" :> [op |-> "run", id |-> FALSE, vault |-> "empty"]
  @@ "other" :> [op |-> "configure", id |-> FALSE, vault |-> "set"]

IsConfigured == \A n \in Cluster!Name : secret[n] = "set"

\* What may be there besides the units of the request: the others of their task group
\* when these make a difference.
Others ==
  CASE request.op = "start" /\ request.units = {"n"} -> {{}, {"m"}, {"j"}}
    [] request.op = "destroy" /\ request.units = {"e"} -> {{}, {"f"}}
    [] request.op = "destroy" /\ request.units = {"j"} -> {{}, {"n"}}
    [] OTHER -> {{}}

Pairs == {{"n", "m"}, {"e", "f"}}

\* With several resources of a task group on the move, some are there from the start,
\* and nothing fails.
MCUnits ==
  /\ request \in Requests
  /\ hosts \in CASE request.units \subseteq Deployments -> {Host}
                 [] request.units = {"n"} -> {{}, {"h1"}, Host}
                 [] request.units = {"s"} -> {{}}
                 [] OTHER -> {{"h1"}}
  /\ \E others \in Others :
       /\ spec \in {f \in [Unit -> Revision \cup {None}] :
            /\ \A u \in Unit \ request.units : f[u] = IF u \in others THEN "new" ELSE None
            /\ request.units = {"e", "f"} => f["e"] = "new" /\ f["f"] = "new"
            /\ request.units = {"n", "m"} => f["n"] = "old" /\ f["m"] # "new"}
       /\ \/ faults = MaxFaults /\ troubles = MaxTroubles
          \/ /\ faults = MaxFaults /\ troubles = 0
             /\ request.units \notin Pairs
             /\ others = {} \/ (others = {"j"} /\ hosts = {"h1"})
          \/ /\ faults = 0 /\ troubles = MaxTroubles
             /\ request.units \notin Pairs /\ others = {}

\* Either the cluster is configured and only the units are of interest, or there
\* is little to do after its configuration.
MCInit ==
  /\ MCUnits
  /\ SchedulerInit
  /\ request.units = {"e", "f"} => \A u \in {"e", "f"} : status[u].observed = 1
  /\ \/ IsConfigured /\ at = ("run" :> "start" @@ "other" :> "killed")
        /\ base = {} /\ broken = MaxBroken
     \/ at["run"] = "start" /\ ~IsConfigured /\ broken = 0
        /\ \A n \in {"cluster-info", "registry"} : secret[n] # "bare"
        /\ request = [op |-> "start", units |-> {"s"}]
        /\ \A u \in Unit : spec[u] = None
        /\ faults = MaxFaults /\ troubles = MaxTroubles

MCSpec == MCInit /\ [][SchedulerNext]_allVars /\ Fairness
=============================================================================
