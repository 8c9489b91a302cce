---------------------------- MODULE KubeScheduler ----------------------------
(***************************************************************************)
(* A run on kubernetes: ValidateCluster (KubeCluster), and then Start or   *)
(* Destroy (KubeUnits), on one cluster.                                    *)
(***************************************************************************)
EXTENDS KubeUnits

CONSTANTS
  Process, Args, Registry, NoSecret, MaxBroken,  \* as in KubeCluster
  Me                                             \* the process of the units

VARIABLES base, secret, at, attempt, unchecked, configs, hasID, unwritten, outdated, broken

Cluster == INSTANCE KubeCluster

ASSUME ArgsAssumption ==
  \A p \in Process :
    /\ Args[p].op \in {"run", "configure"}
    /\ Args[p].id \in BOOLEAN
    /\ Args[p].vault \in {"set", "empty"}
    /\ Args[p].op = "run" => ~Args[p].id
    /\ Args[p].op = "configure" => Args[p].vault = "set"
ASSUME NameAssumption ==
  IsFiniteSet(Registry) /\ {"vault-info", "cluster-info"} \cap Registry = {}
ASSUME SecretAssumption == NoSecret \notin {"bare", "incomplete", "empty", "set"}
ASSUME BrokenAssumption == MaxBroken \in Nat
ASSUME MeAssumption == Me \in Process /\ Args[Me].op = "run"

processVars == <<base, secret, at, attempt, unchecked, configs, hasID, unwritten, outdated, broken>>
unitVars == <<callVars, spec, generation, written, controllerVars, podVars, localVars,
              historyVars, bounds>>
allVars == <<vars, processVars>>

SchedulerInit == Init /\ Cluster!ClusterInit

\* The steps of the cluster that matter are those after its validation.
UnitSteps == at[Me] = "valid" /\ Next /\ UNCHANGED processVars

Processes == Cluster!ClusterNext /\ UNCHANGED unitVars

\* The run has ended with an error or a panic, or was killed.
Abandoned == at[Me] \in {"invalid", "killed", "panic"} /\ UNCHANGED allVars

SchedulerNext == UnitSteps \/ Processes \/ Abandoned

\* The processes run and the controllers do their work.
Fairness ==
  /\ \A p \in Process : WF_allVars(Cluster!Configuring(p) /\ UNCHANGED unitVars)
  /\ \A u \in Unit :
       /\ WF_allVars(at[Me] = "valid" /\ Working(u) /\ UNCHANGED processVars)
       /\ WF_allVars(at[Me] = "valid" /\ Controllers(u) /\ UNCHANGED processVars)

SchedulerSpec == SchedulerInit /\ [][SchedulerNext]_allVars /\ Fairness

-----------------------------------------------------------------------------
SchedulerTypeOK ==
  /\ TypeOK
  /\ secret \in [Cluster!Name -> Cluster!Content]
  /\ attempt \in [Process -> {1, 2}]
  /\ configs \in [Process -> SUBSET Registry]
  /\ unwritten \in [Process -> SUBSET Cluster!Name]
  /\ unchecked \in [Process -> SUBSET Cluster!Name]
  /\ broken \in 0..MaxBroken

\* Nothing is applied to a cluster that lacks what the units need: the namespace and
\* every secret with its data, although they are checked one by one while another
\* process may be making them (ValidateCluster).
AppliedWhenConfigured ==
  (at[Me] = "valid") =>
    namespace /\ \A n \in Cluster!Name : secret[n] \in {"empty", "set"}

\* A second attempt completes what the first has left half done: a run that begins
\* when the other process is over, with nothing failing any more and everything to be
\* found in the namespace "base", passes the validation (ConfigureCluster), unless there
\* is a secret without any data, which makes every attempt panic.
SecondAttemptCompletes ==
  (/\ at[Me] = "start" /\ broken = MaxBroken
   /\ \A p \in Process \ {Me} : at[p] \in {"killed", "failed", "done", "panic"}
   /\ base = {"cluster-info"} \cup Registry
   /\ \A n \in Cluster!Name : secret[n] # "bare")
  ~> (at[Me] = "valid")
=============================================================================
