---------------------------- MODULE KubeCluster ----------------------------
(***************************************************************************)
(* What a job on kubernetes needs of its namespace: the namespace itself   *)
(* and the secrets with the vault address, the cluster ID and the access   *)
(* to the docker registries.  A "run" checks them with ValidateCluster,    *)
(* which tries to make them when they are not there; "configure" is the    *)
(* command j2 cluster configure (src/cluster.go).  Processes share nothing *)
(* but the cluster: scheduler/kubernetes/cluster_config.go.                *)
(***************************************************************************)
EXTENDS Integers, FiniteSets

CONSTANTS
  Process,    \* the j2 processes
  Args,       \* Args[p]: op, id (--cluster-id is given), vault ("set" or "empty")
  Registry,   \* s.cluster.KubernetesOptions.RegistrySecrets
  NoSecret,   \* the content of a secret that does not exist
  MaxBroken   \* bound on requests that fail and on processes that are killed

VARIABLES
  base,        \* the complete secrets of the namespace "base"
  namespace,   \* the namespace of the job exists
  secret,      \* the secrets in it
  at,          \* where each process is
  attempt,     \* 1 before, 2 after ValidateCluster has called ConfigureCluster
  unchecked,   \* validateCluster: names still to check
  configs,     \* registrySecretConfigs
  hasID,       \* clusterID is not empty
  unwritten,   \* secrets updateSecret is still to be called for
  outdated,    \* the secret updateSecret has read was written since
  broken       \* bounded adversary

clusterVars == <<base, namespace, secret>>
progress == <<unchecked, configs, hasID, unwritten, outdated>>
clusterConfigVars == <<clusterVars, at, attempt, progress, broken>>

Name == {"vault-info", "cluster-info"} \cup Registry

\* "bare": without any data; "incomplete": without the data or the type that is
\* needed; "empty": the data is the empty string.
Content == {NoSecret, "bare", "incomplete", "empty", "set"}

ClusterInit ==
  /\ base \in SUBSET ({"cluster-info"} \cup Registry)
  /\ secret \in [Name -> {NoSecret, "bare", "incomplete", "set"}]
  /\ namespace \in BOOLEAN
  /\ \A n \in Name : secret[n] # NoSecret => namespace
  /\ at \in [Process -> {"start", "killed"}]
  /\ attempt = [p \in Process |-> 1]
  /\ unchecked = [p \in Process |-> {}]
  /\ configs = [p \in Process |-> {}]
  /\ hasID = [p \in Process |-> FALSE]
  /\ unwritten = [p \in Process |-> {}]
  /\ outdated = [p \in Process |-> FALSE]
  /\ broken \in 0..MaxBroken

GoOn(p, to) == at' = [at EXCEPT ![p] = to]

Broken == broken < MaxBroken /\ broken' = broken + 1

\* The names are used in this order; that of the registries makes no difference.
Foremost(names) ==
  IF "vault-info" \in names THEN {"vault-info"}
  ELSE IF "cluster-info" \in names THEN {"cluster-info"}
  ELSE {n \in names : n = CHOOSE first \in names : TRUE}

-----------------------------------------------------------------------------
(* ValidateCluster.                                                        *)

Begin(p) ==
  /\ at[p] = "start"
  /\ unchecked' = [unchecked EXCEPT ![p] = Name]
  /\ GoOn(p, IF Args[p].op = "run" THEN "validate" ELSE "configure")
  /\ UNCHANGED <<clusterVars, attempt, configs, hasID, unwritten, outdated, broken>>

\* Mutant: ValidateCluster returns the result of ConfigureCluster.
AfterInvalidOnce(p) == IF attempt[p] = 1 THEN "configure" ELSE "valid"

\* The first failure leads to ConfigureCluster, the second is returned.
AfterInvalid(p) == IF attempt[p] = 1 THEN "configure" ELSE "invalid"

\* The keys are looked for, not their values.
Suitable(n) == secret[n] \in {"empty", "set"}

\* validateCluster: one request per secret.
Check(p) ==
  /\ at[p] = "validate"
  /\ \/ /\ unchecked[p] = {}
        /\ GoOn(p, "valid")
        /\ UNCHANGED <<unchecked, broken>>
     \/ \E n \in Foremost(unchecked[p]) :
          \/ /\ Suitable(n)
             /\ unchecked' = [unchecked EXCEPT ![p] = @ \ {n}]
             /\ UNCHANGED <<at, broken>>
          \/ /\ ~Suitable(n)
             /\ GoOn(p, AfterInvalid(p))
             /\ UNCHANGED <<unchecked, broken>>
          \/ /\ Broken
             /\ GoOn(p, AfterInvalid(p))
             /\ UNCHANGED unchecked
  /\ UNCHANGED <<clusterVars, attempt, configs, hasID, unwritten, outdated>>

-----------------------------------------------------------------------------
(* ConfigureCluster.                                                       *)

\* Its end; ValidateCluster ignores the error.
Configured(p, failed) ==
  IF Args[p].op = "configure" THEN GoOn(p, IF failed THEN "failed" ELSE "done") /\ UNCHANGED <<attempt, unchecked>>
  ELSE /\ GoOn(p, "validate")
       /\ attempt' = [attempt EXCEPT ![p] = 2]
       /\ unchecked' = [unchecked EXCEPT ![p] = Name]

\* A cluster ID that is not given is looked for in the namespace "base" (which has
\* none when it is the job's own), as are the registries.
FetchID(p) ==
  /\ at[p] = "configure"
  /\ \/ /\ hasID' = [hasID EXCEPT ![p] = Args[p].id \/ "cluster-info" \in base]
        /\ UNCHANGED broken
     \/ ~Args[p].id /\ Broken /\ UNCHANGED hasID
  /\ unwritten' = [unwritten EXCEPT ![p] = IF Args[p].id THEN {} ELSE Registry]
  /\ GoOn(p, "fetch")
  /\ UNCHANGED <<clusterVars, attempt, unchecked, configs, outdated>>

\* A registry whose secret cannot be read is skipped without an error.
FetchRegistry(p) ==
  /\ at[p] = "fetch"
  /\ \E n \in unwritten[p] :
       /\ unwritten' = [unwritten EXCEPT ![p] = @ \ {n}]
       /\ \/ configs' = [configs EXCEPT ![p] = IF n \in base THEN @ \cup {n} ELSE @]
             /\ UNCHANGED broken
          \/ Broken /\ UNCHANGED configs
  /\ UNCHANGED <<clusterVars, at, attempt, unchecked, hasID, outdated>>

\* Without a cluster ID there is nothing to write.
EndFetch(p) ==
  /\ at[p] = "fetch" /\ unwritten[p] = {}
  /\ IF hasID[p] THEN GoOn(p, "getNamespace") /\ UNCHANGED <<attempt, unchecked>>
     ELSE Configured(p, TRUE)
  /\ UNCHANGED <<clusterVars, configs, hasID, unwritten, outdated, broken>>

ToWrite(p) == {"vault-info", "cluster-info"} \cup configs[p]

\* ensureNamespace: it is there, ...
FindNamespace(p) ==
  /\ at[p] = "getNamespace"
  /\ \/ /\ namespace
        /\ GoOn(p, "getSecret")
        /\ unwritten' = [unwritten EXCEPT ![p] = ToWrite(p)]
        /\ UNCHANGED broken
     \/ ~namespace /\ GoOn(p, "createNamespace") /\ UNCHANGED <<unwritten, broken>>
     \/ Broken /\ GoOn(p, "createNamespace") /\ UNCHANGED unwritten
  /\ UNCHANGED <<clusterVars, attempt, unchecked, configs, hasID, outdated>>

\* ... or it is created, unless another process was faster.
MakeNamespace(p) ==
  /\ at[p] = "createNamespace"
  /\ IF namespace THEN Configured(p, TRUE) /\ UNCHANGED <<namespace, unwritten>>
     ELSE /\ namespace' = TRUE
          /\ unwritten' = [unwritten EXCEPT ![p] = ToWrite(p)]
          /\ GoOn(p, "getSecret")
          /\ UNCHANGED <<attempt, unchecked>>
  /\ UNCHANGED <<base, secret, configs, hasID, outdated, broken>>

\* updateSecret reads the secret; when it cannot, it will create one.  The map of a
\* secret without any data is nil, and writing to it ends the process.
GetSecret(p) ==
  /\ at[p] = "getSecret"
  /\ \E n \in Foremost(unwritten[p]) :
       \/ /\ GoOn(p, CASE secret[n] = NoSecret -> "createSecret"
                      [] secret[n] = "bare" -> "panic"
                      [] OTHER -> "updateSecret")
          /\ UNCHANGED broken
       \/ Broken /\ GoOn(p, "createSecret")
  /\ outdated' = [outdated EXCEPT ![p] = FALSE]
  /\ UNCHANGED <<clusterVars, attempt, unchecked, configs, hasID, unwritten>>

\* Mutant: a value that is not known is not written at all.
WrittenIfSet(p, n) ==
  IF n = "vault-info" /\ Args[p].vault = "empty" THEN "incomplete" ELSE "set"

\* The keys are written even when the value is empty.
Written(p, n) == IF n = "vault-info" THEN Args[p].vault ELSE "set"

\* Create or update; who comes second is refused.
WriteSecret(p) ==
  /\ at[p] \in {"createSecret", "updateSecret"}
  /\ \E n \in Foremost(unwritten[p]) :
       IF \/ at[p] = "createSecret" /\ secret[n] # NoSecret
          \/ at[p] = "updateSecret" /\ outdated[p]
       THEN Configured(p, TRUE) /\ UNCHANGED <<secret, unwritten, outdated>>
       ELSE /\ secret' = [secret EXCEPT ![n] = Written(p, n)]
            /\ unwritten' = [unwritten EXCEPT ![p] = @ \ {n}]
            /\ outdated' = [q \in Process |-> outdated[q] \/ (q # p /\ n \in Foremost(unwritten[q]))]
            /\ GoOn(p, IF unwritten[p] = {n} THEN "nodes" ELSE "getSecret")
            /\ UNCHANGED <<attempt, unchecked>>
  /\ UNCHANGED <<base, namespace, configs, hasID, broken>>

\* The machines are listed at last; an error is returned all the same.
ListNodes(p) ==
  /\ at[p] = "nodes"
  /\ \/ Configured(p, FALSE) /\ UNCHANGED broken
     \/ Configured(p, TRUE) /\ Broken
  /\ UNCHANGED <<clusterVars, configs, hasID, unwritten, outdated>>

\* A request of ConfigureCluster fails.
ConfigureFails(p) ==
  /\ at[p] \in {"createNamespace", "createSecret", "updateSecret"}
  /\ Broken
  /\ Configured(p, TRUE)
  /\ UNCHANGED <<clusterVars, configs, hasID, unwritten, outdated>>

\* A process is killed.
Killed(p) ==
  /\ at[p] \notin {"start", "valid", "invalid", "done", "failed", "killed", "panic"}
  /\ Broken
  /\ GoOn(p, "killed")
  /\ UNCHANGED <<clusterVars, attempt, progress>>

Configuring(p) ==
  \/ Begin(p) \/ Check(p) \/ FetchID(p) \/ FetchRegistry(p) \/ EndFetch(p)
  \/ FindNamespace(p) \/ MakeNamespace(p) \/ GetSecret(p) \/ WriteSecret(p)
  \/ ListNodes(p) \/ ConfigureFails(p)

ClusterNext == \E p \in Process : Configuring(p) \/ Killed(p)
=============================================================================
