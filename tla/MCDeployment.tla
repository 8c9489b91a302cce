---------------------------- MODULE MCDeployment ----------------------------
(***************************************************************************)
(* Instances of Deployment for TLC.                                        *)
(***************************************************************************)
EXTENDS DeploymentRefinement, TLC

MCContent == {"old", "new"}

\* The unit names of one task group "g" of job "j", by the slice they are in,
\* and one unit of another job "k".
MCMeta ==
  [u \in Unit |-> [job |-> IF u = "k1" THEN "k" ELSE "j",
                   group |-> IF u = "h1" THEN "h" ELSE "g",
                   slice |-> CASE u \in {"j1", "o1", "k1", "h1"} -> 1
                               [] u = "j2" -> 2
                               [] u = "j3" -> 3]]

Plain == [op |-> "run", job |-> "j", groups |-> {}, scaling |-> 0, maxCount |-> 2,
          units |-> {"j1", "j2"} \cap Unit, content |-> [u \in Unit |-> "new"],
          force |-> FALSE, autoContinue |-> FALSE]

\* One deployer: j1 and j2 are described, o1 is obsolete in slice 1 and j3 is in
\* a slice the job no longer has.
OneRun == "a" :> Plain

\* What a unit contains that no job file describes plays no part: one content is enough.
MCInit ==
  /\ Init
  /\ \A u \in Unit \ UNION {Config[d].units : d \in Deployer} : content[u] # "new"

MCSpec == MCInit /\ [][Next]_vars /\ Fairness

\* One deployer updates a task group of a job that the other destroys.
GroupAndDestroy ==
  "a" :> [Plain EXCEPT !.groups = {"g"}, !.units = {"j1", "h1"}, !.autoContinue = TRUE]
  @@ "b" :> [Plain EXCEPT !.op = "destroy", !.force = TRUE, !.units = {},
                          !.maxCount = 0]

\* A run with --scaling-group=2 of a job whose units are all in the job file.
SecondGroup == "a" :> [Plain EXCEPT !.scaling = 2, !.units = {"j1"}]
=============================================================================
