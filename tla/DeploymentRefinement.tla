------------------------ MODULE DeploymentRefinement ------------------------
(***************************************************************************)
(* A deployer of Deployment, seen through the units it selects, is a       *)
(* RollingUpdate, whatever the deployers of other units do meanwhile.      *)
(***************************************************************************)
EXTENDS Deployment

CONSTANT Me
ASSUME MeAssumption == Me \in Deployer

Mine == Selected(Me)

Cleanup == Config[Me].maxCount + 1

\* The slice that takes a unit off the list of remaining units.
Takes(u) == {g \in Slices(Me) : IsUnitForScalingGroup(Me, u, g)}

Slice(u) ==
  IF Config[Me].op = "destroy" \/ Takes(u) = {} THEN Cleanup
  ELSE CHOOSE g \in Takes(u) : \A h \in Takes(u) : g <= h

Slicing == [u \in Mine |-> Slice(u)]

Goal == [u \in Mine |-> IF u \in Wanted(Me) THEN Config[Me].content[u] ELSE None]

Rollout == INSTANCE RollingUpdate WITH
  Unit <- Mine,
  Target <- Goal,
  SliceOf <- Slicing,
  Last <- Cleanup,
  InPlace <- Kubernetes,
  have <- [u \in Mine |-> content[u]],
  slice <- IF Ended(Me) \/ pc[Me] \in {"cleanup", "cleaning"} THEN Cleanup ELSE sg[Me],
  outcome <- CASE pc[Me] = "done" -> "done"
               [] pc[Me] \in {"aborted", "panic"} -> "aborted"
               [] OTHER -> "working",
  missed <- missed[Me]

\* A run (run.go:61-155) replaces, installs and removes units slice by slice,
\* and returns nil only when its units are exactly those the job describes for
\* the selection, with the content the job gives them, but for units of which
\* fleet lost a removal (pkg/fleet/fleet.go:137).
IsRollingUpdate == Rollout!Spec
=============================================================================
