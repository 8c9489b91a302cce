----------------------------- MODULE SliceProofs -----------------------------
(***************************************************************************)
(* What a deployer does to the units it selects, slice by slice, when no   *)
(* other deployer selects them: what is known of every one of them at      *)
(* every place the deployer can be, and the safety properties that follow. *)
(***************************************************************************)
EXTENDS DeploymentProofs

\* No other deployer selects a unit that d selects.
Alone(d) == \A e \in Deployer \ {d} : Selected(d) \cap Selected(e) = {}

\* The slice that deals with u: the first that takes it off the list of remaining
\* units, or the clean-up.
Taking(d, u) == {g \in Slices(d) : IsUnitForScalingGroup(d, u, g)}
End(d) == Config[d].maxCount + 1
Home(d, u) ==
  IF Config[d].op = "destroy" \/ Taking(d, u) = {} THEN End(d)
  ELSE CHOOSE g \in Taking(d, u) : \A h \in Taking(d, u) : g <= h

\* The content u is to have after the run.
Due(d, u) == IF u \in Wanted(d) THEN Config[d].content[u] ELSE None

LEMMA SlicesAreBounded ==
  ASSUME NEW d \in Deployer
  PROVE  End(d) \in Nat /\ \A g \in Slices(d) : g \in Nat /\ 0 < g /\ g < End(d)
BY ConfigAssumption DEF End, Slices

LEMMA HomeIsFirst ==
  ASSUME NEW d \in Deployer, NEW u \in Unit
  PROVE  /\ Home(d, u) \in Nat /\ 0 < Home(d, u)
         /\ \/ Home(d, u) = End(d) /\ (Config[d].op = "destroy" \/ Taking(d, u) = {})
            \/ /\ Home(d, u) \in Taking(d, u) /\ Config[d].op = "run"
               /\ \A h \in Taking(d, u) : Home(d, u) <= h
<1>1. End(d) \in Nat /\ \A g \in Slices(d) : g \in Nat /\ 0 < g /\ g < End(d)
  BY SlicesAreBounded
<1>2. CASE Config[d].op = "destroy" \/ Taking(d, u) = {}
  BY <1>1, <1>2, ConfigAssumption DEF Home, End
<1>3. CASE Config[d].op # "destroy" /\ Taking(d, u) # {}
  <2>1. \E g \in Taking(d, u) : \A h \in Taking(d, u) : g <= h
    <3>1. PICK g \in Slices(d) : IsUnitForScalingGroup(d, u, g)
      BY <1>3 DEF Taking
    <3>2. CASE Kubernetes /\ Config[d].scaling = 0
      <4>1. 1 \in Slices(d) /\ \A h \in Slices(d) : 1 <= h
        BY <3>1, <3>2, ConfigAssumption DEF Slices
      <4>2. 1 \in Taking(d, u)
        BY <3>1, <3>2, <4>1 DEF Taking, IsUnitForScalingGroup
      <4> QED BY <4>1, <4>2 DEF Taking
    <3>3. CASE Config[d].scaling # 0
      BY <3>1, <3>3, <1>1 DEF Slices, Taking
    <3>4. CASE ~Kubernetes
      BY <3>1, <3>4, <1>1 DEF IsUnitForScalingGroup, Taking
    <3> QED BY <3>2, <3>3, <3>4, KindAssumption
  <2>2. Home(d, u) \in Taking(d, u) /\ \A h \in Taking(d, u) : Home(d, u) <= h
    BY <1>3, <2>1 DEF Home
  <2> QED BY <1>1, <1>3, <2>2, ConfigAssumption DEF Taking
<1> QED BY <1>2, <1>3

\* Every unit the job describes is rendered in the slice that deals with it.
LEMMA RenderedAtHome ==
  ASSUME NEW d \in Deployer, NEW u \in Unit
  PROVE  /\ u \in Wanted(d) =>
              /\ u \in Selected(d) /\ Config[d].op = "run" /\ Home(d, u) \in Slices(d)
              /\ ~Kubernetes => Home(d, u) = Meta[u].slice
         /\ \A g \in Slices(d) :
              Config[d].op = "run" => (u \in Generated(d, g) <=> u \in Wanted(d) /\ Home(d, u) = g)
<1>1. ASSUME NEW g \in Slices(d), u \in Generated(d, g), Config[d].op = "run"
      PROVE  /\ u \in Selected(d) /\ Home(d, u) = g /\ u \in Wanted(d)
             /\ ~Kubernetes => g = Meta[u].slice
  <2>1. InSelectedGroup(d, u) /\ IsUnitForJob(d, u)
    BY <1>1 DEF Generated, InSelectedGroup, IsUnitForTaskGroup
  <2>2. u \in Wanted(d)
    BY <1>1 DEF Wanted
  <2>3. CASE Kubernetes
    <3>1. g = 1 /\ Taking(d, u) = Slices(d)
      BY <1>1, <2>1, <2>3 DEF Generated, RenderedByKubernetes, Taking, IsUnitForScalingGroup
    <3>2. Home(d, u) \in Slices(d) /\ Home(d, u) <= 1
      BY <1>1, <3>1, HomeIsFirst, SlicesAreBounded
    <3>3. u \in Selected(d)
      BY <2>1, <2>3 DEF Selected, IsUnitForScalingGroup
    <3> QED BY <2>2, <2>3, <3>1, <3>2, <3>3, HomeIsFirst, SlicesAreBounded
  <2>4. CASE ~Kubernetes
    <3>1. Meta[u].slice = g
      BY <1>1, <2>4 DEF Generated, RenderedByFleet
    <3>2. Taking(d, u) = {g}
      BY <1>1, <2>1, <2>4, <3>1 DEF Taking, IsUnitForScalingGroup
    <3>3. Home(d, u) = g
      BY <1>1, <3>2, HomeIsFirst, SlicesAreBounded
    <3>4. u \in Selected(d)
      BY <1>1, <2>1, <3>1 DEF Selected, IsUnitForScalingGroup, Slices
    <3> QED BY <2>2, <3>1, <3>3, <3>4
  <2> QED BY <2>3, <2>4
<1>2. u \in Wanted(d) => Config[d].op = "run" /\ \E g \in Slices(d) : u \in Generated(d, g)
  BY ConfigAssumption DEF Wanted
<1> QED BY <1>1, <1>2

LEMMA SelectedTaking ==
  ASSUME NEW d \in Deployer, NEW u \in Selected(d)
  PROVE  u \in Unit /\ IsUnitForJob(d, u)
BY DEF Selected, InSelectedGroup, IsUnitForTaskGroup

-----------------------------------------------------------------------------
(* The lists.                                                              *)

\* remaining and loaded hold what their names say: of the units that were listed,
\* those whose slice is to come and those of the current slice.
Sorted(d) ==
  /\ pc[d] = "list" => listed[d] = {} /\ sg[d] = 0
  /\ sg[d] \in Slices(d) \cup {0}
  /\ remaining[d] = {u \in listed[d] : Home(d, u) > sg[d]}
  /\ loaded[d] = {u \in listed[d] : Home(d, u) = sg[d]}
  /\ pc[d] \in {"cleanup", "cleaning"} /\ Config[d].op = "run" => \A g \in Slices(d) : g <= sg[d]

\* Steps other than the first of the run and the first of a slice leave the lists alone.
LEMMA ListsStay ==
  ASSUME TypeOK, NEW d \in Deployer, Step(d), ~List(d), ~BeginSlice(d)
  PROVE  /\ sg'[d] = sg[d] /\ remaining'[d] = remaining[d] /\ loaded'[d] = loaded[d]
         /\ listed'[d] = listed[d] /\ pc'[d] # "list"
         /\ pc'[d] \in {"cleanup", "cleaning"} =>
              pc[d] \in {"cleanup", "cleaning"} \/ EndSlices(d)
<1> DEFINE G == /\ sg'[d] = sg[d] /\ remaining'[d] = remaining[d] /\ loaded'[d] = loaded[d]
                /\ listed'[d] = listed[d] /\ pc'[d] # "list"
                /\ pc'[d] \in {"cleanup", "cleaning"} =>
                     pc[d] \in {"cleanup", "cleaning"} \/ EndSlices(d)
<1> USE DEF TypeOK, Goto, planVars, uiVars
<1>1. CASE Operator(d)
  BY <1>1 DEF Operator, Confirm, ConfirmFails, ConfirmCleanup, SpawnDestroy
<1>2. CASE Faulty(d)
  BY <1>2 DEF Faulty, ListFails, LaunchFails, CheckFailedFails, ApplyFails, DestroyIsLost,
              DestroyFails, Working
<1>3. ASSUME NEW u \in Unit, \/ CheckModified(d, u) \/ CheckFailed(d, u) \/ CreateUnit(d, u)
                             \/ StartUnit(d, u) \/ ApplyUnit(d, u)
      PROVE G
  BY <1>3 DEF CheckModified, CheckFailed, CreateUnit, StartUnit, ApplyUnit
<1>4. ASSUME NEW r \in Reason, NEW u \in Unit, StopUnit(d, r, u) \/ DestroyUnit(d, r, u)
      PROVE G
  BY <1>4 DEF StopUnit, DestroyUnit, Working
<1>5. ASSUME NEW r \in Reason, StopReturns(d, r) PROVE G
  BY <1>5 DEF StopReturns, Working
<1>6. ASSUME \/ EndSlices(d) \/ EndCheckModified(d) \/ EndCheckFailed(d) \/ SkipConfirm(d)
             \/ JoinDestroy(d) \/ EndCreate(d) \/ EndLaunch(d)
      PROVE G
  BY <1>6 DEF EndSlices, EndCheckModified, EndCheckFailed, SkipConfirm, SpawnDestroy,
              JoinDestroy, AfterJoin, Working, EndCreate, EndLaunch
<1> QED BY <1>1, <1>2, <1>3, <1>4, <1>5, <1>6 DEF Step, Progress

\* When no slice comes next, every slice has been.
LEMMA NoNextSlice ==
  ASSUME NEW d \in Deployer, sg[d] \in Nat, NextSlices(d) = {}
  PROVE  \A g \in Slices(d) : g <= sg[d]
<1> SUFFICES ASSUME NEW g \in Slices(d), g > sg[d] PROVE FALSE
  BY SlicesAreBounded DEF Slices
<1>1. CASE Config[d].scaling = 0
  <2>1. sg[d] + 1 \in Slices(d)
    BY <1>1, ConfigAssumption DEF Slices
  <2>2. sg[d] + 1 \in NextSlices(d)
    BY <2>1 DEF NextSlices, Slices
  <2> QED BY <2>2
<1>2. CASE Config[d].scaling # 0
  <2>1. g \in NextSlices(d)
    BY <1>2, ConfigAssumption DEF NextSlices, Slices
  <2> QED BY <2>1
<1> QED BY <1>1, <1>2

\* The slice that begins takes exactly its own units.
LEMMA SliceBegins ==
  ASSUME TypeOK, Coherent, NEW d \in Deployer, Sorted(d), BeginSlice(d)
  PROVE  /\ sg'[d] \in Slices(d) /\ sg'[d] > sg[d] /\ Config[d].op = "run"
         /\ \A h \in Slices(d) : h > sg[d] => sg'[d] <= h
         /\ loaded'[d] = {u \in listed[d] : Home(d, u) = sg'[d]}
         /\ remaining'[d] = {u \in listed[d] : Home(d, u) > sg'[d]}
         /\ listed'[d] = listed[d] /\ pc[d] = "slice" /\ pc'[d] = "checkModified"
         /\ todo'[d] = loaded'[d] \cap Generated(d, sg'[d])
         /\ modified'[d] = {} /\ failed'[d] = {} /\ missed'[d] = missed[d] /\ UNCHANGED content
<1>1. PICK g \in NextSlices(d) : sg' = [sg EXCEPT ![d] = g]
                /\ LET mine == {u \in remaining[d] : IsUnitForScalingGroup(d, u, g)}
                   IN /\ loaded' = [loaded EXCEPT ![d] = mine]
                      /\ remaining' = [remaining EXCEPT ![d] = @ \ mine]
                      /\ todo' = [todo EXCEPT ![d] = mine \cap Generated(d, g)]
  BY DEF BeginSlice
<1>2. g \in Slices(d) /\ g > sg[d] /\ \A h \in Slices(d) : h > sg[d] => g <= h
  BY <1>1 DEF NextSlices
<1>3. /\ sg'[d] = g /\ listed'[d] = listed[d] /\ pc[d] = "slice" /\ pc'[d] = "checkModified"
      /\ loaded'[d] = {u \in remaining[d] : IsUnitForScalingGroup(d, u, g)}
      /\ remaining'[d] = remaining[d] \ {u \in remaining[d] : IsUnitForScalingGroup(d, u, g)}
      /\ todo'[d] = loaded'[d] \cap Generated(d, g)
      /\ modified'[d] = {} /\ failed'[d] = {} /\ missed'[d] = missed[d] /\ UNCHANGED content
  BY <1>1 DEF TypeOK, BeginSlice, Goto, cluster
<1>4. Config[d].op = "run" /\ listed[d] \subseteq Selected(d) /\ listed[d] \subseteq Unit
  BY <1>3 DEF Coherent, PlanFits, TypeOK
<1>5. sg[d] \in Nat /\ g \in Nat /\ g < End(d)
  BY <1>2, SlicesAreBounded DEF TypeOK
<1>6. ASSUME NEW u \in remaining[d]
      PROVE  IsUnitForScalingGroup(d, u, g) <=> Home(d, u) = g
  <2>1. u \in Unit /\ Home(d, u) > sg[d]
    BY <1>4, <1>6 DEF Sorted
  <2>2. CASE IsUnitForScalingGroup(d, u, g)
    <3>1. g \in Taking(d, u)
      BY <1>2, <2>2 DEF Taking
    <3>2. Home(d, u) \in Slices(d) /\ Home(d, u) <= g
      BY <1>4, <2>1, <3>1, HomeIsFirst DEF Taking
    <3> QED BY <1>2, <1>5, <2>1, <2>2, <3>2, HomeIsFirst
  <2>3. CASE Home(d, u) = g
    BY <1>4, <1>5, <2>1, <2>3, HomeIsFirst DEF Taking
  <2> QED BY <2>2, <2>3
<1>7. loaded'[d] = {u \in listed[d] : Home(d, u) = g}
  <2>1. \A u \in listed[d] : Home(d, u) = g => u \in remaining[d]
    BY <1>2 DEF Sorted
  <2> QED BY <1>3, <1>6, <2>1 DEF Sorted
<1>8. remaining'[d] = {u \in listed[d] : Home(d, u) > g}
  <2>1. \A u \in remaining[d] : Home(d, u) # g <=> Home(d, u) > g
    <3> SUFFICES ASSUME NEW u \in remaining[d], Home(d, u) < g PROVE FALSE
      BY <1>4, <1>5, HomeIsFirst DEF Sorted
    <3>1. u \in Unit /\ Home(d, u) > sg[d]
      BY <1>4 DEF Sorted
    <3>2. Home(d, u) \in Slices(d)
      BY <1>5, <3>1, HomeIsFirst DEF Taking
    <3> QED BY <1>2, <1>5, <3>1, <3>2, HomeIsFirst
  <2>2. \A u \in listed[d] : Home(d, u) > g => Home(d, u) > sg[d]
    BY <1>2, <1>4, <1>5, HomeIsFirst
  <2> QED BY <1>3, <1>6, <2>1, <2>2 DEF Sorted
<1> QED BY <1>2, <1>3, <1>4, <1>7, <1>8

LEMMA SortedStep ==
  ASSUME TypeOK, Coherent, NEW d \in Deployer, Sorted(d), Step(d)
  PROVE  Sorted(d)'
<1>1. CASE List(d)
  <2> DEFINE here == {u \in Selected(d) : content[u] # None}
  <2>1. /\ pc[d] = "list" /\ sg'[d] = sg[d] /\ loaded'[d] = loaded[d]
        /\ remaining'[d] = here /\ listed'[d] = here
        /\ pc'[d] # "list" /\ (pc'[d] = "cleanup" => Config[d].op # "run") /\ pc'[d] # "cleaning"
    BY <1>1 DEF TypeOK, List, Goto
  <2>2. sg[d] = 0 /\ loaded[d] = {}
    BY <2>1 DEF Sorted
  <2>3. \A u \in here : Home(d, u) > 0 /\ Home(d, u) # 0
    BY HomeIsFirst, SelectedTaking
  <2> QED BY <2>1, <2>2, <2>3 DEF Sorted
<1>2. CASE BeginSlice(d)
  BY <1>2, SliceBegins DEF Sorted
<1>3. CASE ~List(d) /\ ~BeginSlice(d)
  <2>1. /\ sg'[d] = sg[d] /\ remaining'[d] = remaining[d] /\ loaded'[d] = loaded[d]
        /\ listed'[d] = listed[d] /\ pc'[d] # "list"
        /\ pc'[d] \in {"cleanup", "cleaning"} =>
             pc[d] \in {"cleanup", "cleaning"} \/ EndSlices(d)
    BY <1>3, ListsStay
  <2>2. EndSlices(d) => \A g \in Slices(d) : g <= sg[d]
    BY NoNextSlice DEF EndSlices, TypeOK
  <2> QED BY <2>1, <2>2 DEF Sorted
<1> QED BY <1>1, <1>2, <1>3

-----------------------------------------------------------------------------
(* What the steps of the other deployers leave alone.                      *)

LEMMA FaultsStay ==
  ASSUME TypeOK, [Next]_vars, faults # 0
  PROVE  faults' # 0
<1> USE DEF TypeOK
<1>1. ASSUME Fault PROVE faults' # 0
  BY <1>1 DEF Fault
<1>2. ASSUME UNCHANGED bounds \/ UNCHANGED vars \/ \E u \in Unit : UnitFails(u) PROVE faults' # 0
  BY <1>2 DEF bounds, vars, UnitFails
<1>3. ASSUME NEW d \in Deployer, Progress(d) PROVE Fault \/ UNCHANGED bounds
  BY <1>3 DEF Progress, List, BeginSlice, EndSlices, CheckModified, CheckFailed,
     EndCheckModified, EndCheckFailed, SkipConfirm, StopReturns, StopUnit, DestroyUnit,
     JoinDestroy, CreateUnit, StartUnit, ApplyUnit, EndCreate, EndLaunch
<1>4. ASSUME NEW d \in Deployer, Operator(d) \/ Faulty(d) PROVE Fault \/ UNCHANGED bounds
  BY <1>4 DEF Operator, Confirm, ConfirmFails, ConfirmCleanup, Faulty, ListFails, LaunchFails,
     CheckFailedFails, ApplyFails, DestroyIsLost, DestroyFails
<1> QED BY <1>1, <1>2, <1>3, <1>4 DEF Next, Terminated

\* What a deployer removes or launches it selects.
LEMMA TouchedIsSelected ==
  ASSUME TypeOK, Coherent, NEW d \in Deployer, NEW u \in Unit, Removes(d, u) \/ Launches(d, u)
  PROVE  u \in Selected(d)
<1>1. PlanFits(d)
  BY DEF Coherent
<1>2. CASE Removes(d, u)
  BY <1>1, <1>2, TouchedIsPlanned DEF PlanFits
<1>3. CASE Launches(d, u)
  <2>1. sg[d] \in Slices(d) /\ Config[d].op = "run"
    BY <1>1, <1>3 DEF PlanFits, SlicePhase, Launches
  <2> QED BY <1>3, <2>1, TouchedIsPlanned, RenderedAtHome
<1> QED BY <1>2, <1>3

LEMMA OthersStay ==
  ASSUME TypeOK, Coherent, [Next]_vars, NEW d \in Deployer, Alone(d), ~Step(d)
  PROVE  UNCHANGED Own(d) /\ \A u \in Selected(d) : content'[u] = content[u]
<1>1. ASSUME NEW e \in Deployer, Step(e)
      PROVE  UNCHANGED Own(d) /\ \A u \in Selected(d) : content'[u] = content[u]
  <2>1. e # d
    BY <1>1
  <2>2. ASSUME NEW u \in Selected(d), content'[u] # content[u] PROVE FALSE
    <3>1. u \in Unit /\ (Removes(e, u) \/ Launches(e, u))
      BY <1>1, <2>2, SelectedTaking, StepTouches DEF Touches
    <3>2. u \in Selected(e)
      BY <3>1, TouchedIsSelected
    <3> QED BY <2>1, <3>2 DEF Alone
  <2> QED BY <1>1, <2>1, <2>2, OthersKeepTheirs
<1>2. CASE UNCHANGED vars \/ \E u \in Unit : UnitFails(u)
  BY <1>2 DEF vars, cluster, Own, planVars, destroyVars, uiVars, cacheVars, UnitFails
<1> QED BY <1>1, <1>2 DEF Next, Terminated, Step

-----------------------------------------------------------------------------
(* The status map.                                                         *)

\* A status map that is kept was fetched after the deployer last changed a unit, and
\* it is kept only through a slice in which there is nothing to destroy.
Recent(d) ==
  cached[d] =>
    /\ \A u \in Selected(d) : status[d][u] = "missing" <=> content[u] = None
    /\ pc[d] \notin {"create", "start"}
    /\ Working(d) => \A r \in Reason : WorkList(d, r) = {}

LEMMA RecentStep ==
  ASSUME TypeOK, Coherent, NEW d \in Deployer, Recent(d), Step(d)
  PROVE  Recent(d)'
<1> USE DEF TypeOK, Goto
<1>1. ASSUME \/ List(d) \/ ListFails(d) \/ BeginSlice(d) \/ EndSlices(d) \/ EndCheckModified(d)
             \/ EndCheckFailed(d) \/ ConfirmFails(d) \/ LaunchFails(d) \/ EndLaunch(d)
      PROVE  Recent(d)'
  <2>1. UNCHANGED <<cacheVars, cluster>> /\ pc'[d] \notin {"create", "start", "destroying", "cleaning"}
    BY <1>1 DEF List, ListFails, BeginSlice, EndSlices, EndCheckModified, EndCheckFailed,
                ConfirmFails, LaunchFails, EndLaunch
  <2> QED BY <2>1 DEF Recent, cacheVars, cluster, Working
<1>2. ASSUME NEW u \in Unit, CheckModified(d, u) \/ CheckFailedFails(d, u) PROVE Recent(d)'
  <2>1. /\ UNCHANGED <<cacheVars, cluster, pc>>
        /\ pc[d] \notin {"create", "start", "destroying", "cleaning"}
    BY <1>2 DEF CheckModified, CheckFailedFails
  <2> QED BY <2>1 DEF Recent, cacheVars, cluster, Working
<1>3. ASSUME NEW u \in Unit, CheckFailed(d, u) PROVE Recent(d)'
  <2>1. \/ UNCHANGED <<cached, status>>
        \/ status'[d] = state
        \/ ~cached'[d]
        \/ cached[d] /\ status'[d] = status[d]
    BY <1>3 DEF CheckFailed
  <2>2. /\ UNCHANGED <<cluster, pc>>
        /\ pc[d] \notin {"create", "start", "destroying", "cleaning"}
    BY <1>3 DEF CheckFailed
  <2> QED BY <2>1, <2>2, SelectedTaking DEF Recent, cluster, Working
<1>4. ASSUME NEW to \in {"destroying", "cleaning"}, SpawnDestroy(d, to), UNCHANGED <<sg, planVars>>,
             UNCHANGED cluster, pc[d] = IF to = "destroying" THEN "confirm" ELSE "cleanup"
      PROVE  Recent(d)'
  <2>1. pc'[d] = to
    BY <1>4 DEF SpawnDestroy
  <2>2. \A r \in Reason : WorkList(d, r)' = WorkList(d, r)
    BY <1>4, <2>1 DEF WorkList, Reason, Obsolete, planVars
  <2>3. CASE \A r \in Reason : WorkList(d, r) = {}
    BY <1>4, <2>1, <2>2, <2>3 DEF SpawnDestroy, Recent, cacheVars, cluster
  <2>4. CASE ~\A r \in Reason : WorkList(d, r) = {}
    BY <1>4, <2>4 DEF SpawnDestroy, ClearStatus, Recent
  <2> QED BY <2>3, <2>4
<1>5. CASE SkipConfirm(d) \/ Confirm(d)
  <2>1. SpawnDestroy(d, "destroying") /\ pc[d] = "confirm" /\ UNCHANGED <<cluster, sg, planVars>>
    BY <1>5 DEF SkipConfirm, Confirm
  <2> QED BY <1>4, <2>1
<1>6. CASE ConfirmCleanup(d)
  <2>1. SpawnDestroy(d, "cleaning") /\ pc[d] = "cleanup" /\ UNCHANGED <<cluster, sg, planVars>>
    BY <1>6 DEF ConfirmCleanup
  <2> QED BY <1>4, <2>1
<1>7. ASSUME NEW r \in Reason, NEW u \in Unit,
             \/ StopUnit(d, r, u) \/ DestroyUnit(d, r, u)
             \/ DestroyIsLost(d, r, u) \/ DestroyFails(d, r, u)
      PROVE  Recent(d)'
  <2>1. Working(d) /\ u \in WorkList(d, r) /\ UNCHANGED cacheVars
    BY <1>7 DEF StopUnit, DestroyUnit, DestroyIsLost, DestroyFails, Coherent, WorkFits
  <2>2. ~cached[d]
    BY <2>1 DEF Recent
  <2> QED BY <2>1, <2>2 DEF Recent, cacheVars
<1>8. ASSUME NEW r \in Reason, StopReturns(d, r) PROVE Recent(d)'
  <2>1. UNCHANGED <<cluster, pc, sg, planVars, cacheVars>>
    BY <1>8 DEF StopReturns
  <2>2. \A q \in Reason : WorkList(d, q)' = WorkList(d, q)
    BY <2>1 DEF WorkList, Reason, Obsolete, planVars
  <2> QED BY <2>1, <2>2 DEF Recent, cluster, cacheVars, Working
<1>9. CASE JoinDestroy(d)
  <2>1. /\ UNCHANGED cluster /\ pc'[d] \notin {"destroying", "cleaning", "start"}
        /\ \/ UNCHANGED cacheVars /\ pc'[d] # "create"
           \/ ~cached'[d]
    BY <1>9 DEF JoinDestroy, AfterJoin, ClearStatus, cacheVars
  <2> QED BY <2>1 DEF Recent, cluster, cacheVars, Working
<1>10. ASSUME \/ EndCreate(d)
              \/ \E u \in Unit : CreateUnit(d, u) \/ StartUnit(d, u) \/ ApplyUnit(d, u)
                                 \/ ApplyFails(d, u)
       PROVE  Recent(d)'
  <2>1. UNCHANGED cacheVars /\ pc[d] \in {"create", "start"}
    BY <1>10 DEF CreateUnit, StartUnit, ApplyUnit, ApplyFails, EndCreate
  <2> QED BY <2>1 DEF Recent, cacheVars
<1>11. CASE Progress(d)
  BY <1>11, <1>1, <1>2, <1>3, <1>5, <1>7, <1>8, <1>9, <1>10 DEF Progress
<1>12. CASE Operator(d)
  BY <1>12, <1>1, <1>5, <1>6 DEF Operator
<1>13. CASE Faulty(d)
  BY <1>13, <1>1, <1>2, <1>7, <1>10 DEF Faulty
<1> QED BY <1>11, <1>12, <1>13 DEF Step

-----------------------------------------------------------------------------
(* What is taken away.                                                     *)

\* What destroyUnits is given is of the current slice, or of no slice at all; of what
\* the job wants it is given, on fleet only, what was found modified or failed.
LEMMA WorkIsPlaced ==
  ASSUME TypeOK, Coherent, NEW d \in Deployer, Sorted(d), Working(d),
         NEW r \in Reason, NEW u \in WorkList(d, r)
  PROVE  /\ u \in Unit /\ u \in listed[d] /\ u \in Selected(d)
         /\ Home(d, u) = IF pc[d] = "destroying" THEN sg[d] ELSE End(d)
         /\ u \in Wanted(d) =>
              /\ pc[d] = "destroying" /\ ~Kubernetes
              /\ \/ r = "update" /\ u \in modified[d]
                 \/ r = "failed" /\ u \in failed[d]
<1>1. u \in Unit
  BY ListsAreUnits
<1>2. PlanFits(d)
  BY DEF Coherent
<1>3. CASE pc[d] = "destroying"
  <2>1. u \in loaded[d] /\ u \in listed[d] /\ u \in Selected(d)
    BY <1>2, <1>3 DEF WorkList, Obsolete, PlanFits, NotObsolete, Reason
  <2>2. Home(d, u) = sg[d]
    BY <2>1 DEF Sorted
  <2>3. sg[d] \in Slices(d) /\ Config[d].op = "run"
    BY <1>2, <1>3 DEF PlanFits, SlicePhase
  <2>4. u \in Wanted(d) => u \notin Obsolete(d)
    BY <1>1, <2>2, <2>3, RenderedAtHome DEF Obsolete
  <2>5. \/ u \in Obsolete(d)
        \/ ~Kubernetes /\ r = "update" /\ u \in modified[d]
        \/ ~Kubernetes /\ r = "failed" /\ u \in failed[d]
    BY <1>3 DEF WorkList, Reason
  <2> QED BY <1>1, <1>3, <2>1, <2>2, <2>4, <2>5
<1>4. CASE pc[d] = "cleaning"
  <2>1. u \in remaining[d] /\ u \in listed[d] /\ u \in Selected(d)
    BY <1>2, <1>4 DEF WorkList, PlanFits
  <2>2. sg[d] \in Nat /\ Home(d, u) > sg[d]
    BY <2>1 DEF Sorted, TypeOK
  <2>3. Home(d, u) = End(d)
    BY <1>1, <1>4, <2>2, HomeIsFirst, SlicesAreBounded DEF Sorted, Taking
  <2>4. u \notin Wanted(d)
    BY <1>1, <2>3, RenderedAtHome, SlicesAreBounded
  <2> QED BY <1>1, <1>4, <2>1, <2>3, <2>4
<1> QED BY <1>3, <1>4 DEF Working

\* What the three ways to end the destruction of one unit have in common.
LEMMA OneIsDestroyed ==
  ASSUME TypeOK, Coherent, NEW d \in Deployer, NEW r \in Reason, NEW u \in Unit,
         DestroyUnit(d, r, u) \/ DestroyIsLost(d, r, u) \/ DestroyFails(d, r, u)
  PROVE  /\ Working(d) /\ r \notin stopping[d] /\ u \in doomed[d][r] /\ u \in WorkList(d, r)
         /\ UNCHANGED <<pc, sg, planVars, stopping, listed>>
         /\ doomed'[d] = [doomed[d] EXCEPT ![r] = doomed[d][r] \ {u}]
         /\ UNCHANGED content \/ content' = [content EXCEPT ![u] = None]
         /\ content'[u] = None \/ u \in missed'[d] \/ opFailed'[d]
         /\ missed[d] \subseteq missed'[d] /\ (opFailed[d] => opFailed'[d])
<1>1. /\ Working(d) /\ r \notin stopping[d] /\ u \in doomed[d][r]
      /\ UNCHANGED <<pc, sg, planVars, stopping, listed>>
      /\ doomed' = [doomed EXCEPT ![d][r] = @ \ {u}]
  BY DEF DestroyUnit, DestroyIsLost, DestroyFails, uiVars
<1>2. u \in WorkList(d, r)
  BY <1>1 DEF Coherent, WorkFits
<1>3. doomed'[d] = [doomed[d] EXCEPT ![r] = doomed[d][r] \ {u}]
  BY <1>1 DEF TypeOK
<1>4. \/ UNCHANGED content
      \/ content' = [content EXCEPT ![u] = None]
  BY DEF DestroyUnit, DestroyIsLost, DestroyFails, cluster
<1>5. /\ content'[u] = None \/ u \in missed'[d] \/ opFailed'[d]
      /\ missed[d] \subseteq missed'[d] /\ (opFailed[d] => opFailed'[d])
  BY DEF TypeOK, DestroyUnit, DestroyIsLost, DestroyFails, uiVars
<1> QED BY <1>1, <1>2, <1>3, <1>4, <1>5 DEF TypeOK

\* A unit counts as modified because it differs from what the job file says, because of
\* --force, or because the question failed.
Changed(d) ==
  pc[d] \in {"checkModified", "checkFailed", "confirm", "destroying"} =>
    \A u \in modified[d] : Config[d].force \/ faults # 0 \/ HasChanged(d, u)

LEMMA ChangedStep ==
  ASSUME TypeOK, Coherent, NEW d \in Deployer, Changed(d), Step(d), [Next]_vars
  PROVE  Changed(d)'
<1> DEFINE Places == {"checkModified", "checkFailed", "confirm", "destroying"}
<1> USE DEF TypeOK, Goto
<1>1. ASSUME \/ List(d) \/ ListFails(d) \/ EndSlices(d) \/ ConfirmFails(d) \/ ConfirmCleanup(d)
             \/ JoinDestroy(d) \/ EndCreate(d) \/ LaunchFails(d) \/ EndLaunch(d)
             \/ \E u \in Unit : CreateUnit(d, u) \/ StartUnit(d, u) \/ ApplyUnit(d, u)
                                \/ ApplyFails(d, u)
      PROVE  pc'[d] \notin Places
  BY <1>1 DEF List, ListFails, EndSlices, ConfirmFails, ConfirmCleanup, SpawnDestroy,
     JoinDestroy, AfterJoin, EndCreate, LaunchFails, EndLaunch, CreateUnit, StartUnit,
     ApplyUnit, ApplyFails
<1>2. ASSUME BeginSlice(d) PROVE Changed(d)'
  BY <1>2 DEF BeginSlice, Changed
<1>3. ASSUME NEW u \in Unit, CheckModified(d, u) PROVE Changed(d)'
  <2>1. /\ UNCHANGED <<content, pc>> /\ pc[d] \in Places
        /\ \/ modified'[d] = modified[d]
           \/ /\ modified'[d] = modified[d] \cup {u}
              /\ Config[d].force \/ HasChanged(d, u) \/ faults' # 0
    BY <1>3 DEF CheckModified, Fault, cluster
  <2> QED BY <2>1, FaultsStay DEF Changed, HasChanged
<1>4. ASSUME \/ EndCheckModified(d) \/ EndCheckFailed(d) \/ SkipConfirm(d) \/ Confirm(d)
             \/ \E u \in Unit : CheckFailed(d, u) \/ CheckFailedFails(d, u)
             \/ \E r \in Reason : StopReturns(d, r)
             \/ \E r \in Reason, u \in Unit : StopUnit(d, r, u)
      PROVE  Changed(d)'
  <2>1. /\ UNCHANGED <<content, modified>>
        /\ pc'[d] \in Places => pc[d] \in Places
    BY <1>4 DEF EndCheckModified, EndCheckFailed, SkipConfirm, Confirm, SpawnDestroy, CheckFailed,
       CheckFailedFails, StopReturns, StopUnit, cluster, planVars
  <2> QED BY <2>1, FaultsStay DEF Changed, HasChanged
<1>5. ASSUME NEW r \in Reason, NEW u \in Unit,
             DestroyUnit(d, r, u) \/ DestroyIsLost(d, r, u) \/ DestroyFails(d, r, u)
      PROVE  Changed(d)'
  <2> HIDE DEF TypeOK
  <2>3. UNCHANGED content \/ content' = [content EXCEPT ![u] = None]
    BY <1>5, OneIsDestroyed
  <2>4. UNCHANGED <<pc, planVars>>
    BY <1>5, OneIsDestroyed
  <2>1. /\ UNCHANGED <<pc, modified>>
        /\ \A v \in Unit : content'[v] \in {content[v], None}
    BY <2>3, <2>4 DEF planVars, TypeOK
  <2>2. \A v \in Unit : Config[d].content[v] # None
    BY ConfigAssumption, UnitAssumption
  <2> QED BY <2>1, <2>2, FaultsStay DEF Changed, HasChanged, TypeOK
<1>6. CASE Progress(d)
  BY <1>6, <1>1, <1>2, <1>3, <1>4, <1>5 DEF Progress, Changed
<1>7. CASE Operator(d)
  BY <1>7, <1>1, <1>4 DEF Operator, Changed
<1>8. CASE Faulty(d)
  BY <1>8, <1>1, <1>4, <1>5 DEF Faulty, Changed
<1> QED BY <1>6, <1>7, <1>8 DEF Step

\* Of the units that were there when the run began and are to stay, one is absent only
\* between its removal and its creation, or after a run that stopped in between.
Absent(d, u) ==
  /\ ~Kubernetes /\ Home(d, u) = sg[d]
  /\ \/ pc[d] = "aborted"
     \/ pc[d] = "destroying" /\ u \in modified[d] \cup failed[d]
     \/ pc[d] = "create" /\ u \in todo[d]

Present(d) == \A u \in listed[d] \cap Wanted(d) : content[u] = None => Absent(d, u)

LEMMA PresentStep ==
  ASSUME TypeOK, Coherent, NEW d \in Deployer, Sorted(d), Present(d), Step(d)
  PROVE  Present(d)'
<1> USE DEF TypeOK, Goto
<1> DEFINE Quiet == {"slice", "checkModified", "checkFailed", "confirm", "cleanup", "cleaning", "start"}
<1>0. Wanted(d)' = Wanted(d) /\ \A u : Home(d, u)' = Home(d, u)
  BY DEF Wanted, Home, Taking
<1>1. CASE List(d)
  BY <1>1 DEF List, Present, cluster
<1>2. CASE ListFails(d)
  BY <1>2 DEF ListFails, Present, Sorted, uiVars
\* Nothing is absent in these places, and a step from there takes nothing away.
<1>3. ASSUME pc[d] \in Quiet, UNCHANGED content, listed'[d] = listed[d]
      PROVE  Present(d)'
  BY <1>0, <1>3 DEF Present, Absent
<1>4. ASSUME \/ BeginSlice(d) \/ EndSlices(d) \/ EndCheckModified(d) \/ EndCheckFailed(d)
             \/ SkipConfirm(d) \/ Confirm(d) \/ ConfirmFails(d) \/ ConfirmCleanup(d)
             \/ \E u \in Unit : \/ CheckModified(d, u) \/ CheckFailed(d, u)
                                \/ CheckFailedFails(d, u) \/ StartUnit(d, u)
      PROVE  Present(d)'
  <2>1. /\ pc[d] \in Quiet /\ UNCHANGED content /\ listed'[d] = listed[d]
    BY <1>4 DEF BeginSlice, EndSlices, EndCheckModified, EndCheckFailed, SkipConfirm, Confirm,
       ConfirmFails, ConfirmCleanup, CheckModified, CheckFailed, CheckFailedFails, StartUnit,
       cluster, uiVars
  <2> QED BY <1>3, <2>1
<1>5. ASSUME \/ \E r \in Reason : StopReturns(d, r)
             \/ \E r \in Reason, u \in Unit : StopUnit(d, r, u)
      PROVE  Present(d)'
  <2>1. UNCHANGED <<content, pc, sg, modified, failed, todo, listed>>
    BY <1>5 DEF StopReturns, StopUnit, cluster, planVars, uiVars
  <2> QED BY <1>0, <2>1 DEF Present, Absent
<1>6. ASSUME NEW r \in Reason, NEW u \in Unit,
             DestroyUnit(d, r, u) \/ DestroyIsLost(d, r, u) \/ DestroyFails(d, r, u)
      PROVE  Present(d)'
  <2> HIDE DEF TypeOK
  <2>1. /\ Working(d) /\ u \in WorkList(d, r)
        /\ UNCHANGED <<pc, sg, modified, failed, todo, listed>>
        /\ \A v \in Unit \ {u} : content'[v] = content[v]
    <3>1. UNCHANGED content \/ content' = [content EXCEPT ![u] = None]
      BY <1>6, OneIsDestroyed
    <3>2. Working(d) /\ u \in WorkList(d, r) /\ UNCHANGED <<pc, sg, planVars, listed>>
      BY <1>6, OneIsDestroyed
    <3> QED BY <3>1, <3>2 DEF planVars, TypeOK
  <2>2. u \in Wanted(d) => Absent(d, u)
    BY <2>1, WorkIsPlaced DEF Absent
  <2>3. listed[d] \subseteq Unit
    BY DEF TypeOK
  <2> QED BY <1>0, <2>1, <2>2, <2>3 DEF Present, Absent
<1>7. CASE JoinDestroy(d)
  <2>1. UNCHANGED <<content, sg, listed, modified, failed>> /\ Working(d)
    BY <1>7 DEF JoinDestroy, cluster, uiVars
  <2> SUFFICES ASSUME NEW u \in listed[d] \cap Wanted(d), content[u] = None
               PROVE  Absent(d, u)'
    BY <1>0, <2>1 DEF Present
  <2>2. Absent(d, u) /\ pc[d] = "destroying" /\ u \in modified[d] \cup failed[d]
    BY <2>1 DEF Present, Absent, Working
  <2>3. sg[d] \in Slices(d) /\ Config[d].op = "run"
    BY <2>2 DEF Coherent, PlanFits, SlicePhase
  <2>4. u \in ToLaunch(d)
    BY <2>2, <2>3, RenderedAtHome DEF Absent, ToLaunch
  <2>5. \/ pc'[d] = "aborted"
        \/ pc'[d] = "create" /\ todo'[d] = ToLaunch(d)
    BY <1>7, <2>2, <2>4 DEF JoinDestroy, AfterJoin
  <2> QED BY <1>0, <2>1, <2>2, <2>4, <2>5 DEF Absent
<1>8. ASSUME NEW u \in Unit, CreateUnit(d, u) PROVE Present(d)'
  <2>1. /\ UNCHANGED <<pc, sg, listed, modified, failed>> /\ pc[d] = "create"
        /\ todo'[d] = todo[d] \ {u} /\ content'[u] # None
        /\ \A v \in Unit \ {u} : content'[v] = content[v]
    BY <1>8, ConfigAssumption, UnitAssumption DEF CreateUnit, cluster, uiVars
  <2> QED BY <1>0, <2>1 DEF Present, Absent
<1>9. CASE EndCreate(d)
  BY <1>0, <1>9 DEF EndCreate, Present, Absent, cluster, uiVars
<1>10. CASE LaunchFails(d)
  <2>1. UNCHANGED <<content, sg, listed>> /\ pc'[d] = "aborted"
    BY <1>10 DEF LaunchFails, cluster, uiVars
  <2> QED BY <1>0, <2>1 DEF Present, Absent
<1>11. ASSUME NEW u \in Unit, ApplyUnit(d, u) \/ ApplyFails(d, u) PROVE Present(d)'
  <2>1. /\ Kubernetes /\ UNCHANGED listed
        /\ \A v \in Unit : content'[v] = content[v] \/ content'[v] # None
    BY <1>11, ConfigAssumption, UnitAssumption DEF ApplyUnit, ApplyFails, cluster, uiVars
  <2> QED BY <1>0, <2>1 DEF Present, Absent
<1>12. CASE EndLaunch(d)
  BY <1>0, <1>12, KindAssumption DEF EndLaunch, Present, Absent, cluster, uiVars
<1>13. CASE Progress(d)
  BY <1>13, <1>1, <1>4, <1>5, <1>6, <1>7, <1>8, <1>9, <1>11, <1>12 DEF Progress
<1>14. CASE Operator(d)
  BY <1>14, <1>4 DEF Operator
<1>15. CASE Faulty(d)
  BY <1>15, <1>2, <1>4, <1>6, <1>10, <1>11 DEF Faulty
<1> QED BY <1>13, <1>14, <1>15 DEF Step

-----------------------------------------------------------------------------
(* The invariant, and the safety properties that follow from it.           *)

Sliced(d) == Sorted(d) /\ Recent(d) /\ Changed(d) /\ Present(d)

LEMMA SlicedAtFirst ==
  ASSUME Init, NEW d \in Deployer
  PROVE  Sliced(d)
<1>1. Sorted(d)
  BY DEF Init, Sorted
<1>2. Recent(d) /\ Changed(d) /\ Present(d)
  BY DEF Init, Recent, Changed, Present
<1> QED BY <1>1, <1>2 DEF Sliced

\* The invariant depends on what is the deployer's own and on the units it selects.
LEMMA SlicedByOwn ==
  ASSUME TypeOK, Coherent, [Next]_vars, NEW d \in Deployer, Sliced(d),
         UNCHANGED Own(d), \A u \in Selected(d) : content'[u] = content[u]
  PROVE  Sliced(d)'
<1>1. /\ pc'[d] = pc[d] /\ sg'[d] = sg[d] /\ remaining'[d] = remaining[d]
      /\ loaded'[d] = loaded[d] /\ todo'[d] = todo[d] /\ modified'[d] = modified[d]
      /\ failed'[d] = failed[d] /\ listed'[d] = listed[d]
      /\ cached'[d] = cached[d] /\ status'[d] = status[d]
  BY DEF Own
<1>2. \A r \in Reason : WorkList(d, r)' = WorkList(d, r)
  BY <1>1 DEF WorkList, Reason, Obsolete
<1>3. Sorted(d)'
  BY <1>1 DEF Sliced, Sorted, Home, Taking
<1>4. Recent(d)'
  BY <1>1, <1>2 DEF Sliced, Recent, Working
<1>5. Changed(d)'
  <2>1. \A u \in modified[d] : u \in Selected(d)
    BY DEF Coherent, PlanFits, NotObsolete
  <2> QED BY <1>1, <2>1, FaultsStay DEF Sliced, Changed, HasChanged
<1>6. Present(d)'
  <2>1. \A u \in listed[d] : u \in Selected(d)
    BY DEF Coherent, PlanFits
  <2> QED BY <1>1, <2>1 DEF Sliced, Present, Absent, Wanted, Home, Taking
<1> QED BY <1>3, <1>4, <1>5, <1>6 DEF Sliced

LEMMA SlicedIsKept ==
  ASSUME TypeOK, Coherent, [Next]_vars, NEW d \in Deployer, Alone(d), Sliced(d)
  PROVE  Sliced(d)'
<1>1. CASE Step(d)
  BY <1>1, SortedStep, RecentStep, ChangedStep, PresentStep DEF Sliced
<1>2. CASE ~Step(d)
  BY <1>2, OthersStay, SlicedByOwn
<1> QED BY <1>1, <1>2

\* Among deployers of which no two select the same unit, the lists of each hold what
\* their names say of the units it selects, its status map is no older than its last
\* change, what it counts as modified is, and what it takes away is of its slice.
THEOREM SlicedAlways ==
  ASSUME \A d \in Deployer : Alone(d)
  PROVE  Spec => [](\A d \in Deployer : Sliced(d))
<1> DEFINE I == \A d \in Deployer : Sliced(d)
<1>1. Init => I
  BY SlicedAtFirst
<1>2. TypeOK /\ Coherent /\ I /\ [Next]_vars => I'
  BY SlicedIsKept
<1> QED BY <1>1, <1>2, TypeCorrect, CoherentAlways, PTL DEF Spec

\* The status map a fleet deployer answers from agrees with the cluster on which of its
\* units exist, as long as nobody else deploys them.
THEOREM StatusIsRecent ==
  ASSUME \A d \in Deployer : Alone(d)
  PROVE  Spec => []CachedStatusIsRecent
<1>1. (\A d \in Deployer : Sliced(d)) => CachedStatusIsRecent
  BY DEF Sliced, Recent, CachedStatusIsRecent
<1> QED BY <1>1, SlicedAlways, PTL

\* At most one slice of a job is down while it is updated, on fleet; none on kubernetes.
THEOREM OneSliceAtATime ==
  ASSUME \A d \in Deployer : Alone(d)
  PROVE  Spec => []OneSliceDown
<1>1. TypeOK /\ (\A d \in Deployer : Sliced(d)) => OneSliceDown
  <2> SUFFICES ASSUME TypeOK, NEW d \in Deployer, Sliced(d),
                      NEW u \in listed[d] \cap Wanted(d), content[u] = None
               PROVE  ~Kubernetes /\ Meta[u].slice = sg[d]
    BY DEF OneSliceDown
  <2>1. u \in Unit
    BY DEF TypeOK
  <2>2. ~Kubernetes /\ Home(d, u) = sg[d]
    BY DEF Sliced, Present, Absent
  <2> QED BY <2>1, <2>2, RenderedAtHome
<1> QED BY <1>1, TypeCorrect, SlicedAlways, PTL

\* A unit that is what the job asks for is taken down only when it was seen to have
\* failed, when a call failed, or with --force.
THEOREM CurrentUnitsStay ==
  ASSUME \A d \in Deployer : Alone(d)
  PROVE  Spec => CurrentUnitsSurvive
<1> DEFINE A == \A d \in Deployer : \A u \in Wanted(d) :
                  content[u] = Config[d].content[u] /\ content'[u] # content[u] =>
                    Config[d].force \/ u \in failed[d] \/ faults # 0
<1>1. TypeOK /\ Coherent /\ (\A d \in Deployer : Sliced(d)) /\ [Next]_vars => [A]_vars
  <2> SUFFICES ASSUME TypeOK, Coherent, \A d \in Deployer : Sliced(d), [Next]_vars,
                      NEW d \in Deployer, NEW u \in Wanted(d),
                      content[u] = Config[d].content[u], content'[u] # content[u]
               PROVE  Config[d].force \/ u \in failed[d] \/ faults # 0
    OBVIOUS
  <2>1. u \in Unit /\ u \in Selected(d)
    <3>1. u \in Unit
      BY ConfigAssumption DEF Wanted, Generated
    <3> QED BY <3>1, RenderedAtHome
  <2>2. PICK e \in Deployer : Touches(e, u)
    BY <2>1, WhoTouches
  <2>3. e = d
    BY <2>1, <2>2, TouchedIsSelected DEF Touches, Alone
  <2>4. Removes(d, u)
    BY <2>2, <2>3 DEF Touches
  <2>5. PICK r \in Reason : u \in WorkList(d, r)
    BY <2>4 DEF Removes, Coherent, WorkFits
  <2>6. Working(d) /\ Sorted(d) /\ Changed(d)
    BY <2>4 DEF Removes, Sliced
  <2>7. pc[d] = "destroying" /\ (u \in modified[d] \/ u \in failed[d])
    BY <2>5, <2>6, WorkIsPlaced
  <2> QED BY <2>6, <2>7 DEF Changed, HasChanged
<1> QED BY <1>1, TypeCorrect, CoherentAlways, SlicedAlways, PTL DEF Spec, CurrentUnitsSurvive

-----------------------------------------------------------------------------
(* What becomes of the units.                                              *)

\* u is as it should be, or fleet lost its removal.
Settled(d, u) == content[u] = Due(d, u) \/ u \in missed[d]

\* A unit whose slice is to come is on the list, unless there is none.
Awaited(d, u) ==
  Home(d, u) > sg[d] /\ pc[d] # "list" => u \in remaining[d] \/ content[u] = None

\* A unit whose slice has been is settled.
Past(d, u) == Home(d, u) < sg[d] => Settled(d, u)

\* A unit of the current slice is in the list of the slice, and one that is to stay is
\* found modified or failed unless it is what it should be, until destroyUnits is done.
Judged(d, u) ==
  pc[d] \in {"checkModified", "checkFailed", "confirm", "destroying"} =>
    /\ u \in loaded[d] \/ content[u] = None
    /\ u \in NotObsolete(d) =>
         \/ u \in modified[d] \/ content[u] = Config[d].content[u]
         \/ pc[d] = "checkModified" /\ u \in todo[d]
         \/ pc[d] = "destroying" /\ u \in failed[d]

\* Start has still to bring it, and on fleet it is gone, or it is settled.
Launched(d, u) ==
  pc[d] = "create" =>
    Settled(d, u) \/ (u \in todo[d] /\ (Kubernetes \/ content[u] = None)) \/ opFailed[d]

Brought(d, u) == pc[d] \in {"slice", "start", "cleanup", "cleaning"} => Settled(d, u)

Now(d, u) == Home(d, u) = sg[d] => Judged(d, u) /\ Launched(d, u) /\ Brought(d, u)

Settling(d) ==
  ~Ended(d) => \A u \in Selected(d) : Awaited(d, u) /\ Past(d, u) /\ Now(d, u)

\* What destroyUnits was given is gone or missed, unless a goroutine has still to do it.
Doing(d) ==
  /\ Kubernetes \/ ~opFailed[d]
  /\ Working(d) => \A r \in Reason : \A u \in WorkList(d, r) :
       \/ r \in stopping[d] \/ u \in doomed[d][r]
       \/ content[u] = None \/ u \in missed[d] \/ opFailed[d]

LEMMA DoingStep ==
  ASSUME TypeOK, Coherent, NEW d \in Deployer, Doing(d), Step(d)
  PROVE  Doing(d)'
<1> USE KindAssumption DEF TypeOK, Goto
\* These steps do not work.
<1>1. ASSUME \/ List(d) \/ ListFails(d) \/ BeginSlice(d) \/ EndSlices(d) \/ EndCheckModified(d)
             \/ EndCheckFailed(d) \/ ConfirmFails(d) \/ LaunchFails(d) \/ EndLaunch(d)
             \/ JoinDestroy(d) \/ EndCreate(d)
             \/ \E u \in Unit : CheckModified(d, u) \/ CheckFailed(d, u) \/ CheckFailedFails(d, u)
                                \/ CreateUnit(d, u) \/ StartUnit(d, u) \/ ApplyUnit(d, u)
      PROVE  Doing(d)'
  <2>1. UNCHANGED opFailed /\ pc'[d] \notin {"destroying", "cleaning"}
    BY <1>1 DEF List, ListFails, BeginSlice, EndSlices, EndCheckModified,
       EndCheckFailed, ConfirmFails, LaunchFails, EndLaunch, JoinDestroy, AfterJoin, EndCreate,
       CheckModified, CheckFailed, CheckFailedFails, CreateUnit, StartUnit, ApplyUnit, destroyVars
  <2> QED BY <2>1 DEF Doing, Working
<1>2. ASSUME NEW u \in Unit, ApplyFails(d, u) PROVE Doing(d)'
  <2>1. Kubernetes /\ pc'[d] \notin {"destroying", "cleaning"}
    BY <1>2 DEF ApplyFails
  <2> QED BY <2>1 DEF Doing, Working
<1>3. ASSUME NEW to \in {"destroying", "cleaning"}, SpawnDestroy(d, to), UNCHANGED <<sg, planVars>>,
             pc[d] = IF to = "destroying" THEN "confirm" ELSE "cleanup"
      PROVE  Doing(d)'
  <2>1. pc'[d] = to
    BY <1>3 DEF SpawnDestroy
  <2>2. \A r \in Reason : WorkList(d, r)' = WorkList(d, r)
    BY <1>3, <2>1 DEF WorkList, Reason, Obsolete, planVars
  <2>3. opFailed'[d] = FALSE /\ \A r \in Reason : doomed'[d][r] = WorkList(d, r)
    BY <1>3 DEF SpawnDestroy
  <2> QED BY <2>2, <2>3 DEF Doing
<1>4. CASE SkipConfirm(d) \/ Confirm(d)
  <2>1. SpawnDestroy(d, "destroying") /\ pc[d] = "confirm" /\ UNCHANGED <<sg, planVars>>
    BY <1>4 DEF SkipConfirm, Confirm
  <2> QED BY <1>3, <2>1
<1>5. CASE ConfirmCleanup(d)
  <2>1. SpawnDestroy(d, "cleaning") /\ pc[d] = "cleanup" /\ UNCHANGED <<sg, planVars>>
    BY <1>5 DEF ConfirmCleanup
  <2> QED BY <1>3, <2>1
<1>6. ASSUME UNCHANGED <<pc, sg, planVars>>
      PROVE  Working(d)' = Working(d) /\ \A r \in Reason : WorkList(d, r)' = WorkList(d, r)
  BY <1>6 DEF WorkList, Reason, Obsolete, planVars, Working
<1>7. ASSUME NEW r \in Reason, NEW u \in Unit, StopUnit(d, r, u) PROVE Doing(d)'
  <2>1. /\ UNCHANGED <<content, pc, sg, planVars, stopping, opFailed, missed>> /\ r \in stopping[d]
        /\ \A q \in Reason \ {r} : doomed'[d][q] = doomed[d][q]
    BY <1>7 DEF StopUnit, uiVars
  <2> QED BY <1>6, <2>1 DEF Doing
<1>8. ASSUME NEW r \in Reason, StopReturns(d, r) PROVE Doing(d)'
  <2>1. /\ UNCHANGED <<content, pc, sg, planVars, opFailed, missed>>
        /\ stopping'[d] = stopping[d] \ {r} /\ doomed'[d][r] = WorkList(d, r)
        /\ \A q \in Reason \ {r} : doomed'[d][q] = doomed[d][q]
    BY <1>8 DEF StopReturns, uiVars, cluster
  <2> QED BY <1>6, <2>1 DEF Doing
<1>9. ASSUME NEW r \in Reason, NEW u \in Unit,
             DestroyUnit(d, r, u) \/ DestroyIsLost(d, r, u) \/ DestroyFails(d, r, u)
      PROVE  Doing(d)'
  <2> HIDE DEF TypeOK
  <2>1. UNCHANGED content \/ content' = [content EXCEPT ![u] = None]
    BY <1>9, OneIsDestroyed
  <2>2. /\ UNCHANGED <<pc, sg, planVars, stopping>> /\ Working(d)
        /\ doomed'[d] = [doomed[d] EXCEPT ![r] = doomed[d][r] \ {u}]
    BY <1>9, OneIsDestroyed
  <2>3. /\ content'[u] = None \/ u \in missed'[d] \/ opFailed'[d]
        /\ missed[d] \subseteq missed'[d] /\ (opFailed[d] => opFailed'[d])
    BY <1>9, OneIsDestroyed
  <2>4. Kubernetes \/ UNCHANGED opFailed
    BY <1>9 DEF DestroyUnit, DestroyIsLost, DestroyFails
  <2>5. \A v \in Unit : content[v] = None => content'[v] = None
    BY <2>1 DEF TypeOK
  <2>6. /\ \A q \in Reason : \A v \in Unit \ {u} : v \in doomed[d][q] => v \in doomed'[d][q]
        /\ \A q \in Reason \ {r} : doomed'[d][q] = doomed[d][q]
    BY <2>2 DEF TypeOK
  <2>7. \A q \in Reason : WorkList(d, q) \subseteq Unit
    BY ListsAreUnits
  <2>8. Kubernetes \/ ~opFailed'[d]
    BY <2>4 DEF Doing
  <2> SUFFICES ASSUME NEW q \in Reason, NEW v \in WorkList(d, q)
               PROVE  \/ q \in stopping'[d] \/ v \in doomed'[d][q]
                      \/ content'[v] = None \/ v \in missed'[d] \/ opFailed'[d]
    BY <1>6, <2>2, <2>8 DEF Doing
  <2>9. \/ q \in stopping[d] \/ v \in doomed[d][q]
        \/ content[v] = None \/ v \in missed[d] \/ opFailed[d]
    BY <2>2 DEF Doing
  <2> QED BY <2>2, <2>3, <2>5, <2>6, <2>7, <2>9
<1>10. CASE Progress(d)
  BY <1>10, <1>1, <1>4, <1>7, <1>8, <1>9 DEF Progress
<1>11. CASE Operator(d)
  BY <1>11, <1>1, <1>4, <1>5 DEF Operator
<1>12. CASE Faulty(d)
  BY <1>12, <1>1, <1>2, <1>9 DEF Faulty
<1> QED BY <1>10, <1>11, <1>12 DEF Step

\* What the slice of a unit makes of it.
LEMMA DueIsContent ==
  ASSUME NEW d \in Deployer, Config[d].op = "run", sg[d] \in Slices(d),
         NEW u \in Unit, Home(d, u) = sg[d]
  PROVE  /\ u \in Generated(d, sg[d]) => Due(d, u) = Config[d].content[u]
         /\ u \notin Generated(d, sg[d]) => Due(d, u) = None
BY RenderedAtHome DEF Due

\* When destroyUnits has returned without an error, what is left of the slice is to be
\* launched or settled.
LEMMA AfterDestroy ==
  ASSUME TypeOK, Coherent, NEW d \in Deployer, Settling(d), Doing(d), pc[d] = "destroying",
         stopping[d] = {}, \A r \in Reason : doomed[d][r] = {}, ~opFailed[d],
         NEW u \in Selected(d), Home(d, u) = sg[d]
  PROVE  Settled(d, u) \/ (u \in ToLaunch(d) /\ (Kubernetes \/ content[u] = None))
<1> USE KindAssumption
<1>1. Config[d].op = "run" /\ sg[d] \in Slices(d) /\ u \in Unit
  BY SelectedTaking DEF Coherent, PlanFits, SlicePhase
<1>2. Judged(d, u)
  BY DEF Settling, Now, Ended
<1>3. \A r \in Reason : u \in WorkList(d, r) => content[u] = None \/ u \in missed[d]
  BY DEF Doing, Working
<1>4. CASE u \in Generated(d, sg[d])
  <2>1. Due(d, u) = Config[d].content[u]
    BY <1>1, <1>4, DueIsContent
  <2>2. CASE u \notin loaded[d]
    BY <1>2, <1>4, <2>2 DEF Judged, ToLaunch, New
  <2>3. CASE u \in loaded[d] /\ u \notin modified[d] \cup failed[d]
    BY <1>2, <1>4, <2>1, <2>3 DEF Judged, NotObsolete, Settled
  <2>4. CASE u \in modified[d] \cup failed[d]
    <3>1. u \in ToLaunch(d)
      BY <1>4, <2>4 DEF ToLaunch
    <3>2. Kubernetes \/ u \in WorkList(d, "update") \/ u \in WorkList(d, "failed")
      BY <2>4 DEF WorkList
    <3> QED BY <1>3, <3>1, <3>2 DEF Reason, Settled
  <2> QED BY <2>2, <2>3, <2>4
<1>5. CASE u \notin Generated(d, sg[d])
  <2>1. Due(d, u) = None
    BY <1>1, <1>5, DueIsContent
  <2>2. u \in loaded[d] => u \in WorkList(d, "obsolete")
    BY <1>5 DEF WorkList, Obsolete
  <2> QED BY <1>2, <1>3, <2>1, <2>2 DEF Judged, Reason, Settled
<1> QED BY <1>4, <1>5

\* A unit stays settled as long as its content stays.
LEMMA SettledStays ==
  ASSUME NEW d \in Deployer, NEW u, content'[u] = content[u], missed[d] \subseteq missed'[d],
         Settled(d, u)
  PROVE  Settled(d, u)'
BY DEF Settled, Due, Wanted

\* A step leaves every unit of the selection placed, judged, launched or settled.
LEMMA SettlingStep ==
  ASSUME TypeOK, Coherent, NEW d \in Deployer, Sorted(d), Settling(d), Doing(d), Step(d)
  PROVE  Settling(d)'
<1> USE KindAssumption DEF TypeOK, Goto
<1>0. /\ Selected(d) \subseteq Unit /\ \A u : Home(d, u)' = Home(d, u) /\ Due(d, u)' = Due(d, u)
      /\ \A u \in Selected(d) : Home(d, u) \in Nat /\ Home(d, u) > 0
  BY HomeIsFirst, SelectedTaking DEF Wanted, Home, Taking, Due
<1>1. ASSUME List(d) PROVE Settling(d)'
  <2>1. /\ pc'[d] \in {"done", "cleanup", "slice", "panic"} /\ sg'[d] = 0 /\ UNCHANGED content
        /\ remaining'[d] = {u \in Selected(d) : content[u] # None}
    BY <1>1 DEF List, Sorted, cluster
  <2> QED BY <1>0, <2>1 DEF Settling, Awaited, Past, Now
\* The run is over.
<1>2. ASSUME ListFails(d) \/ LaunchFails(d) \/ ConfirmFails(d) PROVE Settling(d)'
  <2>1. pc'[d] = "aborted"
    BY <1>2 DEF ListFails, LaunchFails, ConfirmFails
  <2> QED BY <2>1 DEF Settling, Ended
<1>3. ASSUME BeginSlice(d) PROVE Settling(d)'
  <2> HIDE DEF TypeOK
  <2>1. /\ sg'[d] \in Slices(d) /\ sg'[d] > sg[d] /\ Config[d].op = "run"
        /\ \A h \in Slices(d) : h > sg[d] => sg'[d] <= h
    BY <1>3, SliceBegins
  <2>2. /\ loaded'[d] = {u \in listed[d] : Home(d, u) = sg'[d]}
        /\ remaining'[d] = {u \in listed[d] : Home(d, u) > sg'[d]}
        /\ pc[d] = "slice" /\ pc'[d] = "checkModified"
        /\ todo'[d] = loaded'[d] \cap Generated(d, sg'[d])
    BY <1>3, SliceBegins
  <2>3. missed'[d] = missed[d] /\ UNCHANGED content
    BY <1>3, SliceBegins
  <2> SUFFICES ASSUME NEW u \in Selected(d) PROVE (Awaited(d, u) /\ Past(d, u) /\ Now(d, u))'
    BY <1>0 DEF Settling, Selected, InSelectedGroup, IsUnitForTaskGroup, IsUnitForJob,
                IsUnitForScalingGroup
  <2>4. Awaited(d, u) /\ Past(d, u) /\ (Brought(d, u) \/ Home(d, u) # sg[d])
    BY <2>2 DEF Settling, Ended, Now
  <2>5. u \in Unit /\ sg[d] \in Nat /\ sg'[d] \in Nat /\ sg'[d] < End(d)
    BY <1>0, <2>1, SlicesAreBounded DEF TypeOK
  <2>6. Home(d, u) > sg[d] => u \in listed[d] \/ content[u] = None
    BY <2>2, <2>4 DEF Awaited, Sorted
  <2>7. Home(d, u) < sg'[d] => Home(d, u) <= sg[d]
    BY <1>0, <2>1, <2>5, HomeIsFirst DEF Taking
  <2>8. Home(d, u) <= sg[d] => Settled(d, u)
    BY <1>0, <2>2, <2>4, <2>5 DEF Past, Brought
  <2>9. Settled(d, u) => Settled(d, u)'
    BY <2>3, SettledStays
  <2>10. Awaited(d, u)'
    BY <1>0, <2>1, <2>2, <2>3, <2>5, <2>6 DEF Awaited
  <2>11. Past(d, u)'
    BY <1>0, <2>7, <2>8, <2>9 DEF Past
  <2>12. Now(d, u)'
    <3>1. Home(d, u) = sg'[d] => u \in loaded'[d] \/ content'[u] = None
      BY <2>1, <2>2, <2>3, <2>5, <2>6
    <3>2. u \in NotObsolete(d)' => u \in todo'[d]
      BY <2>2 DEF NotObsolete
    <3> QED BY <1>0, <2>2, <3>1, <3>2 DEF Now, Judged, Launched, Brought
  <2> QED BY <2>10, <2>11, <2>12
<1>4. ASSUME \/ EndSlices(d) \/ EndCheckModified(d) \/ EndCheckFailed(d) \/ SkipConfirm(d)
             \/ Confirm(d) \/ ConfirmCleanup(d)
             \/ \E u \in Unit : CheckModified(d, u) \/ CheckFailed(d, u) \/ CheckFailedFails(d, u)
      PROVE  Settling(d)'
  <2>1. UNCHANGED <<content, sg, remaining, loaded, missed>>
    BY <1>4 DEF EndSlices, EndCheckModified, EndCheckFailed, SkipConfirm, Confirm, ConfirmCleanup,
       CheckModified, CheckFailed, CheckFailedFails, cluster, planVars, uiVars
  <2>2. \/ pc[d] = "slice" /\ pc'[d] \in {"done", "cleanup"}
        \/ pc[d] = "cleanup" /\ pc'[d] = "cleaning"
        \/ /\ pc[d] \in {"checkModified", "checkFailed", "confirm"}
           /\ pc'[d] \in {"checkModified", "checkFailed", "confirm", "destroying"}
    BY <1>4 DEF EndSlices, EndCheckModified, EndCheckFailed, SkipConfirm, Confirm, ConfirmCleanup,
       CheckModified, CheckFailed, CheckFailedFails, SpawnDestroy
  <2>3. /\ modified[d] \subseteq modified'[d]
        /\ pc[d] = "checkModified" =>
             \A v \in todo[d] : \/ pc'[d] = "checkModified" /\ v \in todo'[d]
                                \/ v \in modified'[d] \/ content[v] = Config[d].content[v]
    BY <1>4 DEF EndSlices, EndCheckModified, EndCheckFailed, SkipConfirm, Confirm, ConfirmCleanup,
       CheckModified, CheckFailed, CheckFailedFails, SpawnDestroy, HasChanged, planVars
  <2> SUFFICES ASSUME NEW u \in Selected(d), ~Ended(d)'
               PROVE (Awaited(d, u) /\ Past(d, u) /\ Now(d, u))'
    BY <1>0 DEF Settling, Selected, InSelectedGroup, IsUnitForTaskGroup, IsUnitForJob,
                IsUnitForScalingGroup
  <2>4. Awaited(d, u) /\ Past(d, u) /\ Now(d, u)
    BY <2>2 DEF Settling, Ended
  <2>5. Settled(d, u) => Settled(d, u)'
    BY <2>1, SettledStays
  <2>6. Awaited(d, u)' /\ Past(d, u)'
    BY <1>0, <2>1, <2>2, <2>4, <2>5 DEF Awaited, Past
  <2>7. Brought(d, u) /\ Home(d, u) = sg[d] => Brought(d, u)'
    BY <2>2, <2>5 DEF Brought
  <2>8. Judged(d, u) => Judged(d, u)'
    BY <2>1, <2>2, <2>3 DEF Judged, NotObsolete
  <2> QED BY <1>0, <2>1, <2>2, <2>4, <2>6, <2>7, <2>8 DEF Now, Launched
<1>5. ASSUME \/ \E r \in Reason : StopReturns(d, r)
             \/ \E r \in Reason, u \in Unit : StopUnit(d, r, u)
      PROVE  Settling(d)'
  <2>1. UNCHANGED <<content, pc, sg, remaining, loaded, todo, modified, failed, missed, opFailed>>
    BY <1>5 DEF StopReturns, StopUnit, cluster, planVars, uiVars
  <2> QED BY <2>1 DEF Settling, Ended, Awaited, Past, Now, Judged, Launched, Brought,
                      Settled, Due, NotObsolete, Wanted, Home, Taking, Selected, InSelectedGroup,
                      IsUnitForTaskGroup, IsUnitForJob, IsUnitForScalingGroup
<1>6. ASSUME NEW r \in Reason, NEW u \in Unit,
             DestroyUnit(d, r, u) \/ DestroyIsLost(d, r, u) \/ DestroyFails(d, r, u)
      PROVE  Settling(d)'
  <2> HIDE DEF TypeOK
  <2>1. UNCHANGED content \/ content' = [content EXCEPT ![u] = None]
    BY <1>6, OneIsDestroyed
  <2>2. Working(d) /\ u \in WorkList(d, r) /\ UNCHANGED <<pc, sg, planVars>>
    BY <1>6, OneIsDestroyed
  <2>3. missed[d] \subseteq missed'[d]
    BY <1>6, OneIsDestroyed
  <2>4. /\ Home(d, u) = IF pc[d] = "destroying" THEN sg[d] ELSE End(d)
        /\ u \in Wanted(d) => u \in modified[d] \/ u \in failed[d]
    BY <2>2, WorkIsPlaced
  <2> SUFFICES ASSUME NEW v \in Selected(d) PROVE (Awaited(d, v) /\ Past(d, v) /\ Now(d, v))'
    BY <1>0 DEF Settling, Selected, InSelectedGroup, IsUnitForTaskGroup, IsUnitForJob,
                IsUnitForScalingGroup
  <2>5. Awaited(d, v) /\ Past(d, v) /\ Now(d, v)
    BY <2>2 DEF Settling, Ended, Working
  <2>6. CASE v # u
    <3>1. content'[v] = content[v]
      BY <1>0, <2>1, <2>6 DEF TypeOK
    <3>2. Settled(d, v) => Settled(d, v)'
      BY <2>3, <3>1, SettledStays
    <3>3. Awaited(d, v)' /\ Past(d, v)'
      BY <1>0, <2>2, <2>5, <3>1, <3>2 DEF Awaited, Past, planVars
    <3>4. Judged(d, v) => Judged(d, v)'
      BY <2>2, <3>1 DEF Judged, NotObsolete, planVars
    <3> QED BY <1>0, <2>2, <2>5, <3>2, <3>3, <3>4 DEF Now, Launched, Brought, Working
  <2>7. CASE v = u
    <3>1. content'[u] = None \/ content'[u] = content[u]
      BY <1>0, <2>1 DEF TypeOK
    <3>2. CASE pc[d] = "destroying"
      <4>1. Home(d, u) = sg[d] /\ sg[d] \in Nat /\ sg[d] \in Slices(d) /\ Config[d].op = "run"
        BY <2>4, <3>2 DEF TypeOK, Coherent, PlanFits, SlicePhase
      <4>2. u \in NotObsolete(d) => u \in modified[d] \/ u \in failed[d]
        BY <2>4, <4>1, RenderedAtHome DEF NotObsolete
      <4>3. u \in loaded[d] \/ content'[u] = None
        BY <2>5, <2>7, <3>1, <3>2, <4>1 DEF Now, Judged
      <4>4. Judged(d, u)'
        BY <2>2, <3>2, <4>2, <4>3 DEF Judged, NotObsolete, planVars
      <4> QED BY <1>0, <2>2, <2>7, <3>2, <4>1, <4>4
              DEF Now, Launched, Brought, Awaited, Past
    <3>3. CASE pc[d] = "cleaning"
      <4>1. Home(d, u) = End(d) /\ End(d) \in Nat /\ sg[d] \in Nat /\ sg[d] < End(d)
        <5>1. Home(d, u) = End(d) /\ End(d) > 0
          BY <1>0, <2>4, <2>7, <3>3
        <5>2. sg[d] = 0 \/ sg[d] \in Slices(d)
          BY DEF Sorted
        <5> QED BY <5>1, <5>2, SlicesAreBounded DEF TypeOK
      <4>2. Awaited(d, u)'
        BY <2>2, <2>5, <2>7, <3>1, <1>0 DEF Awaited, planVars
      <4> QED BY <1>0, <2>2, <2>7, <3>3, <4>1, <4>2 DEF Now, Past
    <3> QED BY <2>2, <3>2, <3>3 DEF Working
  <2> QED BY <2>6, <2>7
<1>7. CASE JoinDestroy(d)
  <2>1. /\ UNCHANGED <<content, sg, remaining, loaded, modified, failed, missed, opFailed>>
        /\ stopping[d] = {} /\ \A r \in Reason : doomed[d][r] = {}
    BY <1>7 DEF JoinDestroy, cluster, uiVars, destroyVars
  <2> SUFFICES ASSUME ~Ended(d)' PROVE Settling(d)'
    BY DEF Settling
  <2>2. /\ ~opFailed[d] /\ pc[d] = "destroying"
        /\ \/ pc'[d] = "slice" /\ ToLaunch(d) = {}
           \/ pc'[d] = "create" /\ todo'[d] = ToLaunch(d)
    BY <1>7 DEF JoinDestroy, AfterJoin, Ended, Working
  <2> SUFFICES ASSUME NEW u \in Selected(d) PROVE (Awaited(d, u) /\ Past(d, u) /\ Now(d, u))'
    BY <1>0 DEF Settling, Selected, InSelectedGroup, IsUnitForTaskGroup, IsUnitForJob,
                IsUnitForScalingGroup
  <2>3. Awaited(d, u) /\ Past(d, u)
    BY <2>2 DEF Settling, Ended
  <2>4. Settled(d, u) => Settled(d, u)'
    BY <2>1, SettledStays
  <2>5. Awaited(d, u)' /\ Past(d, u)'
    BY <1>0, <2>1, <2>2, <2>3, <2>4 DEF Awaited, Past
  <2>6. Home(d, u) = sg[d] =>
          Settled(d, u) \/ (u \in ToLaunch(d) /\ (Kubernetes \/ content[u] = None))
    <3> HIDE DEF TypeOK
    <3> QED BY <2>1, <2>2, AfterDestroy
  <2> QED BY <1>0, <2>1, <2>2, <2>4, <2>5, <2>6 DEF Now, Judged, Launched, Brought
<1>8. ASSUME NEW u \in Unit, CreateUnit(d, u) \/ ApplyUnit(d, u) \/ ApplyFails(d, u)
      PROVE  Settling(d)'
  <2>1. /\ UNCHANGED <<pc, sg, remaining, missed>> /\ pc[d] = "create" /\ u \in todo[d]
        /\ todo'[d] = todo[d] \ {u} /\ (opFailed[d] => opFailed'[d])
        /\ content'[u] \in {content[u], Config[d].content[u]}
        /\ \A v \in Unit \ {u} : content'[v] = content[v]
    BY <1>8 DEF CreateUnit, ApplyUnit, ApplyFails, cluster, uiVars, destroyVars
  <2>2. \/ ~Kubernetes /\ (content[u] # None \/ content'[u] = Config[d].content[u])
        \/ content'[u] = Config[d].content[u] \/ opFailed'[d]
    BY <1>8 DEF CreateUnit, ApplyUnit, ApplyFails, cluster
  <2>3. Config[d].op = "run" /\ sg[d] \in Slices(d) /\ u \in Generated(d, sg[d])
    BY <2>1 DEF Coherent, PlanFits, SlicePhase, WorkFits, ToLaunch
  <2>4. Home(d, u) = sg[d] /\ u \in Selected(d) /\ Due(d, u) = Config[d].content[u]
    BY <2>3, RenderedAtHome, DueIsContent
  <2>5. Settled(d, u)' \/ opFailed'[d]
    <3>1. content'[u] = Config[d].content[u] => Settled(d, u)'
      BY <1>0, <2>4 DEF Settled
    <3>2. Launched(d, u)
      BY <2>1, <2>4 DEF Settling, Ended, Now
    <3>3. ~Kubernetes /\ content[u] # None /\ content'[u] = content[u] =>
             Settled(d, u)' \/ opFailed'[d]
      BY <2>1, <3>2, SettledStays DEF Launched
    <3> QED BY <2>1, <2>2, <3>1, <3>3
  <2> SUFFICES ASSUME NEW v \in Selected(d) PROVE (Awaited(d, v) /\ Past(d, v) /\ Now(d, v))'
    BY <1>0 DEF Settling, Selected, InSelectedGroup, IsUnitForTaskGroup, IsUnitForJob,
                IsUnitForScalingGroup
  <2>6. Awaited(d, v) /\ Past(d, v) /\ Now(d, v)
    BY <2>1 DEF Settling, Ended
  <2>7. CASE v # u
    <3>1. content'[v] = content[v] /\ (Settled(d, v) => Settled(d, v)')
      BY <1>0, <2>1, <2>7, SettledStays
    <3> QED BY <1>0, <2>1, <2>6, <2>7, <3>1 DEF Awaited, Past, Now, Judged, Launched, Brought
  <2>8. CASE v = u
    BY <1>0, <2>1, <2>4, <2>5, <2>8 DEF Awaited, Past, Now, Judged, Launched, Brought
  <2> QED BY <2>7, <2>8
<1>9. ASSUME EndCreate(d) \/ EndLaunch(d) \/ \E u \in Unit : StartUnit(d, u)
      PROVE  Settling(d)'
  <2>1. UNCHANGED <<content, sg, remaining, missed>>
    BY <1>9 DEF EndCreate, EndLaunch, StartUnit, cluster, planVars, uiVars
  <2> SUFFICES ASSUME ~Ended(d)', NEW u \in Selected(d)
               PROVE  (Awaited(d, u) /\ Past(d, u) /\ Now(d, u))'
    BY <1>0 DEF Settling, Selected, InSelectedGroup, IsUnitForTaskGroup, IsUnitForJob,
                IsUnitForScalingGroup
  <2>2. \/ pc[d] = "create" /\ todo[d] = {} /\ ~opFailed[d]
        \/ pc[d] = "start"
    BY <1>9 DEF EndCreate, EndLaunch, StartUnit, Ended, Doing
  <2>3. pc'[d] \in {"start", "slice"}
    BY <1>9 DEF EndCreate, EndLaunch, StartUnit, Ended
  <2>4. Awaited(d, u) /\ Past(d, u) /\ Now(d, u)
    BY <2>2 DEF Settling, Ended
  <2>5. Settled(d, u) => Settled(d, u)'
    BY <2>1, SettledStays
  <2> QED BY <1>0, <2>1, <2>2, <2>3, <2>4, <2>5 DEF Awaited, Past, Now, Judged, Launched, Brought
<1>10. CASE Progress(d)
  BY <1>10, <1>1, <1>3, <1>4, <1>5, <1>6, <1>7, <1>8, <1>9 DEF Progress
<1>11. CASE Operator(d)
  BY <1>11, <1>2, <1>4 DEF Operator
<1>12. CASE Faulty(d)
  BY <1>12, <1>2, <1>4, <1>6, <1>8 DEF Faulty
<1> QED BY <1>10, <1>11, <1>12 DEF Step

-----------------------------------------------------------------------------
(* The invariant that the refinement rests on.                             *)

Whole(d) == Sliced(d) /\ Settling(d) /\ Doing(d)

LEMMA WholeAtFirst ==
  ASSUME Init, NEW d \in Deployer
  PROVE  Whole(d)
<1>1. Sliced(d)
  BY SlicedAtFirst
<1>2. Doing(d)
  BY DEF Init, Doing, Working
<1>3. Settling(d)
  <2>1. pc[d] = "list" /\ sg[d] = 0
    BY DEF Init
  <2>2. \A u \in Selected(d) : Home(d, u) \in Nat /\ Home(d, u) > 0
    BY HomeIsFirst, SelectedTaking
  <2> QED BY <2>1, <2>2 DEF Settling, Awaited, Past, Now
<1> QED BY <1>1, <1>2, <1>3 DEF Whole

LEMMA WholeIsKept ==
  ASSUME TypeOK, Coherent, [Next]_vars, NEW d \in Deployer, Alone(d), Whole(d)
  PROVE  Whole(d)'
<1>1. CASE Step(d)
  BY <1>1, SlicedIsKept, SettlingStep, DoingStep DEF Whole, Sliced
<1>2. CASE ~Step(d)
  <2>1. UNCHANGED Own(d) /\ \A u \in Selected(d) : content'[u] = content[u]
    BY <1>2, OthersStay
  <2>2. /\ pc'[d] = pc[d] /\ sg'[d] = sg[d] /\ remaining'[d] = remaining[d]
        /\ loaded'[d] = loaded[d] /\ todo'[d] = todo[d] /\ modified'[d] = modified[d]
        /\ failed'[d] = failed[d] /\ missed'[d] = missed[d] /\ opFailed'[d] = opFailed[d]
        /\ stopping'[d] = stopping[d] /\ doomed'[d] = doomed[d]
    BY <2>1 DEF Own
  <2>3. Sliced(d)'
    BY <2>1, SlicedByOwn DEF Whole
  <2>4. Settling(d)'
    <3>1. ASSUME NEW u \in Selected(d), Awaited(d, u), Past(d, u), Now(d, u)
          PROVE  (Awaited(d, u) /\ Past(d, u) /\ Now(d, u))'
      BY <2>1, <2>2, <3>1 DEF Awaited, Past, Now, Judged, Launched, Brought, Settled, Due,
           NotObsolete, Wanted, Home, Taking
    <3>2. Selected(d)' = Selected(d)
      BY DEF Selected, InSelectedGroup, IsUnitForTaskGroup, IsUnitForJob, IsUnitForScalingGroup
    <3> QED BY <2>2, <3>1, <3>2 DEF Whole, Settling, Ended
  <2>5. Doing(d)'
    <3>1. \A r \in Reason : WorkList(d, r)' = WorkList(d, r)
      BY <2>2 DEF WorkList, Reason, Obsolete
    <3>2. Working(d) => Sorted(d)
      BY DEF Whole, Sliced
    <3>3. \A r \in Reason : \A u \in WorkList(d, r) :
            Working(d) => content'[u] = content[u]
      BY <2>1, <3>2, WorkIsPlaced
    <3> QED BY <2>2, <3>1, <3>3 DEF Whole, Doing, Working
  <2> QED BY <2>3, <2>4, <2>5 DEF Whole
<1> QED BY <1>1, <1>2
=============================================================================
