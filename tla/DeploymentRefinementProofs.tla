---------------------- MODULE DeploymentRefinementProofs ----------------------
(***************************************************************************)
(* That a deployer whose units nobody else selects is a RollingUpdate, for *)
(* every set of units, deployers and configurations.                       *)
(***************************************************************************)
EXTENDS DeploymentRefinement, SliceProofs

\* What the refinement mapping makes of the state.
Have == [u \in Mine |-> content[u]]
At == IF Ended(Me) \/ pc[Me] \in {"cleanup", "cleaning"} THEN Cleanup ELSE sg[Me]
Outcome ==
  CASE pc[Me] = "done" -> "done"
    [] pc[Me] \in {"aborted", "panic"} -> "aborted"
    [] OTHER -> "working"

LEMMA MappedNames ==
  /\ Mine = Selected(Me) /\ Mine \subseteq Unit /\ Cleanup = End(Me)
  /\ \A u \in Mine : Slicing[u] = Home(Me, u) /\ Goal[u] = Due(Me, u)
BY DEF Mine, Selected, Cleanup, End, Slicing, Slice, Takes, Home, Taking, Goal, Due

\* While it works: where it is, and what its invariant says of a unit.
LEMMA MappedPlaces ==
  /\ ~Ended(Me) => Outcome = "working"
  /\ pc[Me] = "done" => Outcome = "done"
  /\ pc[Me] \in {"aborted", "panic"} => Outcome = "aborted"
  /\ Ended(Me) \/ pc[Me] \in {"cleanup", "cleaning"} => At = End(Me)
  /\ ~Ended(Me) /\ pc[Me] \notin {"cleanup", "cleaning"} => At = sg[Me]
BY MappedNames DEF Outcome, Ended, At

\* The actions of RollingUpdate in these terms.
LEMMA IsStutter ==
  ASSUME UNCHANGED <<Have, At, Outcome, missed[Me]>>
  PROVE  UNCHANGED Rollout!vars
BY DEF Rollout!vars, Have, At, Outcome

LEMMA IsAbort ==
  ASSUME UNCHANGED <<Have, missed[Me]>>, Outcome = "working", Outcome' = "aborted", At' = Cleanup
  PROVE  Rollout!Next
BY DEF Rollout!Next, Rollout!Abort, Have, At, Outcome

LEMMA IsFinish ==
  ASSUME UNCHANGED <<Have, missed[Me]>>, Outcome = "working", Outcome' = "done", At' = Cleanup,
         \A u \in Mine : Settled(Me, u)
  PROVE  Rollout!Next
<1>1. \A u \in Mine : Have[u] = Goal[u] \/ u \in missed[Me]
  BY MappedNames DEF Settled, Have
<1> QED BY <1>1 DEF Rollout!Next, Rollout!Finish, Have, At, Outcome

LEMMA IsNextSlice ==
  ASSUME UNCHANGED <<Have, missed[Me], Outcome>>, Outcome = "working",
         At' \in 1..Cleanup, At' > At, \A u \in Mine : Home(Me, u) < At' => Settled(Me, u)
  PROVE  Rollout!Next
<1>1. \A u \in Mine : Slicing[u] < At' => Have[u] = Goal[u] \/ u \in missed[Me]
  BY MappedNames DEF Settled, Have
<1> QED BY <1>1 DEF Rollout!Next, Rollout!NextSlice, Rollout!Ready, Have, At, Outcome

LEMMA IsRemove ==
  ASSUME NEW u \in Mine, Outcome = "working", Home(Me, u) = At, content[u] # None,
         Kubernetes => Due(Me, u) = None, Have' = [Have EXCEPT ![u] = None],
         UNCHANGED <<At, Outcome, missed[Me]>>
  PROVE  Rollout!Next
<1>1. Slicing[u] = At /\ Have[u] # None /\ (Kubernetes => Goal[u] = None)
  BY MappedNames DEF Have
<1> QED BY <1>1 DEF Rollout!Next, Rollout!Remove, Rollout!Current, Have, At, Outcome

LEMMA IsInstall ==
  ASSUME NEW u \in Mine, Outcome = "working", Home(Me, u) = At, Due(Me, u) # None,
         content[u] = None \/ Kubernetes, Have' = [Have EXCEPT ![u] = Due(Me, u)],
         UNCHANGED <<At, Outcome, missed[Me]>>
  PROVE  Rollout!Next
<1>1. /\ Slicing[u] = At /\ (Have[u] = None \/ Kubernetes) /\ Goal[u] # None
      /\ Have' = [Have EXCEPT ![u] = Goal[u]]
  BY MappedNames DEF Have
<1> QED BY <1>1 DEF Rollout!Next, Rollout!Install, Rollout!Current, Have, At, Outcome

LEMMA IsMiss ==
  ASSUME NEW u \in Mine, Outcome = "working", Home(Me, u) = At, ~Kubernetes,
         missed'[Me] = missed[Me] \cup {u}, UNCHANGED <<Have, At, Outcome>>
  PROVE  Rollout!Next
<1>1. Slicing[u] = At
  BY MappedNames DEF Have
<1> QED BY <1>1 DEF Rollout!Next, Rollout!Miss, Rollout!Current, Have, At, Outcome

-----------------------------------------------------------------------------
(* The steps.                                                              *)

LEMMA InitMaps == Init => Rollout!Init
<1> SUFFICES ASSUME Init PROVE Rollout!Init
  OBVIOUS
<1>1. Have \in [Mine -> Content \cup {None}]
  BY MappedNames DEF Init, Have
<1>2. pc[Me] = "list" /\ sg[Me] = 0 /\ missed[Me] = {}
  BY MeAssumption DEF Init
<1>3. At = 0 /\ Outcome = "working"
  BY <1>2, MappedPlaces DEF Ended
<1> QED BY <1>1, <1>2, <1>3 DEF Rollout!Init, Have, At, Outcome

\* What the deployer is done with when no slice comes next.
LEMMA AllSlicesPast ==
  ASSUME TypeOK, Whole(Me), ~Ended(Me), pc[Me] # "list", \A g \in Slices(Me) : g <= sg[Me],
         pc[Me] \in {"slice", "cleanup", "cleaning"}, NEW u \in Mine
  PROVE  IF u \in remaining[Me] THEN Home(Me, u) = End(Me) /\ Due(Me, u) = None
         ELSE Settled(Me, u)
<1>1. u \in Unit /\ u \in Selected(Me) /\ Home(Me, u) \in Nat /\ sg[Me] \in Nat
  BY MeAssumption, MappedNames, HomeIsFirst DEF TypeOK
<1>2. Awaited(Me, u) /\ Past(Me, u) /\ (Home(Me, u) = sg[Me] => Settled(Me, u)) /\ Sorted(Me)
  BY <1>1 DEF Whole, Sliced, Settling, Now, Brought
<1>3. CASE Home(Me, u) <= sg[Me]
  <2>1. u \notin remaining[Me]
    BY <1>1, <1>2, <1>3 DEF Sorted
  <2> QED BY <1>1, <1>2, <1>3, <2>1 DEF Past
<1>4. CASE Home(Me, u) > sg[Me]
  <2>1. Home(Me, u) = End(Me)
    BY <1>1, <1>4, MeAssumption, HomeIsFirst, SlicesAreBounded DEF Taking
  <2>2. u \notin Wanted(Me)
    BY <1>1, <2>1, MeAssumption, RenderedAtHome, SlicesAreBounded
  <2>3. Due(Me, u) = None
    BY <2>2 DEF Due
  <2> QED BY <1>2, <1>4, <2>1, <2>3 DEF Awaited, Settled
<1> QED BY <1>1, <1>3, <1>4

LEMMA StepMaps ==
  ASSUME TypeOK, Coherent, Whole(Me), Whole(Me)', Step(Me)
  PROVE  [Rollout!Next]_(Rollout!vars)
<1> DEFINE G == [Rollout!Next]_(Rollout!vars)
<1>a. Me \in Deployer
  BY MeAssumption
<1>b. /\ Mine = Selected(Me) /\ Mine \subseteq Unit /\ Cleanup = End(Me)
      /\ Cleanup \in Nat /\ Cleanup > 0 /\ 0 \in Nat /\ \A g \in Slices(Me) : g \in 1..Cleanup /\ g < Cleanup
  BY <1>a, MappedNames, SlicesAreBounded, ConfigAssumption DEF End
<1>c. /\ ~Ended(Me) => Outcome = "working"
      /\ Ended(Me) \/ pc[Me] \in {"cleanup", "cleaning"} => At = Cleanup
      /\ ~Ended(Me) /\ pc[Me] \notin {"cleanup", "cleaning"} => At = sg[Me]
  BY <1>b, MappedPlaces
<1>d. /\ ~Ended(Me)' => Outcome' = "working"
      /\ pc'[Me] = "done" => Outcome' = "done"
      /\ pc'[Me] \in {"aborted", "panic"} => Outcome' = "aborted"
      /\ Ended(Me)' \/ pc'[Me] \in {"cleanup", "cleaning"} => At' = Cleanup
      /\ ~Ended(Me)' /\ pc'[Me] \notin {"cleanup", "cleaning"} => At' = sg'[Me]
  BY DEF Outcome, Ended, At, Cleanup
<1>e. sg[Me] = 0 \/ sg[Me] \in Slices(Me)
  BY DEF Whole, Sliced, Sorted
<1> USE DEF TypeOK, Goto
\* It gives up.
<1>1. ASSUME UNCHANGED <<content, missed>>, ~Ended(Me), pc'[Me] \in {"aborted", "panic"}
      PROVE  G
  BY <1>1, <1>c, <1>d, IsAbort DEF Have, Ended
\* It goes on where it is.
<1>2. ASSUME UNCHANGED <<content, missed, sg>>, ~Ended(Me), ~Ended(Me)',
             pc[Me] \in {"cleanup", "cleaning"} <=> pc'[Me] \in {"cleanup", "cleaning"}
      PROVE  G
  BY <1>2, <1>c, <1>d, IsStutter DEF Have
<1>3. CASE List(Me)
  <2>1. /\ pc[Me] = "list" /\ UNCHANGED <<content, missed, sg>>
        /\ \/ Config[Me].op = "destroy" /\ pc'[Me] = "cleanup"
           \/ /\ Config[Me].op = "destroy" /\ pc'[Me] = "done"
              /\ {u \in Selected(Me) : content[u] # None} = {}
           \/ pc'[Me] \in {"slice", "panic"}
    BY <1>3, <1>a DEF List, cluster
  <2>2. sg[Me] = 0 /\ Outcome = "working" /\ At = 0
    BY <2>1, <1>c DEF Whole, Sliced, Sorted, Ended
  <2>3. UNCHANGED <<Have, missed[Me]>>
    BY <2>1 DEF Have
  <2>4. CASE Config[Me].op = "destroy" /\ pc'[Me] = "cleanup"
    <3>1. \A u \in Mine : Home(Me, u) = Cleanup
      BY <1>b, <2>4 DEF Home
    <3>2. Outcome' = "working" /\ At' = Cleanup
      BY <1>d, <2>4 DEF Ended
    <3> QED BY <1>b, <2>2, <2>3, <3>1, <3>2, IsNextSlice
  <2>5. CASE /\ Config[Me].op = "destroy" /\ pc'[Me] = "done"
             /\ {u \in Selected(Me) : content[u] # None} = {}
    <3>1. \A u \in Mine : Settled(Me, u)
      BY <1>b, <2>5 DEF Settled, Due, Wanted
    <3>2. Outcome' = "done" /\ At' = Cleanup
      BY <1>d, <2>5 DEF Ended
    <3> QED BY <2>2, <2>3, <3>1, <3>2, IsFinish
  <2>6. CASE pc'[Me] \in {"slice", "panic"}
    BY <1>1, <1>2, <2>1, <2>6 DEF Ended
  <2> QED BY <2>1, <2>4, <2>5, <2>6
<1>4. CASE BeginSlice(Me)
  <2> HIDE DEF TypeOK
  <2>1. sg'[Me] \in Slices(Me) /\ sg'[Me] > sg[Me]
    BY <1>4, <1>a, SliceBegins DEF Whole, Sliced
  <2>2. /\ pc[Me] = "slice" /\ pc'[Me] = "checkModified"
        /\ missed'[Me] = missed[Me] /\ UNCHANGED content
    BY <1>4, <1>a, SliceBegins DEF Whole, Sliced
  <2>3. Outcome = "working" /\ Outcome' = "working" /\ At = sg[Me] /\ At' = sg'[Me]
    BY <1>c, <1>d, <2>2 DEF Ended
  <2>4. \A u \in Mine : Home(Me, u) < sg'[Me] => Settled(Me, u)'
    <3>1. Settling(Me)' /\ ~Ended(Me)'
      BY <2>2 DEF Whole, Ended
    <3> QED BY <1>b, <3>1 DEF Settling, Past, Selected, InSelectedGroup, IsUnitForTaskGroup,
                IsUnitForJob, IsUnitForScalingGroup, Home, Taking
  <2>5. \A u \in Mine : Settled(Me, u)' => Settled(Me, u)
    BY <2>2 DEF Settled, Due, Wanted
  <2> QED BY <1>b, <2>1, <2>2, <2>3, <2>4, <2>5, IsNextSlice DEF Have
<1>5. CASE EndSlices(Me)
  <2>1. /\ pc[Me] = "slice" /\ UNCHANGED <<content, missed, sg>> /\ NextSlices(Me) = {}
        /\ pc'[Me] = IF remaining[Me] = {} THEN "done" ELSE "cleanup"
    BY <1>5, <1>a DEF EndSlices, cluster
  <2>2. \A g \in Slices(Me) : g <= sg[Me]
    BY <1>a, <2>1, NoNextSlice
  <2>3. UNCHANGED <<Have, missed[Me]>> /\ Outcome = "working" /\ At = sg[Me] /\ At' = Cleanup
    BY <1>c, <1>d, <2>1 DEF Have, Ended
  <2>4. \A u \in Mine : u \notin remaining[Me] => Settled(Me, u)
    BY <2>1, <2>2, AllSlicesPast DEF Ended
  <2>5. \A u \in Mine : Home(Me, u) < Cleanup => Settled(Me, u)
    BY <1>b, <2>1, <2>2, AllSlicesPast DEF Ended
  <2>6. CASE remaining[Me] = {}
    <3>1. Outcome' = "done"
      BY <1>d, <2>1, <2>6
    <3> QED BY <2>3, <2>4, <2>6, <3>1, IsFinish
  <2>7. CASE remaining[Me] # {}
    <3>1. Outcome' = "working"
      BY <1>d, <2>1, <2>7 DEF Ended
    <3>2. At < Cleanup
      BY <1>b, <1>e, <2>3
    <3> QED BY <1>b, <2>3, <2>5, <3>1, <3>2, IsNextSlice
  <2> QED BY <2>6, <2>7
<1>6. ASSUME \/ EndCheckModified(Me) \/ EndCheckFailed(Me) \/ SkipConfirm(Me) \/ Confirm(Me)
             \/ ConfirmCleanup(Me) \/ EndCreate(Me)
             \/ \E u \in Unit : \/ CheckModified(Me, u) \/ CheckFailed(Me, u)
                                \/ CheckFailedFails(Me, u)
             \/ \E r \in Reason : StopReturns(Me, r)
             \/ \E r \in Reason, u \in Unit : StopUnit(Me, r, u)
      PROVE  G
  <2>1. UNCHANGED <<content, missed, sg>>
    BY <1>6 DEF EndCheckModified, EndCheckFailed, SkipConfirm, Confirm, ConfirmCleanup,
       CheckModified, CheckFailed, CheckFailedFails, EndCreate, StopReturns, StopUnit, cluster, uiVars
  <2>2. /\ ~Ended(Me) /\ ~Ended(Me)'
        /\ pc[Me] \in {"cleanup", "cleaning"} <=> pc'[Me] \in {"cleanup", "cleaning"}
    BY <1>6, <1>a DEF EndCheckModified, EndCheckFailed, SkipConfirm, Confirm, ConfirmCleanup,
       CheckModified, CheckFailed, CheckFailedFails, EndCreate, StopReturns, StopUnit, SpawnDestroy,
       Ended, Working
  <2> QED BY <1>2, <2>1, <2>2
<1>7. ASSUME \/ ListFails(Me) \/ ConfirmFails(Me) \/ LaunchFails(Me) \/ EndLaunch(Me)
             \/ \E u \in Unit : StartUnit(Me, u)
      PROVE  G
  <2>1. UNCHANGED <<content, missed, sg>>
    BY <1>7 DEF ListFails, ConfirmFails, LaunchFails, EndLaunch, StartUnit, cluster, uiVars
  <2>2. \/ ~Ended(Me) /\ pc'[Me] = "aborted"
        \/ pc[Me] \in {"create", "start"} /\ pc'[Me] \in {"slice", "start"}
    BY <1>7, <1>a DEF ListFails, ConfirmFails, LaunchFails, EndLaunch, StartUnit, Ended
  <2>3. CASE ~Ended(Me) /\ pc'[Me] = "aborted"
    BY <1>1, <2>1, <2>3
  <2>4. CASE pc[Me] \in {"create", "start"} /\ pc'[Me] \in {"slice", "start"}
    BY <1>2, <2>1, <2>4 DEF Ended
  <2> QED BY <2>2, <2>3, <2>4
<1>8. ASSUME NEW r \in Reason, NEW u \in Unit,
             \/ DestroyUnit(Me, r, u) \/ DestroyIsLost(Me, r, u) \/ DestroyFails(Me, r, u)
      PROVE  G
  <2> HIDE DEF TypeOK
  <2>1. UNCHANGED content \/ content' = [content EXCEPT ![u] = None]
    BY <1>8, <1>a, OneIsDestroyed
  <2>2. Working(Me) /\ u \in WorkList(Me, r) /\ UNCHANGED <<pc, sg>>
    BY <1>8, <1>a, OneIsDestroyed
  <2>3. /\ u \in Selected(Me)
        /\ Home(Me, u) = IF pc[Me] = "destroying" THEN sg[Me] ELSE End(Me)
        /\ u \in Wanted(Me) => ~Kubernetes
    BY <1>a, <2>2, WorkIsPlaced DEF Whole, Sliced
  <2>4. Outcome = "working" /\ Home(Me, u) = At /\ u \in Mine
    BY <1>b, <1>c, <2>2, <2>3 DEF Working, Ended
  <2>5. UNCHANGED <<At, Outcome>>
    BY <1>c, <1>d, <2>2 DEF Working, Ended
  <2>6. Kubernetes => Due(Me, u) = None
    BY <2>3 DEF Due
  <2>7. \/ UNCHANGED missed
        \/ UNCHANGED content /\ ~Kubernetes /\ missed'[Me] = missed[Me] \cup {u}
    BY <1>8, <1>a DEF DestroyUnit, DestroyIsLost, DestroyFails, uiVars, cluster, TypeOK
  <2>8. CASE UNCHANGED missed /\ UNCHANGED content
    BY <2>5, <2>8, IsStutter DEF Have
  <2>9. CASE UNCHANGED content /\ ~Kubernetes /\ missed'[Me] = missed[Me] \cup {u}
    BY <2>4, <2>5, <2>9, IsMiss DEF Have
  <2>10. CASE UNCHANGED missed /\ content' = [content EXCEPT ![u] = None]
    <3>1. Have' = [Have EXCEPT ![u] = None]
      BY <1>b, <2>4, <2>10 DEF Have, TypeOK
    <3>2. CASE content[u] = None
      <4>1. UNCHANGED content
        BY <2>10, <3>2 DEF TypeOK
      <4> QED BY <2>8, <2>10, <4>1
    <3>3. CASE content[u] # None
      BY <2>4, <2>5, <2>6, <2>10, <3>1, <3>3, IsRemove
    <3> QED BY <3>2, <3>3
  <2> QED BY <2>1, <2>7, <2>8, <2>9, <2>10
<1>9. CASE JoinDestroy(Me)
  <2>1. /\ UNCHANGED <<content, missed, sg>> /\ Working(Me)
        /\ stopping[Me] = {} /\ \A r \in Reason : doomed[Me][r] = {}
        /\ \/ pc'[Me] = "aborted"
           \/ pc[Me] = "cleaning" /\ ~opFailed[Me] /\ pc'[Me] = "done"
           \/ pc[Me] = "destroying" /\ pc'[Me] \in {"slice", "create"}
    BY <1>9, <1>a DEF JoinDestroy, AfterJoin, cluster, uiVars, Working
  <2>2. CASE pc'[Me] = "aborted"
    BY <1>1, <2>1, <2>2 DEF Working, Ended
  <2>3. CASE pc[Me] = "destroying" /\ pc'[Me] \in {"slice", "create"}
    BY <1>2, <2>1, <2>3 DEF Ended
  <2>4. CASE pc[Me] = "cleaning" /\ ~opFailed[Me] /\ pc'[Me] = "done"
    <3>1. ASSUME NEW u \in Mine PROVE Settled(Me, u)
      <4>1. u \in remaining[Me] => content[u] = None \/ u \in missed[Me]
        <5>1. WorkList(Me, "obsolete") = remaining[Me]
          BY <2>4 DEF WorkList
        <5> QED BY <2>1, <2>4, <5>1 DEF Whole, Doing, Reason
      <4>2. CASE Config[Me].op = "run"
        <5>1. \A g \in Slices(Me) : g <= sg[Me]
          BY <2>4, <4>2 DEF Whole, Sliced, Sorted
        <5> QED BY <2>4, <4>1, <5>1, AllSlicesPast DEF Ended, Settled
      <4>3. CASE Config[Me].op # "run"
        <5>1. Config[Me].op = "destroy"
          BY <1>a, <4>3, ConfigAssumption
        <5>2. Due(Me, u) = None /\ Home(Me, u) = End(Me)
          BY <5>1 DEF Due, Wanted, Home
        <5>3. Awaited(Me, u)
          BY <1>b, <2>4, <3>1 DEF Whole, Settling, Ended
        <5>4. u \in remaining[Me] \/ content[u] = None
          BY <1>b, <1>e, <2>4, <5>2, <5>3 DEF Awaited
        <5> QED BY <4>1, <5>2, <5>4 DEF Settled
      <4> QED BY <4>2, <4>3
    <3>2. Outcome = "working" /\ Outcome' = "done" /\ At' = Cleanup
      BY <1>c, <1>d, <2>4 DEF Ended
    <3> QED BY <2>1, <3>1, <3>2, IsFinish DEF Have
  <2> QED BY <2>1, <2>2, <2>3, <2>4
<1>10. ASSUME NEW u \in Unit, CreateUnit(Me, u) \/ ApplyUnit(Me, u) \/ ApplyFails(Me, u)
       PROVE  G
  <2>1. /\ UNCHANGED <<pc, sg, missed>> /\ pc[Me] = "create" /\ u \in todo[Me]
        /\ \/ UNCHANGED content
           \/ /\ content[u] = None \/ Kubernetes
              /\ content' = [content EXCEPT ![u] = Config[Me].content[u]]
    BY <1>10 DEF CreateUnit, ApplyUnit, ApplyFails, cluster, uiVars
  <2>2. Config[Me].op = "run" /\ sg[Me] \in Slices(Me) /\ u \in Generated(Me, sg[Me])
    BY <1>a, <2>1 DEF Coherent, PlanFits, SlicePhase, WorkFits, ToLaunch
  <2>3. Home(Me, u) = sg[Me] /\ u \in Selected(Me)
    BY <1>a, <2>2, RenderedAtHome
  <2>4. Due(Me, u) = Config[Me].content[u] /\ Due(Me, u) # None
    <3>1. Due(Me, u) = Config[Me].content[u]
      BY <1>a, <2>2, <2>3, DueIsContent
    <3> QED BY <1>a, <3>1, ConfigAssumption, UnitAssumption
  <2>5. Outcome = "working" /\ At = sg[Me] /\ u \in Mine /\ UNCHANGED <<At, Outcome>>
    BY <1>b, <1>c, <1>d, <2>1, <2>3 DEF Ended
  <2>6. CASE UNCHANGED content
    BY <2>1, <2>5, <2>6, IsStutter DEF Have
  <2>7. CASE /\ content[u] = None \/ Kubernetes
             /\ content' = [content EXCEPT ![u] = Config[Me].content[u]]
    <3>1. Have' = [Have EXCEPT ![u] = Due(Me, u)]
      BY <1>b, <2>4, <2>5, <2>7 DEF Have
    <3> QED BY <2>1, <2>3, <2>4, <2>5, <2>7, <3>1, IsInstall
  <2> QED BY <2>1, <2>6, <2>7
<1>11. CASE Progress(Me)
  BY <1>11, <1>3, <1>4, <1>5, <1>6, <1>7, <1>8, <1>9, <1>10 DEF Progress
<1>12. CASE Operator(Me)
  BY <1>12, <1>6, <1>7 DEF Operator
<1>13. CASE Faulty(Me)
  BY <1>13, <1>6, <1>7, <1>8, <1>10 DEF Faulty
<1> QED BY <1>11, <1>12, <1>13 DEF Step

\* A run or a destroy whose units no other deployer selects brings them, slice after
\* slice, to what the job describes, and returns nil only when they are there.
THEOREM RunIsRollingUpdate ==
  ASSUME Alone(Me)
  PROVE  Spec => IsRollingUpdate
<1>1. Init => Rollout!Init
  BY InitMaps
<1>2. Init => Whole(Me)
  BY MeAssumption, WholeAtFirst
<1>3. TypeOK /\ Coherent /\ Whole(Me) /\ [Next]_vars => Whole(Me)'
  BY MeAssumption, WholeIsKept
<1>4. TypeOK /\ Coherent /\ Whole(Me) /\ Whole(Me)' /\ [Next]_vars => [Rollout!Next]_(Rollout!vars)
  <2> SUFFICES ASSUME TypeOK, Coherent, Whole(Me), Whole(Me)', [Next]_vars
               PROVE  [Rollout!Next]_(Rollout!vars)
    OBVIOUS
  <2>1. CASE Step(Me)
    BY <2>1, StepMaps
  <2>2. CASE ~Step(Me)
    <3>1. UNCHANGED Own(Me) /\ \A u \in Mine : content'[u] = content[u]
      BY <2>2, MeAssumption, OthersStay DEF Mine
    <3>2. pc'[Me] = pc[Me] /\ sg'[Me] = sg[Me] /\ missed'[Me] = missed[Me]
      BY <3>1 DEF Own
    <3>3. UNCHANGED <<Have, At, Outcome>>
      BY <3>1, <3>2 DEF Have, At, Outcome, Ended, Cleanup, Mine, Selected, InSelectedGroup,
           IsUnitForTaskGroup, IsUnitForJob, IsUnitForScalingGroup
    <3> QED BY <3>2, <3>3, IsStutter
  <2> QED BY <2>1, <2>2
<1> QED BY <1>1, <1>2, <1>3, <1>4, TypeCorrect, CoherentAlways, PTL
        DEF Spec, IsRollingUpdate, Rollout!Spec
=============================================================================
