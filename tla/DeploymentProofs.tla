-------------------------- MODULE DeploymentProofs --------------------------
(***************************************************************************)
(* What holds of Deployment for every set of units, deployers and          *)
(* configurations, whichever scheduler is used: type correctness, the      *)
(* invariant Coherent, and the safety properties that follow from it.      *)
(***************************************************************************)
EXTENDS Deployment, FiniteSetTheorems, TLAPS

\* The lists the operators compute hold units, and Generated is finite.
LEMMA ListsAreUnits ==
  ASSUME TypeOK, NEW d \in Deployer
  PROVE  /\ \A g : Generated(d, g) \subseteq Unit
         /\ Obsolete(d) \subseteq Unit /\ NotObsolete(d) \subseteq Unit
         /\ New(d) \subseteq Unit /\ ToDestroy(d) \subseteq Unit
         /\ ToLaunch(d) \subseteq Unit
         /\ \A r \in Reason : WorkList(d, r) \subseteq Unit
<1>1. \A g : Generated(d, g) \subseteq Unit
  BY ConfigAssumption DEF Generated
<1>2. /\ loaded[d] \subseteq Unit /\ modified[d] \subseteq Unit
      /\ failed[d] \subseteq Unit /\ remaining[d] \subseteq Unit
  BY DEF TypeOK
<1>3. /\ Obsolete(d) \subseteq Unit /\ NotObsolete(d) \subseteq Unit
      /\ New(d) \subseteq Unit
  BY <1>1, <1>2 DEF Obsolete, NotObsolete, New
<1>4. ToDestroy(d) \subseteq Unit /\ ToLaunch(d) \subseteq Unit
  BY <1>1, <1>2, <1>3 DEF ToDestroy, ToLaunch
<1>5. \A r \in Reason : WorkList(d, r) \subseteq Unit
  BY <1>2, <1>3 DEF WorkList, Reason
<1> QED BY <1>1, <1>3, <1>4, <1>5

\* The cache keeps its type, cleared or not.
LEMMA CacheIsTyped ==
  ASSUME TypeOK, NEW d \in Deployer, ClearStatus(d) \/ UNCHANGED cacheVars
  PROVE  /\ cached' \in [Deployer -> BOOLEAN]
         /\ status' \in [Deployer -> [Unit -> State]]
<1>1. Unseen \in [Unit -> State]
  BY DEF Unseen, State
<1>2. CASE ClearStatus(d)
  BY <1>1, <1>2 DEF TypeOK, ClearStatus
<1>3. CASE UNCHANGED cacheVars
  BY <1>3 DEF TypeOK, cacheVars
<1> QED BY <1>2, <1>3

\* A unit takes a content and a state that go together.
LEMMA ClusterIsTyped ==
  ASSUME TypeOK, NEW u \in Unit, NEW c \in Content \cup {None}, NEW s \in State,
         c = None <=> s = "missing",
         content' = [content EXCEPT ![u] = c], state' = [state EXCEPT ![u] = s]
  PROVE  /\ content' \in [Unit -> Content \cup {None}]
         /\ state' \in [Unit -> State]
         /\ \A v \in Unit : content'[v] = None <=> state'[v] = "missing"
BY DEF TypeOK

\* SpawnDestroy keeps the types of what it changes.
LEMMA SpawnIsTyped ==
  ASSUME TypeOK, NEW d \in Deployer, NEW to, SpawnDestroy(d, to)
  PROVE  /\ doomed' \in [Deployer -> [Reason -> SUBSET Unit]]
         /\ stopping' \in [Deployer -> SUBSET Reason]
         /\ opFailed' \in [Deployer -> BOOLEAN]
         /\ cached' \in [Deployer -> BOOLEAN]
         /\ status' \in [Deployer -> [Unit -> State]]
<1>1. [r \in Reason |-> WorkList(d, r)] \in [Reason -> SUBSET Unit]
  BY ListsAreUnits
<1>2. doomed' \in [Deployer -> [Reason -> SUBSET Unit]]
  BY <1>1 DEF TypeOK, SpawnDestroy
<1>3. stopping' \in [Deployer -> SUBSET Reason] /\ opFailed' \in [Deployer -> BOOLEAN]
  BY DEF TypeOK, SpawnDestroy
<1>4. ClearStatus(d) \/ UNCHANGED cacheVars
  BY DEF SpawnDestroy
<1> QED BY <1>2, <1>3, <1>4, CacheIsTyped

LEMMA TypeIsInitial == Init => TypeOK
BY BoundAssumption DEF Init, TypeOK, Unseen, State, Reason

LEMMA TypeIsKept == TypeOK /\ [Next]_vars => TypeOK'
<1> SUFFICES ASSUME TypeOK, [Next]_vars PROVE TypeOK'
  OBVIOUS
<1> USE UnitAssumption, ConfigAssumption, KindAssumption, BoundAssumption
<1>1. ASSUME NEW d \in Deployer, List(d) PROVE TypeOK'
  BY <1>1 DEF TypeOK, List, Goto, Selected, cluster, destroyVars, cacheVars, bounds
<1>2. ASSUME NEW d \in Deployer, ListFails(d) PROVE TypeOK'
  BY <1>2 DEF TypeOK, ListFails, Goto, Fault, cluster, planVars, destroyVars, cacheVars, uiVars
<1>3. ASSUME NEW d \in Deployer, BeginSlice(d) PROVE TypeOK'
  <2>1. PICK g \in NextSlices(d) : sg' = [sg EXCEPT ![d] = g]
                /\ LET mine == {u \in remaining[d] : IsUnitForScalingGroup(d, u, g)}
                   IN /\ loaded' = [loaded EXCEPT ![d] = mine]
                      /\ remaining' = [remaining EXCEPT ![d] = @ \ mine]
                      /\ todo' = [todo EXCEPT ![d] = mine \cap Generated(d, g)]
    BY <1>3 DEF BeginSlice
  <2>2. g \in Nat
    BY DEF NextSlices, Slices
  <2>3. Generated(d, g) \subseteq Unit
    BY ListsAreUnits
  <2> QED BY <1>3, <2>1, <2>2, <2>3
       DEF TypeOK, BeginSlice, Goto, cluster, destroyVars, cacheVars, bounds
<1>4. ASSUME NEW d \in Deployer, EndSlices(d) PROVE TypeOK'
  BY <1>4 DEF TypeOK, EndSlices, Goto, cluster, planVars, destroyVars, cacheVars, bounds
<1>5. ASSUME NEW d \in Deployer, NEW u \in Unit, CheckModified(d, u) PROVE TypeOK'
  <2>1. faults' \in 0..MaxFaults /\ failures' \in 0..MaxFailures
    BY <1>5 DEF TypeOK, CheckModified, Fault, bounds
  <2>2. modified' \in [Deployer -> SUBSET Unit]
    <3>1. modified \in [Deployer -> SUBSET Unit] /\ modified[d] \cup {u} \in SUBSET Unit
      BY DEF TypeOK
    <3>2. \/ UNCHANGED modified
          \/ modified' = [modified EXCEPT ![d] = modified[d] \cup {u}]
      BY <1>5, <3>1 DEF CheckModified
    <3> QED BY <3>1, <3>2
  <2>3. todo' \in [Deployer -> SUBSET Unit]
    BY <1>5 DEF TypeOK, CheckModified
  <2> QED BY <1>5, <2>1, <2>2, <2>3
       DEF TypeOK, CheckModified, cluster, destroyVars, cacheVars, uiVars
<1>6. ASSUME NEW d \in Deployer, EndCheckModified(d) PROVE TypeOK'
  BY <1>6, ListsAreUnits
     DEF TypeOK, EndCheckModified, Goto, cluster, destroyVars, cacheVars, uiVars, bounds
<1>7. ASSUME NEW d \in Deployer, NEW u \in Unit, CheckFailed(d, u) PROVE TypeOK'
  BY <1>7 DEF TypeOK, CheckFailed, cluster, destroyVars, uiVars, bounds
<1>8. ASSUME NEW d \in Deployer, NEW u \in Unit, CheckFailedFails(d, u) PROVE TypeOK'
  BY <1>8 DEF TypeOK, CheckFailedFails, Fault, cluster, destroyVars, cacheVars, uiVars
<1>9. ASSUME NEW d \in Deployer, EndCheckFailed(d) PROVE TypeOK'
  BY <1>9 DEF TypeOK, EndCheckFailed, Goto, cluster, planVars, destroyVars, cacheVars, uiVars, bounds
<1>10. ASSUME NEW d \in Deployer, SkipConfirm(d) PROVE TypeOK'
  <2>1. SpawnDestroy(d, "destroying")
    BY <1>10 DEF SkipConfirm
  <2>2. pc' = [pc EXCEPT ![d] = "destroying"]
    BY <2>1 DEF SpawnDestroy, Goto
  <2> QED BY <1>10, <2>1, <2>2, SpawnIsTyped
       DEF TypeOK, SkipConfirm, cluster, planVars, uiVars, bounds
<1>11. ASSUME NEW d \in Deployer, Confirm(d) PROVE TypeOK'
  <2>1. SpawnDestroy(d, "destroying") /\ Accept(d, ToDestroy(d) \cup New(d))
    BY <1>11 DEF Confirm
  <2>2. pc' = [pc EXCEPT ![d] = "destroying"]
    BY <2>1 DEF SpawnDestroy, Goto
  <2>3. /\ autoConfirm' \in [Deployer -> BOOLEAN]
        /\ approved' \in [Deployer -> SUBSET Unit]
    BY <2>1, ListsAreUnits DEF Accept, TypeOK
  <2> QED BY <1>11, <2>1, <2>2, <2>3, SpawnIsTyped
       DEF TypeOK, Confirm, cluster, planVars, bounds
<1>12. ASSUME NEW d \in Deployer, ConfirmFails(d) PROVE TypeOK'
  BY <1>12 DEF TypeOK, ConfirmFails, Goto, cluster, planVars, destroyVars, cacheVars, uiVars, bounds
<1>13. ASSUME NEW d \in Deployer, ConfirmCleanup(d) PROVE TypeOK'
  <2>1. SpawnDestroy(d, "cleaning")
    BY <1>13 DEF ConfirmCleanup
  <2>2. pc' = [pc EXCEPT ![d] = "cleaning"]
    BY <2>1 DEF SpawnDestroy, Goto
  <2>3. /\ autoConfirm' \in [Deployer -> BOOLEAN]
        /\ approved' \in [Deployer -> SUBSET Unit]
    <3>1. CASE UNCHANGED <<autoConfirm, approved>>
      BY <3>1 DEF TypeOK
    <3>2. CASE Accept(d, remaining[d])
      BY <3>2 DEF Accept, TypeOK
    <3> QED BY <1>13, <3>1, <3>2 DEF ConfirmCleanup
  <2> QED BY <1>13, <2>1, <2>2, <2>3, SpawnIsTyped
       DEF TypeOK, ConfirmCleanup, cluster, planVars, bounds
<1>14. ASSUME NEW d \in Deployer, NEW r \in Reason, NEW u \in Unit, StopUnit(d, r, u)
       PROVE TypeOK'
  <2>1. state' \in [Unit -> State] /\ \A v \in Unit : content[v] = None <=> state'[v] = "missing"
    BY <1>14 DEF TypeOK, StopUnit, State
  <2>2. doomed' \in [Deployer -> [Reason -> SUBSET Unit]]
    BY <1>14 DEF TypeOK, StopUnit
  <2> QED BY <1>14, <2>1, <2>2 DEF TypeOK, StopUnit, planVars, cacheVars, uiVars, bounds
<1>15. ASSUME NEW d \in Deployer, NEW r \in Reason, StopReturns(d, r) PROVE TypeOK'
  <2>1. doomed' \in [Deployer -> [Reason -> SUBSET Unit]]
    BY <1>15, ListsAreUnits DEF TypeOK, StopReturns
  <2>2. faults' \in 0..MaxFaults /\ failures' \in 0..MaxFailures
    BY <1>15 DEF TypeOK, StopReturns, Fault, bounds
  <2>3. stopping' \in [Deployer -> SUBSET Reason]
    BY <1>15 DEF TypeOK, StopReturns
  <2> QED BY <1>15, <2>1, <2>2, <2>3 DEF TypeOK, StopReturns, cluster, planVars, cacheVars, uiVars
<1>16. ASSUME NEW d \in Deployer, NEW r \in Reason, NEW u \in Unit, DestroyUnit(d, r, u)
       PROVE TypeOK'
  <2>1. doomed' \in [Deployer -> [Reason -> SUBSET Unit]]
    BY <1>16 DEF TypeOK, DestroyUnit
  <2>2. /\ content' \in [Unit -> Content \cup {None}] /\ state' \in [Unit -> State]
        /\ \A v \in Unit : content'[v] = None <=> state'[v] = "missing"
    BY <1>16 DEF TypeOK, DestroyUnit, State
  <2> QED BY <1>16, <2>1, <2>2 DEF TypeOK, DestroyUnit, planVars, cacheVars, uiVars, bounds
<1>17. ASSUME NEW d \in Deployer, NEW r \in Reason, NEW u \in Unit, DestroyFails(d, r, u)
       PROVE TypeOK'
  <2>1. doomed' \in [Deployer -> [Reason -> SUBSET Unit]]
    BY <1>17 DEF TypeOK, DestroyFails
  <2>2. /\ content' \in [Unit -> Content \cup {None}] /\ state' \in [Unit -> State]
        /\ \A v \in Unit : content'[v] = None <=> state'[v] = "missing"
    <3>1. CASE UNCHANGED cluster
      BY <3>1 DEF TypeOK, cluster
    <3>2. CASE /\ content' = [content EXCEPT ![u] = None]
               /\ state' = [state EXCEPT ![u] = "missing"]
      BY <3>2, ClusterIsTyped DEF State
    <3> QED BY <1>17, <3>1, <3>2 DEF DestroyFails
  <2> QED BY <1>17, <2>1, <2>2 DEF TypeOK, DestroyFails, Fault, planVars, cacheVars, uiVars
<1>18. ASSUME NEW d \in Deployer, JoinDestroy(d) PROVE TypeOK'
  <2>1. /\ cached' \in [Deployer -> BOOLEAN] /\ status' \in [Deployer -> [Unit -> State]]
        /\ todo' \in [Deployer -> SUBSET Unit]
    <3>1. ClearStatus(d) \/ UNCHANGED cacheVars
      BY <1>18 DEF JoinDestroy, cacheVars
    <3>2. UNCHANGED todo \/ todo' = [todo EXCEPT ![d] = ToLaunch(d)]
      BY <1>18 DEF JoinDestroy
    <3>3. /\ cached' \in [Deployer -> BOOLEAN]
          /\ status' \in [Deployer -> [Unit -> State]]
      BY <3>1, CacheIsTyped
    <3>4. todo' \in [Deployer -> SUBSET Unit]
      <4>1. ToLaunch(d) \in SUBSET Unit
        BY ListsAreUnits
      <4>2. todo \in [Deployer -> SUBSET Unit]
        BY DEF TypeOK
      <4> QED BY <3>2, <4>1, <4>2
    <3> QED BY <3>3, <3>4
  <2> QED BY <1>18, <2>1
       DEF TypeOK, JoinDestroy, AfterJoin, Goto, cluster, destroyVars, uiVars, bounds
<1>19. ASSUME NEW d \in Deployer, NEW u \in Unit, CreateUnit(d, u) PROVE TypeOK'
  <2>1. /\ content' \in [Unit -> Content \cup {None}] /\ state' \in [Unit -> State]
        /\ \A v \in Unit : content'[v] = None <=> state'[v] = "missing"
    <3>1. CASE UNCHANGED cluster
      BY <3>1 DEF TypeOK, cluster
    <3>2. CASE /\ content' = [content EXCEPT ![u] = Config[d].content[u]]
               /\ state' = [state EXCEPT ![u] = "inactive"]
      <4>1. Config[d].content[u] \in Content
        OBVIOUS
      <4> QED BY <3>2, <4>1, ClusterIsTyped DEF State
    <3> QED BY <1>19, <3>1, <3>2 DEF CreateUnit
  <2> QED BY <1>19, <2>1 DEF TypeOK, CreateUnit, destroyVars, cacheVars, uiVars, bounds
<1>20. ASSUME NEW d \in Deployer, EndCreate(d) PROVE TypeOK'
  BY <1>20, ListsAreUnits
     DEF TypeOK, EndCreate, Goto, cluster, destroyVars, cacheVars, uiVars, bounds
<1>21. ASSUME NEW d \in Deployer, NEW u \in Unit, StartUnit(d, u) PROVE TypeOK'
  <2>1. state' \in [Unit -> State] /\ \A v \in Unit : content[v] = None <=> state'[v] = "missing"
    BY <1>21 DEF TypeOK, StartUnit, State
  <2> QED BY <1>21, <2>1 DEF TypeOK, StartUnit, Goto, destroyVars, cacheVars, uiVars, bounds
<1>22. ASSUME NEW d \in Deployer, LaunchFails(d) PROVE TypeOK'
  BY <1>22 DEF TypeOK, LaunchFails, Goto, Fault, cluster, planVars, destroyVars, cacheVars, uiVars
<1>23. ASSUME NEW d \in Deployer, NEW u \in Unit, ApplyUnit(d, u) PROVE TypeOK'
  <2>1. /\ content' \in [Unit -> Content \cup {None}] /\ state' \in [Unit -> State]
        /\ \A v \in Unit : content'[v] = None <=> state'[v] = "missing"
    <3>1. CASE UNCHANGED cluster
      BY <3>1 DEF TypeOK, cluster
    <3>2. CASE /\ content' = [content EXCEPT ![u] = Config[d].content[u]]
               /\ state' = [state EXCEPT ![u] = "running"]
      <4>1. Config[d].content[u] \in Content
        OBVIOUS
      <4> QED BY <3>2, <4>1, ClusterIsTyped DEF State
    <3> QED BY <1>23, <3>1, <3>2 DEF ApplyUnit
  <2> QED BY <1>23, <2>1 DEF TypeOK, ApplyUnit, destroyVars, cacheVars, uiVars, bounds
<1>24. ASSUME NEW d \in Deployer, NEW u \in Unit, ApplyFails(d, u) PROVE TypeOK'
  <2>1. /\ content' \in [Unit -> Content \cup {None}] /\ state' \in [Unit -> State]
        /\ \A v \in Unit : content'[v] = None <=> state'[v] = "missing"
    <3>1. CASE UNCHANGED cluster
      BY <3>1 DEF TypeOK, cluster
    <3>2. CASE /\ content' = [content EXCEPT ![u] = Config[d].content[u]]
               /\ state' = [state EXCEPT ![u] = "failed"]
      <4>1. Config[d].content[u] \in Content
        OBVIOUS
      <4> QED BY <3>2, <4>1, ClusterIsTyped DEF State
    <3> QED BY <1>24, <3>1, <3>2 DEF ApplyFails
  <2> QED BY <1>24, <2>1 DEF TypeOK, ApplyFails, Fault, cacheVars, uiVars
<1>25. ASSUME NEW d \in Deployer, EndLaunch(d) PROVE TypeOK'
  BY <1>25 DEF TypeOK, EndLaunch, Goto, cluster, planVars, destroyVars, cacheVars, uiVars, bounds
<1>26. ASSUME NEW u \in Unit, UnitFails(u) PROVE TypeOK'
  BY <1>26 DEF TypeOK, UnitFails, State, planVars, destroyVars, cacheVars, uiVars
<1>27. CASE UNCHANGED vars
  BY <1>27 DEF TypeOK, vars, cluster, planVars, destroyVars, cacheVars, uiVars, bounds
<1>28. ASSUME NEW d \in Deployer, NEW r \in Reason, NEW u \in Unit, DestroyIsLost(d, r, u)
       PROVE TypeOK'
  <2>1. doomed' \in [Deployer -> [Reason -> SUBSET Unit]]
    BY <1>28 DEF TypeOK, DestroyIsLost
  <2>2. missed' \in [Deployer -> SUBSET Unit]
    BY <1>28 DEF TypeOK, DestroyIsLost
  <2> QED BY <1>28, <2>1, <2>2 DEF TypeOK, DestroyIsLost, Fault, cluster, planVars, cacheVars
<1>29. ASSUME NEW d \in Deployer, Progress(d) PROVE TypeOK'
  BY <1>29, <1>1, <1>3, <1>4, <1>5, <1>6, <1>7, <1>9, <1>10, <1>14, <1>15, <1>16,
     <1>18, <1>19, <1>20, <1>21, <1>23, <1>25 DEF Progress
<1>30. ASSUME NEW d \in Deployer, Operator(d) \/ Faulty(d) PROVE TypeOK'
  BY <1>30, <1>2, <1>8, <1>11, <1>12, <1>13, <1>17, <1>22, <1>24, <1>28 DEF Operator, Faulty
<1> QED BY <1>26, <1>27, <1>29, <1>30 DEF Next, Terminated

\* Every variable has its type, and a unit of the cluster has a state exactly when
\* it has a content.
THEOREM TypeCorrect == Spec => []TypeOK
<1>1. Init => TypeOK
  BY TypeIsInitial
<1>2. TypeOK /\ [Next]_vars => TypeOK'
  BY TypeIsKept
<1> QED BY <1>1, <1>2, PTL DEF Spec

-----------------------------------------------------------------------------
(* Coherent.  What it says of a deployer depends on the variables of that  *)
(* deployer only, so a step can disturb it for the one that takes the step *)
(* and for no other.                                                       *)

Own(e) == <<pc[e], sg[e], remaining[e], loaded[e], todo[e], modified[e],
            failed[e], doomed[e], listed[e], approved[e], stopping[e], opFailed[e],
            cached[e], status[e], missed[e]>>

Fits(e) == PlanFits(e) /\ WorkFits(e) /\ ConsentFits(e)

Step(d) == Progress(d) \/ Operator(d) \/ Faulty(d)

LEMMA FitsByOwn ==
  ASSUME NEW e \in Deployer, Fits(e), UNCHANGED Own(e)
  PROVE  Fits(e)'
<1>1. /\ pc'[e] = pc[e] /\ sg'[e] = sg[e] /\ remaining'[e] = remaining[e]
      /\ loaded'[e] = loaded[e] /\ todo'[e] = todo[e] /\ modified'[e] = modified[e]
      /\ failed'[e] = failed[e] /\ doomed'[e] = doomed[e] /\ listed'[e] = listed[e]
      /\ approved'[e] = approved[e]
  BY DEF Own
<1>2. /\ Obsolete(e)' = Obsolete(e) /\ NotObsolete(e)' = NotObsolete(e)
      /\ New(e)' = New(e) /\ SlicePhase(e)' = SlicePhase(e) /\ Working(e)' = Working(e)
  BY <1>1 DEF Obsolete, NotObsolete, New, SlicePhase, Working
<1>3. ToDestroy(e)' = ToDestroy(e) /\ ToLaunch(e)' = ToLaunch(e)
  BY <1>1, <1>2 DEF ToDestroy, ToLaunch
<1>4. \A r \in Reason : WorkList(e, r)' = WorkList(e, r)
  BY <1>1, <1>2 DEF WorkList, Reason
<1>5. PlanFits(e)'
  BY <1>1, <1>2 DEF Fits, PlanFits
<1>6. WorkFits(e)'
  BY <1>1, <1>2, <1>3, <1>4 DEF Fits, WorkFits
<1>7. ConsentFits(e)'
  BY <1>1, <1>2, <1>3 DEF Fits, ConsentFits, Skipped
<1> QED BY <1>5, <1>6, <1>7 DEF Fits

LEMMA OthersKeepTheirs ==
  ASSUME TypeOK, NEW d \in Deployer, Step(d), NEW e \in Deployer, e # d
  PROVE  UNCHANGED Own(e)
<1> USE DEF TypeOK, Own, Goto, planVars, destroyVars, uiVars, cacheVars, ClearStatus
<1>1. ASSUME List(d) PROVE UNCHANGED Own(e)
  BY <1>1 DEF List
<1>2. ASSUME ListFails(d) PROVE UNCHANGED Own(e)
  BY <1>2 DEF ListFails
<1>3. ASSUME BeginSlice(d) PROVE UNCHANGED Own(e)
  BY <1>3 DEF BeginSlice
<1>4. ASSUME EndSlices(d) PROVE UNCHANGED Own(e)
  BY <1>4 DEF EndSlices
<1>5. ASSUME NEW u \in Unit, CheckModified(d, u) PROVE UNCHANGED Own(e)
  BY <1>5 DEF CheckModified
<1>6. ASSUME EndCheckModified(d) PROVE UNCHANGED Own(e)
  BY <1>6 DEF EndCheckModified
<1>7. ASSUME NEW u \in Unit, CheckFailed(d, u) PROVE UNCHANGED Own(e)
  BY <1>7 DEF CheckFailed
<1>8. ASSUME NEW u \in Unit, CheckFailedFails(d, u) PROVE UNCHANGED Own(e)
  BY <1>8 DEF CheckFailedFails
<1>9. ASSUME EndCheckFailed(d) PROVE UNCHANGED Own(e)
  BY <1>9 DEF EndCheckFailed
<1>10. ASSUME SkipConfirm(d) PROVE UNCHANGED Own(e)
  BY <1>10 DEF SkipConfirm, SpawnDestroy
<1>11. ASSUME Confirm(d) PROVE UNCHANGED Own(e)
  BY <1>11 DEF Confirm, SpawnDestroy, Accept
<1>12. ASSUME ConfirmFails(d) PROVE UNCHANGED Own(e)
  BY <1>12 DEF ConfirmFails
<1>13. ASSUME ConfirmCleanup(d) PROVE UNCHANGED Own(e)
  BY <1>13 DEF ConfirmCleanup, SpawnDestroy, Accept
<1>14. ASSUME NEW r \in Reason, NEW u \in Unit, StopUnit(d, r, u) PROVE UNCHANGED Own(e)
  BY <1>14 DEF StopUnit
<1>15. ASSUME NEW r \in Reason, StopReturns(d, r) PROVE UNCHANGED Own(e)
  BY <1>15 DEF StopReturns
<1>16. ASSUME NEW r \in Reason, NEW u \in Unit, DestroyUnit(d, r, u) PROVE UNCHANGED Own(e)
  BY <1>16 DEF DestroyUnit
<1>17. ASSUME NEW r \in Reason, NEW u \in Unit, DestroyFails(d, r, u) \/ DestroyIsLost(d, r, u)
       PROVE  UNCHANGED Own(e)
  BY <1>17 DEF DestroyFails, DestroyIsLost
<1>18. ASSUME JoinDestroy(d) PROVE UNCHANGED Own(e)
  BY <1>18 DEF JoinDestroy
<1>19. ASSUME NEW u \in Unit, CreateUnit(d, u) PROVE UNCHANGED Own(e)
  BY <1>19 DEF CreateUnit
<1>20. ASSUME EndCreate(d) PROVE UNCHANGED Own(e)
  BY <1>20 DEF EndCreate
<1>21. ASSUME NEW u \in Unit, StartUnit(d, u) PROVE UNCHANGED Own(e)
  BY <1>21 DEF StartUnit
<1>22. ASSUME LaunchFails(d) PROVE UNCHANGED Own(e)
  BY <1>22 DEF LaunchFails
<1>23. ASSUME NEW u \in Unit, ApplyUnit(d, u) PROVE UNCHANGED Own(e)
  BY <1>23 DEF ApplyUnit
<1>24. ASSUME NEW u \in Unit, ApplyFails(d, u) PROVE UNCHANGED Own(e)
  BY <1>24 DEF ApplyFails
<1>25. ASSUME EndLaunch(d) PROVE UNCHANGED Own(e)
  BY <1>25 DEF EndLaunch
<1>26. CASE Progress(d)
  BY <1>26, <1>1, <1>3, <1>4, <1>5, <1>7, <1>6, <1>9, <1>10, <1>15, <1>14, <1>16, <1>18, <1>19, <1>21, <1>23, <1>20, <1>25 DEF Progress
<1>27. CASE Operator(d)
  BY <1>27, <1>11, <1>12, <1>13 DEF Operator
<1>29. CASE Faulty(d)
  BY <1>29, <1>2, <1>8, <1>17, <1>22, <1>24 DEF Faulty
<1> QED BY <1>26, <1>27, <1>29 DEF Step

\* An equal number of units, and none that is obsolete: none is new.
LEMMA NothingToDo ==
  ASSUME TypeOK, NEW d \in Deployer, ~AnyModifications(d)
  PROVE  ToDestroy(d) \cup New(d) = {}
<1>1. ToDestroy(d) = {} /\ Cardinality(loaded[d]) = Cardinality(Generated(d, sg[d]))
  BY DEF AnyModifications
<1>2. loaded[d] \subseteq Generated(d, sg[d])
  BY <1>1 DEF ToDestroy, Obsolete
<1>3. IsFiniteSet(Generated(d, sg[d]))
  BY UnitAssumption, ListsAreUnits, FS_Subset
<1>4. loaded[d] = Generated(d, sg[d])
  BY <1>1, <1>2, <1>3, FS_Subset
<1> QED BY <1>1, <1>4 DEF New

\* What SpawnDestroy sets for its own deployer, and what a loop keeps.
LEMMA SpawnFits ==
  ASSUME TypeOK, NEW d \in Deployer, NEW to \in {"destroying", "cleaning"},
         SpawnDestroy(d, to), UNCHANGED <<sg, planVars>>,
         pc[d] = IF to = "destroying" THEN "confirm" ELSE "cleanup"
  PROVE  /\ pc'[d] = to
         /\ \A r \in Reason : doomed'[d][r] \subseteq WorkList(d, r)'
<1>1. pc'[d] = to
  BY DEF SpawnDestroy, Goto, TypeOK
<1>2. /\ sg'[d] = sg[d] /\ remaining'[d] = remaining[d] /\ loaded'[d] = loaded[d]
      /\ modified'[d] = modified[d] /\ failed'[d] = failed[d]
  BY DEF planVars
<1>3. Obsolete(d)' = Obsolete(d)
  BY <1>2 DEF Obsolete
<1>4. \A r \in Reason : WorkList(d, r)' = WorkList(d, r)
  BY <1>1, <1>2, <1>3 DEF WorkList, Reason
<1>5. \A r \in Reason : doomed'[d][r] = WorkList(d, r)
  BY DEF SpawnDestroy, TypeOK
<1> QED BY <1>1, <1>4, <1>5

\* A goroutine of destroyUnits does its work, or begins with the second half.
LEMMA DoomedShrinks ==
  ASSUME TypeOK, NEW d \in Deployer, NEW r \in Reason, Fits(d), Working(d),
         NEW left \in SUBSET WorkList(d, r),
         doomed' = [doomed EXCEPT ![d][r] = left],
         UNCHANGED <<pc, sg, planVars, listed, approved>>
  PROVE  Fits(d)'
<1>1. /\ pc'[d] = pc[d] /\ sg'[d] = sg[d] /\ remaining'[d] = remaining[d]
      /\ loaded'[d] = loaded[d] /\ modified'[d] = modified[d] /\ failed'[d] = failed[d]
      /\ listed'[d] = listed[d] /\ approved'[d] = approved[d] /\ todo'[d] = todo[d]
  BY DEF planVars
<1>2. /\ Obsolete(d)' = Obsolete(d) /\ NotObsolete(d)' = NotObsolete(d)
      /\ New(d)' = New(d) /\ SlicePhase(d)' = SlicePhase(d) /\ Working(d)' = Working(d)
  BY <1>1 DEF Obsolete, NotObsolete, New, SlicePhase, Working
<1>3. ToDestroy(d)' = ToDestroy(d) /\ ToLaunch(d)' = ToLaunch(d)
  BY <1>1, <1>2 DEF ToDestroy, ToLaunch
<1>4. \A q \in Reason : WorkList(d, q)' = WorkList(d, q)
  BY <1>1, <1>2 DEF WorkList, Reason
<1>5. \A q \in Reason : doomed'[d][q] \subseteq WorkList(d, q)
  BY DEF TypeOK, Fits, WorkFits
<1>6. PlanFits(d)'
  BY <1>1, <1>2 DEF Fits, PlanFits
<1>7. WorkFits(d)'
  BY <1>1, <1>2, <1>3, <1>4, <1>5 DEF Fits, WorkFits
<1>8. ConsentFits(d)'
  BY <1>1, <1>2, <1>3 DEF Fits, ConsentFits, Skipped
<1> QED BY <1>6, <1>7, <1>8 DEF Fits

LEMMA OwnStepFits ==
  ASSUME TypeOK, NEW d \in Deployer, Fits(d), Step(d)
  PROVE  Fits(d)'
<1> USE DEF TypeOK, Fits, Goto
<1>1. ASSUME List(d) PROVE Fits(d)'
  BY <1>1, ConfigAssumption
     DEF List, PlanFits, WorkFits, ConsentFits, NotObsolete, SlicePhase, Working
<1>2. ASSUME ListFails(d) PROVE Fits(d)'
  BY <1>2 DEF ListFails, PlanFits, WorkFits, ConsentFits, NotObsolete, SlicePhase,
              Working, planVars, uiVars, destroyVars
<1>3. ASSUME BeginSlice(d) PROVE Fits(d)'
  <2>1. PICK g \in NextSlices(d) : sg' = [sg EXCEPT ![d] = g]
                /\ LET mine == {u \in remaining[d] : IsUnitForScalingGroup(d, u, g)}
                   IN /\ loaded' = [loaded EXCEPT ![d] = mine]
                      /\ remaining' = [remaining EXCEPT ![d] = @ \ mine]
                      /\ todo' = [todo EXCEPT ![d] = mine \cap Generated(d, g)]
    BY <1>3 DEF BeginSlice
  <2>2. g \in Slices(d)
    BY DEF NextSlices
  <2>3. /\ pc[d] = "slice" /\ pc'[d] = "checkModified" /\ sg'[d] = g
        /\ modified'[d] = {} /\ failed'[d] = {} /\ listed'[d] = listed[d]
    BY <1>3, <2>1 DEF BeginSlice
  <2>4. /\ loaded'[d] \subseteq remaining[d] /\ remaining'[d] \subseteq remaining[d]
        /\ todo'[d] = loaded'[d] \cap Generated(d, g)
    BY <2>1
  <2>5. PlanFits(d)'
    BY <2>2, <2>3, <2>4 DEF PlanFits, SlicePhase
  <2>6. WorkFits(d)'
    BY <2>3, <2>4 DEF WorkFits, NotObsolete, Working
  <2> QED BY <2>3, <2>5, <2>6 DEF ConsentFits
<1>4. ASSUME EndSlices(d) PROVE Fits(d)'
  BY <1>4 DEF EndSlices, PlanFits, WorkFits, ConsentFits, NotObsolete, SlicePhase,
              Working, planVars
<1>5. ASSUME NEW u \in Unit, CheckModified(d, u) PROVE Fits(d)'
  BY <1>5 DEF CheckModified, PlanFits, WorkFits, ConsentFits, NotObsolete, SlicePhase,
              Working, uiVars, destroyVars
<1>6. ASSUME EndCheckModified(d) PROVE Fits(d)'
  BY <1>6 DEF EndCheckModified, PlanFits, WorkFits, ConsentFits, NotObsolete,
              SlicePhase, Working, uiVars, destroyVars
<1>7. ASSUME NEW u \in Unit, CheckFailed(d, u) PROVE Fits(d)'
  BY <1>7 DEF CheckFailed, PlanFits, WorkFits, ConsentFits, NotObsolete, SlicePhase,
              Working, uiVars, destroyVars
<1>8. ASSUME NEW u \in Unit, CheckFailedFails(d, u) PROVE Fits(d)'
  BY <1>8 DEF CheckFailedFails, PlanFits, WorkFits, ConsentFits, NotObsolete, SlicePhase,
              Working, uiVars, destroyVars
<1>9. ASSUME EndCheckFailed(d) PROVE Fits(d)'
  BY <1>9 DEF EndCheckFailed, PlanFits, WorkFits, ConsentFits, NotObsolete, SlicePhase,
              Working, planVars, uiVars, destroyVars
<1>10. ASSUME SkipConfirm(d) \/ Confirm(d) PROVE Fits(d)'
  <2>1. /\ pc[d] = "confirm" /\ SpawnDestroy(d, "destroying")
        /\ UNCHANGED <<sg, planVars, listed>>
    BY <1>10 DEF SkipConfirm, Confirm, uiVars
  <2>2. /\ pc'[d] = "destroying"
        /\ \A r \in Reason : doomed'[d][r] \subseteq WorkList(d, r)'
    BY <2>1, SpawnFits
  <2>3. /\ sg'[d] = sg[d] /\ remaining'[d] = remaining[d] /\ loaded'[d] = loaded[d]
        /\ modified'[d] = modified[d] /\ failed'[d] = failed[d] /\ listed'[d] = listed[d]
    BY <2>1 DEF planVars
  <2>4. ToDestroy(d)' = ToDestroy(d) /\ New(d)' = New(d)
    BY <2>3 DEF ToDestroy, Obsolete, New
  <2>5. \/ Skipped(d) \/ ToDestroy(d) \cup New(d) = {}
        \/ approved'[d] = ToDestroy(d) \cup New(d)
    BY <1>10, NothingToDo DEF SkipConfirm, Confirm, Accept
  <2>6. PlanFits(d)'
    BY <2>1, <2>2, <2>3 DEF PlanFits, NotObsolete, SlicePhase
  <2>7. WorkFits(d)'
    BY <2>2 DEF WorkFits
  <2>8. ConsentFits(d)'
    BY <2>2, <2>4, <2>5 DEF ConsentFits, Skipped
  <2> QED BY <2>6, <2>7, <2>8
<1>11. ASSUME ConfirmFails(d) PROVE Fits(d)'
  BY <1>11 DEF ConfirmFails, PlanFits, WorkFits, ConsentFits, NotObsolete, SlicePhase,
               Working, planVars, uiVars, destroyVars
<1>12. ASSUME ConfirmCleanup(d) PROVE Fits(d)'
  <2>1. /\ pc[d] = "cleanup" /\ SpawnDestroy(d, "cleaning")
        /\ UNCHANGED <<sg, planVars, listed>>
    BY <1>12 DEF ConfirmCleanup
  <2>2. /\ pc'[d] = "cleaning"
        /\ \A r \in Reason : doomed'[d][r] \subseteq WorkList(d, r)'
    BY <2>1, SpawnFits
  <2>3. /\ sg'[d] = sg[d] /\ remaining'[d] = remaining[d] /\ loaded'[d] = loaded[d]
        /\ modified'[d] = modified[d] /\ failed'[d] = failed[d] /\ listed'[d] = listed[d]
    BY <2>1 DEF planVars
  <2>4. (Config[d].op = "destroy" /\ Config[d].force) \/ approved'[d] = remaining[d]
    BY <1>12 DEF ConfirmCleanup, Accept
  <2>5. PlanFits(d)'
    BY <2>2, <2>3 DEF PlanFits, NotObsolete, SlicePhase
  <2>6. WorkFits(d)'
    BY <2>2 DEF WorkFits
  <2> QED BY <2>2, <2>3, <2>4, <2>5, <2>6 DEF ConsentFits
<1>13. ASSUME NEW r \in Reason, NEW u \in Unit,
              \/ StopUnit(d, r, u) \/ DestroyUnit(d, r, u)
              \/ DestroyFails(d, r, u) \/ DestroyIsLost(d, r, u)
       PROVE Fits(d)'
  <2>1. /\ Working(d) /\ UNCHANGED <<pc, sg, planVars, listed, approved>>
        /\ doomed' = [doomed EXCEPT ![d][r] = @ \ {u}]
    BY <1>13 DEF StopUnit, DestroyUnit, DestroyFails, DestroyIsLost, uiVars
  <2>2. doomed[d][r] \ {u} \in SUBSET WorkList(d, r)
    BY <2>1 DEF WorkFits
  <2>3. doomed' = [doomed EXCEPT ![d][r] = doomed[d][r] \ {u}]
    BY <2>1
  <2> QED BY <2>1, <2>2, <2>3, DoomedShrinks
<1>14. ASSUME NEW r \in Reason, StopReturns(d, r) PROVE Fits(d)'
  <2>1. /\ Working(d) /\ UNCHANGED <<pc, sg, planVars, listed, approved>>
        /\ doomed' = [doomed EXCEPT ![d][r] = WorkList(d, r)]
    BY <1>14 DEF StopReturns, uiVars
  <2> QED BY <2>1, DoomedShrinks
<1>15. ASSUME JoinDestroy(d) PROVE Fits(d)'
  BY <1>15 DEF JoinDestroy, AfterJoin, PlanFits, WorkFits, ConsentFits, NotObsolete,
       Obsolete, New, ToDestroy, ToLaunch, Skipped, SlicePhase, Working, destroyVars, uiVars
<1>16. ASSUME NEW u \in Unit, CreateUnit(d, u) \/ StartUnit(d, u) \/ ApplyUnit(d, u)
                               \/ ApplyFails(d, u)
       PROVE Fits(d)'
  BY <1>16 DEF CreateUnit, StartUnit, ApplyUnit, ApplyFails, PlanFits, WorkFits,
       ConsentFits, NotObsolete, Obsolete, New, ToDestroy, ToLaunch, Skipped, SlicePhase,
       Working, destroyVars, uiVars
<1>17. ASSUME EndCreate(d) \/ LaunchFails(d) \/ EndLaunch(d) PROVE Fits(d)'
  BY <1>17 DEF EndCreate, LaunchFails, EndLaunch, PlanFits, WorkFits,
       ConsentFits, NotObsolete, Obsolete, New, ToDestroy, ToLaunch, Skipped, SlicePhase,
       Working, planVars, destroyVars, uiVars
<1>18. CASE Progress(d)
  BY <1>18, <1>1, <1>3, <1>4, <1>5, <1>6, <1>7, <1>9, <1>10, <1>13, <1>14, <1>15,
     <1>16, <1>17 DEF Progress
<1>19. CASE Operator(d)
  BY <1>19, <1>10, <1>11, <1>12 DEF Operator
<1>20. CASE Faulty(d)
  BY <1>20, <1>2, <1>8, <1>13, <1>16, <1>17 DEF Faulty
<1> QED BY <1>18, <1>19, <1>20 DEF Step

\* The lists, the work left and the consent of every deployer fit together, under
\* all interleavings of any number of deployers.
THEOREM CoherentAlways == Spec => []Coherent
<1>1. Init => Coherent
  BY DEF Init, Coherent, PlanFits, WorkFits, ConsentFits, NotObsolete, SlicePhase, Working
<1>2. TypeOK /\ Coherent /\ [Next]_vars => Coherent'
  <2> SUFFICES ASSUME TypeOK, Coherent, [Next]_vars, NEW e \in Deployer PROVE Fits(e)'
    BY DEF Coherent, Fits
  <2>1. Fits(e)
    BY DEF Coherent, Fits
  <2>2. ASSUME NEW d \in Deployer, Step(d) PROVE Fits(e)'
    BY <2>1, <2>2, FitsByOwn, OwnStepFits, OthersKeepTheirs
  <2>3. ASSUME NEW u \in Unit, UnitFails(u) PROVE Fits(e)'
    <3>1. UNCHANGED Own(e)
      BY <2>3 DEF UnitFails, Own, planVars, destroyVars, uiVars, cacheVars
    <3> QED BY <2>1, <3>1, FitsByOwn
  <2>4. CASE UNCHANGED vars
    <3>1. UNCHANGED Own(e)
      BY <2>4 DEF vars, Own, planVars, destroyVars, uiVars, cacheVars
    <3> QED BY <2>1, <3>1, FitsByOwn
  <2> QED BY <2>2, <2>3, <2>4 DEF Next, Terminated, Step
<1> QED BY <1>1, <1>2, TypeCorrect, PTL DEF Spec

-----------------------------------------------------------------------------
(* The safety properties that follow.                                      *)

\* A deployer that is about to do something to u.
Removes(d, u) == Working(d) /\ \E r \in Reason : u \in doomed[d][r]
Launches(d, u) == pc[d] \in {"create", "start"} /\ u \in todo[d]

\* A deployer removes u, or launches it as the job file describes it.
Touches(d, u) ==
  /\ TakesUp(d, u)
  /\ \/ Removes(d, u)
     \/ Launches(d, u) /\ content'[u] \in {content[u], Config[d].content[u]}

\* Nothing but these two changes a content, or a state unless the unit fails, and
\* the deployer that takes the step is the one that does it.
LEMMA StepTouches ==
  ASSUME TypeOK, NEW d \in Deployer, Step(d), NEW u \in Unit,
         content'[u] # content[u] \/ state'[u] # state[u]
  PROVE  Touches(d, u)
<1>1. ASSUME NEW v \in Unit, CreateUnit(d, v) \/ ApplyUnit(d, v) \/ ApplyFails(d, v)
      PROVE  Touches(d, u)
  <2>1. u = v /\ Launches(d, v)
    BY <1>1 DEF TypeOK, CreateUnit, ApplyUnit, ApplyFails, Launches, cluster
  <2>2. content'[v] = content[v] \/ content'[v] = Config[d].content[v]
    BY <1>1 DEF TypeOK, CreateUnit, ApplyUnit, ApplyFails, cluster
  <2>3. TakesUp(d, v)
    BY <1>1 DEF TypeOK, CreateUnit, ApplyUnit, ApplyFails, TakesUp
  <2> QED BY <2>1, <2>2, <2>3 DEF Touches
<1>2. ASSUME NEW v \in Unit, StartUnit(d, v) PROVE Touches(d, u)
  BY <1>2 DEF TypeOK, StartUnit, Launches, Touches, TakesUp
<1>3. ASSUME NEW r \in Reason, NEW v \in Unit,
             \/ StopUnit(d, r, v) \/ DestroyUnit(d, r, v)
             \/ DestroyFails(d, r, v) \/ DestroyIsLost(d, r, v)
      PROVE  Touches(d, u)
  <2>1. u = v /\ Removes(d, v)
    BY <1>3 DEF TypeOK, StopUnit, DestroyUnit, DestroyFails, DestroyIsLost, Removes, cluster
  <2>2. v \in doomed[d][r] \ doomed'[d][r]
    BY <1>3 DEF TypeOK, StopUnit, DestroyUnit, DestroyFails, DestroyIsLost
  <2> QED BY <2>1, <2>2 DEF Touches, TakesUp
<1>4. ~UNCHANGED cluster
  BY DEF cluster
<1>5. CASE Progress(d)
  BY <1>1, <1>2, <1>3, <1>4, <1>5 DEF Progress, List, BeginSlice, EndSlices, CheckModified,
     CheckFailed, EndCheckModified, EndCheckFailed, SkipConfirm, StopReturns, JoinDestroy,
     EndCreate, EndLaunch
<1>6. CASE Operator(d)
  BY <1>4, <1>6 DEF Operator, Confirm, ConfirmFails, ConfirmCleanup
<1>7. CASE Faulty(d)
  BY <1>1, <1>3, <1>4, <1>7 DEF Faulty, ListFails, LaunchFails, CheckFailedFails
<1> QED BY <1>5, <1>6, <1>7 DEF Step

LEMMA WhoTouches ==
  ASSUME TypeOK, [Next]_vars, NEW u \in Unit,
         \/ content'[u] # content[u]
         \/ state'[u] # state[u] /\ state'[u] # "failed"
  PROVE  \E d \in Deployer : Touches(d, u)
<1>1. ASSUME NEW v \in Unit, UnitFails(v) PROVE FALSE
  BY <1>1 DEF TypeOK, UnitFails
<1>2. ~UNCHANGED vars
  BY DEF vars, cluster
<1>3. PICK d \in Deployer : Step(d)
  BY <1>1, <1>2 DEF Next, Terminated, Step
<1> QED BY <1>3, StepTouches

\* What a deployer removes or launches is of the current slice or of the clean-up.
LEMMA TouchedIsPlanned ==
  ASSUME TypeOK, Coherent, NEW d \in Deployer, NEW u \in Unit
  PROVE  /\ Removes(d, u) => /\ u \in listed[d]
                             /\ IF pc[d] = "cleaning" THEN u \in remaining[d]
                                ELSE u \in ToDestroy(d) /\ u \in loaded[d]
         /\ Launches(d, u) =>
               u \in Generated(d, sg[d]) /\ u \in ToDestroy(d) \cup New(d)
<1>1. PlanFits(d) /\ WorkFits(d)
  BY DEF Coherent
<1>2. ASSUME Removes(d, u)
      PROVE  IF pc[d] = "cleaning" THEN u \in remaining[d]
             ELSE u \in ToDestroy(d) /\ u \in loaded[d]
  <2>1. PICK r \in Reason : u \in WorkList(d, r)
    BY <1>1, <1>2 DEF Removes, WorkFits
  <2>2. CASE pc[d] = "cleaning"
    BY <2>1, <2>2 DEF WorkList
  <2>3. CASE pc[d] = "destroying"
    <3>1. u \in ToDestroy(d)
      BY <2>1, <2>3 DEF WorkList, ToDestroy, Reason
    <3> QED BY <1>1, <2>3, <3>1 DEF PlanFits, ToDestroy, Obsolete, NotObsolete
  <2> QED BY <1>2, <2>2, <2>3 DEF Removes, Working
<1>3. Removes(d, u) => u \in listed[d]
  BY <1>1, <1>2 DEF PlanFits
<1>4. Launches(d, u) => u \in Generated(d, sg[d]) /\ u \in ToDestroy(d) \cup New(d)
  BY <1>1 DEF WorkFits, Launches, ToLaunch, ToDestroy
<1> QED BY <1>2, <1>3, <1>4

\* A deployer removes only what its own list held when it began.
THEOREM RemovalsAreListed == Spec => OnlyListedAreRemoved
<1> DEFINE A == \A u \in Unit : content[u] # None /\ content'[u] = None =>
                  \E d \in Deployer : TakesUp(d, u) /\ u \in listed[d]
<1>1. TypeOK /\ Coherent /\ [Next]_vars => [A]_vars
  <2> SUFFICES ASSUME TypeOK, Coherent, [Next]_vars, NEW u \in Unit,
                      content[u] # None, content'[u] = None
               PROVE  \E d \in Deployer : TakesUp(d, u) /\ u \in listed[d]
    OBVIOUS
  <2>1. PICK d \in Deployer : TakesUp(d, u) /\ Removes(d, u)
    <3>1. \A d \in Deployer : Config[d].content[u] # None
      BY ConfigAssumption, UnitAssumption
    <3> QED BY <3>1, WhoTouches DEF Touches
  <2> QED BY <2>1, TouchedIsPlanned
<1> QED BY <1>1, TypeCorrect, CoherentAlways, PTL DEF Spec, OnlyListedAreRemoved

\* No unit is removed, created or replaced without consent.
THEOREM ChangesNeedConsent == Spec => ChangesAreApproved
<1> DEFINE A == \A u \in Unit : content'[u] # content[u] =>
                  \E d \in Deployer : ~Ended(d) /\ Sanctioned(d, u)
<1>1. TypeOK /\ Coherent /\ [Next]_vars => [A]_vars
  <2> SUFFICES ASSUME TypeOK, Coherent, [Next]_vars, NEW u \in Unit,
                      content'[u] # content[u]
               PROVE  \E d \in Deployer : ~Ended(d) /\ Sanctioned(d, u)
    OBVIOUS
  <2>1. PICK d \in Deployer : Removes(d, u) \/ Launches(d, u)
    BY WhoTouches DEF Touches
  <2>2. PlanFits(d) /\ ConsentFits(d)
    BY DEF Coherent
  <2>3. ~Ended(d)
    BY <2>1 DEF Removes, Launches, Working, Ended
  <2>4. CASE pc[d] = "cleaning"
    <3>1. u \in remaining[d] /\ u \in listed[d]
      BY <2>1, <2>4, TouchedIsPlanned DEF Launches
    <3> QED BY <2>2, <2>3, <2>4, <3>1 DEF ConsentFits, Sanctioned
  <2>5. CASE pc[d] # "cleaning"
    <3>1. pc[d] \in {"destroying", "create", "start"}
      BY <2>1, <2>5 DEF Removes, Launches, Working
    <3>2. u \in ToDestroy(d) \cup New(d) /\ u \in loaded[d] \cup Generated(d, sg[d])
      BY <2>1, <2>5, TouchedIsPlanned
    <3>3. Config[d].op = "run"
      BY <2>2, <3>1 DEF PlanFits, SlicePhase
    <3>4. Skipped(d) \/ u \in approved[d]
      BY <2>2, <3>1, <3>2 DEF ConsentFits
    <3> QED BY <2>3, <2>5, <3>2, <3>3, <3>4 DEF Sanctioned
  <2> QED BY <2>4, <2>5
<1> QED BY <1>1, TypeCorrect, CoherentAlways, PTL DEF Spec, ChangesAreApproved

\* A deployer touches only units its own command line names.
THEOREM StrangersAreSafe == Spec => OthersAreLeftAlone
<1> DEFINE A == \A u \in Unit :
                  (content'[u] # content[u] \/ (state'[u] # state[u] /\ state'[u] # "failed"))
                  => \E d \in Deployer : TakesUp(d, u) /\ Addressed(d, u)
<1>1. TypeOK /\ Coherent /\ [Next]_vars => [A]_vars
  <2> SUFFICES ASSUME TypeOK, Coherent, [Next]_vars, NEW u \in Unit,
                      \/ content'[u] # content[u]
                      \/ state'[u] # state[u] /\ state'[u] # "failed"
               PROVE  \E d \in Deployer : TakesUp(d, u) /\ Addressed(d, u)
    OBVIOUS
  <2>1. PICK d \in Deployer : TakesUp(d, u) /\ (Removes(d, u) \/ Launches(d, u))
    BY WhoTouches DEF Touches
  <2>2. PlanFits(d)
    BY DEF Coherent
  <2>3. CASE Removes(d, u)
    <3>1. u \in Selected(d)
      BY <2>2, <2>3, TouchedIsPlanned DEF PlanFits
    <3> QED BY <2>1, <3>1 DEF Selected, Addressed, InSelectedGroup, IsUnitForJob,
                              IsUnitForTaskGroup, IsUnitForScalingGroup
  <2>4. CASE Launches(d, u)
    <3>1. u \in Generated(d, sg[d])
      BY <2>4, TouchedIsPlanned
    <3>2. sg[d] \in Slices(d)
      BY <2>2, <2>4 DEF PlanFits, Launches, SlicePhase
    <3> QED BY <2>1, <3>1, <3>2 DEF Generated, Slices, Addressed, InSelectedGroup, IsUnitForJob,
                              IsUnitForTaskGroup, RenderedByFleet
  <2> QED BY <2>1, <2>3, <2>4
<1> QED BY <1>1, TypeCorrect, CoherentAlways, PTL DEF Spec, OthersAreLeftAlone
=============================================================================
