------------------------- MODULE FleetTunnelProofs -------------------------
(***************************************************************************)
(* What holds of FleetTunnel for every set of units and callers, every     *)
(* program of theirs, and every limit of the back-off and of the waiting.  *)
(***************************************************************************)
EXTENDS FleetTunnel, SequenceTheorems, TLAPS

\* The call a caller makes is one of its program.
LEMMA CallIsTyped ==
  ASSUME TypeOK, NEW c \in Caller
  PROVE  /\ Op(c) \in {"stop", "destroy", "start"}
         /\ Units(c) \subseteq Unit
         /\ Units(c) \subseteq AllUnits(c)
<1>1. /\ Program[c] \in Seq(Call) /\ call[c] \in 1..Len(Program[c])
  BY TunnelPrograms DEF TypeOK
<1>2. Program[c][call[c]] \in Call
  BY <1>1
<1> QED BY <1>1, <1>2 DEF Call, Op, Units, AllUnits

\* Return leaves the caller between two calls, or at the end; after Destroy and
\* Start only success lets it go on.
LEMMA ReturnIsTyped ==
  ASSUME TypeOK, NEW c \in Caller, NEW ok \in BOOLEAN, Return(c, ok)
  PROVE  /\ call' \in [Caller -> Nat]
         /\ \A d \in Caller : call'[d] \in 1..Len(Program[d])
         /\ pc' \in [Caller -> {"begin", "find", "stop", "destroy", "create", "start", "waitStop",
                                "waitCreate", "waitStart", "done", "failed"}]
         /\ warned' \in [Caller -> BOOLEAN]
         /\ todo' \in [Caller -> SUBSET Unit]
         /\ await' \in [Caller -> SUBSET Unit]
         /\ opFailed' \in [Caller -> BOOLEAN]
         /\ busy' \in [Caller -> Unit \cup {None}]
         /\ todo'[c] = {} /\ busy'[c] = None
         /\ pc'[c] \in {"begin", "done", "failed"}
         /\ pc'[c] # "failed" => ok \/ Op(c) = "stop"
         /\ \A d \in Caller \ {c} :
              /\ call'[d] = call[d] /\ pc'[d] = pc[d]
              /\ todo'[d] = todo[d] /\ busy'[d] = busy[d]
<1>1. /\ todo' = [todo EXCEPT ![c] = {}] /\ busy' = [busy EXCEPT ![c] = None]
      /\ await' = [await EXCEPT ![c] = {}] /\ opFailed' = [opFailed EXCEPT ![c] = FALSE]
  BY DEF Return
<1>2. /\ warned' \in [Caller -> BOOLEAN]
  BY DEF Return, TypeOK
<1>3. call[c] \in 1..Len(Program[c]) /\ call \in [Caller -> Nat] /\ Len(Program[c]) \in Nat
  BY TunnelPrograms DEF TypeOK
<1>4. CASE ok \/ Op(c) = "stop"
  <2>1. /\ call' = IF call[c] < Len(Program[c]) THEN [call EXCEPT ![c] = call[c] + 1] ELSE call
        /\ pc' = [pc EXCEPT ![c] = IF call[c] < Len(Program[c]) THEN "begin" ELSE "done"]
    BY <1>4 DEF Return, Goto
  <2>2. /\ call' \in [Caller -> Nat]
        /\ \A d \in Caller : call'[d] \in 1..Len(Program[d])
        /\ \A d \in Caller \ {c} : call'[d] = call[d]
    BY <1>3, <2>1 DEF TypeOK
  <2> QED BY <1>1, <1>2, <1>4, <2>1, <2>2 DEF TypeOK
<1>5. CASE ~(ok \/ Op(c) = "stop")
  <2>1. call' = call /\ pc' = [pc EXCEPT ![c] = "failed"]
    BY <1>5 DEF Return, Goto
  <2> QED BY <1>1, <1>2, <2>1 DEF TypeOK
<1> QED BY <1>4, <1>5

-----------------------------------------------------------------------------
(* Type correctness.  What a request does to the registry has a type only  *)
(* because requests are made in the loops, which WorkFits says.            *)

Fitting == \A c \in Caller : WorkFits(c)

\* A request leaves a registry in which a unit has both states or none.
LEMMA EffectIsTyped ==
  ASSUME TypeOK, Fitting, NEW c \in Caller, busy[c] # None, ~Conflicts(c, busy[c]),
         Effect(c, busy[c])
  PROVE  /\ desired' \in [Unit -> State] /\ current' \in [Unit -> State]
         /\ \A u \in Unit : current'[u] = "absent" <=> desired'[u] = "absent"
<1>1. busy[c] \in Unit /\ pc[c] \in {"stop", "destroy", "create", "start"}
  BY DEF Fitting, WorkFits, TypeOK
<1>2. CASE pc[c] = "create"
  <2>1. Target(c) = "inactive"
    BY <1>2 DEF Target
  <2> QED BY <1>1, <1>2, <2>1 DEF Effect, TypeOK, State, JobState
<1>3. CASE pc[c] = "stop"
  <2>1. Target(c) = "loaded" /\ desired[busy[c]] # "absent"
    BY <1>3 DEF Target, Conflicts, Exists
  <2> QED BY <1>1, <1>3, <2>1 DEF Effect, TypeOK, State, JobState
<1>4. CASE pc[c] = "start"
  <2>1. Target(c) = "launched" /\ desired[busy[c]] # "absent"
    BY <1>4 DEF Target, Conflicts, Exists
  <2> QED BY <1>1, <1>4, <2>1 DEF Effect, TypeOK, State, JobState
<1>5. CASE pc[c] = "destroy"
  <2>1. Target(c) = "absent"
    BY <1>5 DEF Target
  <2> QED BY <1>1, <1>5, <2>1 DEF Effect, TypeOK, State, JobState
<1> QED BY <1>1, <1>2, <1>3, <1>4, <1>5

\* An attempt that fails keeps the types of the loop.
LEMMA FailsIsTyped ==
  ASSUME TypeOK, NEW c \in Caller, Trying(c), Fails(c) \/ Retry(c)
  PROVE  /\ todo' \in [Caller -> SUBSET Unit]
         /\ busy' \in [Caller -> Unit \cup {None}]
         /\ attempts' \in [Caller -> 0..MaxAttempts]
         /\ UNCHANGED <<call, pc, seen, waitVars, opFailed, warned>>
<1>1. CASE Retry(c)
  <2>1. attempts[c] + 1 \in 0..MaxAttempts
    BY TunnelBounds DEF Trying, TypeOK
  <2> QED BY <1>1, <2>1 DEF Retry, TypeOK, loop
<1>2. CASE Visited(c) /\ UNCHANGED <<call, pc, seen, attempts, waitVars, opFailed, warned>>
  BY <1>2 DEF Visited, TypeOK
<1> QED BY <1>1, <1>2 DEF Fails

\* The registry and the callers begin with their types.
LEMMA TypeInit == Init => TypeOK
<1> SUFFICES ASSUME Init PROVE TypeOK
  OBVIOUS
<1>1. \A c \in Caller : Len(Program[c]) \in Nat /\ 1 \in 1..Len(Program[c])
  <2> SUFFICES ASSUME NEW c \in Caller PROVE Len(Program[c]) \in Nat /\ 1 \in 1..Len(Program[c])
    OBVIOUS
  <2>1. Program[c] \in Seq(Call) /\ Program[c] # <<>>
    BY TunnelPrograms
  <2> QED BY <2>1, EmptySeq
<1>2. 0 \in 0..MaxAttempts /\ 0 \in 0..BlockAttempts /\ 0 \in 0..MaxLost
  BY TunnelBounds
<1> QED BY <1>1, <1>2 DEF Init, TypeOK, State, JobState

\* Every step keeps the types.
LEMMA TypeStep == ASSUME TypeOK, Fitting, [Next]_vars PROVE TypeOK'
<1>1. ASSUME NEW c \in Caller, Begin(c) PROVE TypeOK'
  <2>1. Op(c) \in {"stop", "destroy", "start"} /\ Units(c) \subseteq Unit
    BY CallIsTyped
  <2>2. PICK to \in {"find", "destroy", "create"} : pc' = [pc EXCEPT ![c] = to]
    BY <1>1, <2>1 DEF Begin, Goto
  <2>3. todo' \in [Caller -> SUBSET Unit]
    BY <1>1, <2>1 DEF Begin, TypeOK
  <2>4. pc' \in [Caller -> {"begin", "find", "stop", "destroy", "create", "start", "waitStop",
                           "waitCreate", "waitStart", "done", "failed"}]
    BY <2>2 DEF TypeOK
  <2> QED BY <1>1, <2>3, <2>4 DEF Begin, TypeOK, registry, waitVars, history
<1>2. ASSUME NEW c \in Caller, FindUnits(c) PROVE TypeOK'
  <2>1. Units(c) \subseteq Unit
    BY CallIsTyped
  <2>2. seen' \in [Caller -> [Unit -> [desired : State, current : State]]]
    <3> DEFINE now == [u \in Unit |-> [desired |-> desired[u], current |-> current[u]]]
    <3>1. now \in [Unit -> [desired : State, current : State]]
      BY DEF TypeOK
    <3>2. seen' = [seen EXCEPT ![c] = now]
      BY <1>2 DEF FindUnits
    <3> HIDE DEF now
    <3> QED BY <3>1, <3>2 DEF TypeOK
  <2> QED BY <1>2, <2>1, <2>2 DEF FindUnits, Goto, TypeOK, registry, waitVars, history
<1>3. ASSUME NEW c \in Caller, ReadFails(c) PROVE TypeOK'
  <2>1. Return(c, FALSE)
    BY <1>3 DEF ReadFails
  <2>2. lost' \in 0..MaxLost
    BY <1>3, TunnelBounds DEF ReadFails, Lose, TypeOK
  <2> QED BY <1>3, <2>1, <2>2, ReturnIsTyped DEF ReadFails, TypeOK, registry
<1>4. ASSUME NEW c \in Caller, ExistsFails(c) PROVE TypeOK'
  <2>1. Return(c, FALSE)
    BY <1>4 DEF ExistsFails
  <2>2. lost' \in 0..MaxLost
    BY <1>4, TunnelBounds DEF ExistsFails, Lose, TypeOK
  <2> QED BY <1>4, <2>1, <2>2, ReturnIsTyped DEF ExistsFails, TypeOK, registry
<1>5. ASSUME NEW c \in Caller, NEW u \in Unit, Skip(c, u) PROVE TypeOK'
  BY <1>5 DEF Skip, TypeOK, registry, waitVars, history
<1>6. ASSUME NEW c \in Caller, NEW u \in Unit, Refuse(c, u) PROVE TypeOK'
  <2>1. Return(c, FALSE)
    BY <1>6 DEF Refuse
  <2> QED BY <1>6, <2>1, ReturnIsTyped DEF Refuse, TypeOK, registry
<1>7. ASSUME NEW c \in Caller, NEW u \in Unit, Request(c, u) PROVE TypeOK'
  <2>1. 0 \in 0..MaxAttempts
    BY TunnelBounds
  <2> QED BY <1>7, <2>1 DEF Request, TypeOK, registry, waitVars, history
<1>8. ASSUME NEW c \in Caller, Deliver(c) PROVE TypeOK'
  <2>1. busy[c] \in Unit /\ "inactive" \in JobState /\ 0 \in 0..BlockAttempts
    BY <1>8, TunnelBounds DEF Deliver, Trying, TypeOK, JobState
  <2>2. /\ desired' \in [Unit -> State] /\ current' \in [Unit -> State]
        /\ \A u \in Unit : current'[u] = "absent" <=> desired'[u] = "absent"
    BY <1>8, EffectIsTyped DEF Deliver, Trying
  <2>3. await' \in [Caller -> SUBSET Unit]
    BY <1>8, <2>1 DEF Deliver, TypeOK
  <2>4. checking' \in [Caller -> SUBSET (Unit \X JobState)]
    BY <1>8, <2>1 DEF Deliver, TypeOK
  <2>5. polls' \in [Caller -> [Unit -> 0..BlockAttempts]]
    BY <1>8, <2>1 DEF Deliver, TypeOK
  <2>6. todo' \in [Caller -> SUBSET Unit] /\ busy' \in [Caller -> Unit \cup {None}]
    BY <1>8 DEF Deliver, Visited, TypeOK
  <2> QED BY <1>8, <2>2, <2>3, <2>4, <2>5, <2>6 DEF Deliver, TypeOK, history
<1>9. ASSUME NEW c \in Caller, RequestLost(c) PROVE TypeOK'
  <2>1. lost' \in 0..MaxLost
    BY <1>9, TunnelBounds DEF RequestLost, Lose, TypeOK
  <2>2. missed' \in [Caller -> SUBSET Unit]
    <3>1. busy[c] \in Unit
      BY <1>9 DEF RequestLost, Trying, TypeOK
    <3> QED BY <1>9, <3>1 DEF RequestLost, TypeOK
  <2> QED BY <1>9, <2>1, <2>2, FailsIsTyped DEF RequestLost, TypeOK, registry, waitVars
<1>10. ASSUME NEW c \in Caller, AnswerLost(c) PROVE TypeOK'
  <2>1. lost' \in 0..MaxLost
    BY <1>10, TunnelBounds DEF AnswerLost, Lose, TypeOK
  <2>2. /\ desired' \in [Unit -> State] /\ current' \in [Unit -> State]
        /\ \A u \in Unit : current'[u] = "absent" <=> desired'[u] = "absent"
    BY <1>10, EffectIsTyped DEF AnswerLost, Trying
  <2> QED BY <1>10, <2>1, <2>2, FailsIsTyped DEF AnswerLost, TypeOK, waitVars
<1>11. ASSUME NEW c \in Caller, Conflict(c) PROVE TypeOK'
  BY <1>11, FailsIsTyped DEF Conflict, TypeOK, registry, waitVars
<1>12. ASSUME NEW c \in Caller, GiveUp(c) PROVE TypeOK'
  <2>1. Return(c, FALSE)
    BY <1>12 DEF GiveUp
  <2> QED BY <1>12, <2>1, ReturnIsTyped DEF GiveUp, TypeOK, registry
<1>13. ASSUME NEW c \in Caller, EndLoop(c) PROVE TypeOK'
  <2>1. PICK to \in {"waitStop", "waitCreate", "waitStart"} : pc' = [pc EXCEPT ![c] = to]
    BY <1>13 DEF EndLoop, Goto
  <2>2. PICK js \in SUBSET JobState :
          checking' = [checking EXCEPT ![c] = checking[c] \cup (await[c] \X js)]
    <3>1. CASE pc[c] = "stop"
      BY <1>13, <3>1 DEF EndLoop, JobState
    <3>2. CASE pc[c] = "create"
      BY <1>13, <3>2 DEF EndLoop, JobState
    <3>3. CASE pc[c] = "start"
      BY <1>13, <3>3 DEF EndLoop, JobState
    <3> QED BY <1>13, <3>1, <3>2, <3>3 DEF EndLoop
  <2>3. checking' \in [Caller -> SUBSET (Unit \X JobState)]
    BY <2>2 DEF TypeOK
  <2> QED BY <1>13, <2>1, <2>3 DEF EndLoop, TypeOK, registry, history
<1>14. ASSUME NEW c \in Caller, EndDestroy(c) PROVE TypeOK'
  <2>1. Return(c, TRUE)
    BY <1>14 DEF EndDestroy
  <2> QED BY <1>14, <2>1, ReturnIsTyped DEF EndDestroy, TypeOK, registry
<1>15. ASSUME NEW c \in Caller, Join(c) PROVE TypeOK'
  <2>1. CASE Return(c, ~opFailed[c])
    <3>1. (~opFailed[c]) \in BOOLEAN
      OBVIOUS
    <3> QED BY <1>15, <2>1, <3>1, ReturnIsTyped DEF Join, TypeOK, registry
  <2>2. CASE /\ Goto(c, "start") /\ todo' = [todo EXCEPT ![c] = Units(c)]
             /\ UNCHANGED <<call, busy, await, opFailed, warned>>
    <3>1. Units(c) \subseteq Unit
      BY CallIsTyped
    <3> QED BY <1>15, <2>2, <3>1 DEF Join, Goto, TypeOK, registry
  <2> QED BY <1>15, <2>1, <2>2 DEF Join
<1>16. ASSUME NEW c \in Caller, NEW u \in Unit, NEW js \in JobState, Checking(c, u, js)
       PROVE TypeOK'
  <2>1. CASE Check(c, u, js)
    BY <2>1 DEF Check, TypeOK, registry, loop, history
  <2>2. CASE CheckAgain(c, u, js)
    <3>1. lost' \in 0..MaxLost
      BY <2>2, TunnelBounds DEF CheckAgain, Lose, TypeOK
    <3>2. polls[c][u] + 1 \in 0..BlockAttempts
      BY <2>2, TunnelBounds DEF CheckAgain, TypeOK
    <3> QED BY <2>2, <3>1, <3>2 DEF CheckAgain, TypeOK, registry, loop, history
  <2>3. CASE CheckTimesOut(c, u, js)
    BY <2>3 DEF CheckTimesOut, TypeOK, registry, loop, history
  <2> QED BY <1>16, <2>1, <2>2, <2>3 DEF Checking
<1>17. ASSUME NEW u \in Unit, Reconcile(u) PROVE TypeOK'
  BY <1>17 DEF Reconcile, TypeOK, loop, waitVars, history
<1>18. ASSUME UNCHANGED vars PROVE TypeOK'
  BY <1>18 DEF TypeOK, vars, registry, loop, waitVars, history
<1> QED BY <1>1, <1>2, <1>3, <1>4, <1>5, <1>6, <1>7, <1>8, <1>9, <1>10, <1>11, <1>12, <1>13,
           <1>14, <1>15, <1>16, <1>17, <1>18 DEF Next, Working, Losing, Terminated

-----------------------------------------------------------------------------
(* Orderly: what a step leaves alone.                                      *)

Local(c) == <<call[c], pc[c], todo[c], busy[c], attempts[c], missed[c]>>
Steps(c) == Working(c) \/ Losing(c)

\* A caller changes nothing of another.
LEMMA OthersKeepTheirs ==
  ASSUME TypeOK, NEW c \in Caller, NEW d \in Caller \ {c}, Steps(c)
  PROVE  UNCHANGED Local(d)
<1> USE DEF TypeOK, Local
<1>1. ASSUME NEW ok \in BOOLEAN, Return(c, ok), UNCHANGED <<attempts, missed>>
      PROVE  UNCHANGED Local(d)
  <2>1. /\ call'[d] = call[d] /\ pc'[d] = pc[d]
        /\ todo'[d] = todo[d] /\ busy'[d] = busy[d]
    BY <1>1, ReturnIsTyped
  <2> QED BY <1>1, <2>1
<1>2. ASSUME Begin(c) \/ FindUnits(c) \/ EndLoop(c) PROVE UNCHANGED Local(d)
  BY <1>2 DEF Begin, FindUnits, EndLoop, Goto, loop, history
<1>3. ASSUME NEW u \in Unit, Skip(c, u) \/ Request(c, u) PROVE UNCHANGED Local(d)
  BY <1>3 DEF Skip, Request, history
<1>4. ASSUME NEW u \in Unit, Refuse(c, u) PROVE UNCHANGED Local(d)
  BY <1>1, <1>4 DEF Refuse
<1>5. ASSUME EndDestroy(c) PROVE UNCHANGED Local(d)
  BY <1>1, <1>5 DEF EndDestroy
<1>6. ASSUME GiveUp(c) \/ ReadFails(c) \/ ExistsFails(c) PROVE UNCHANGED Local(d)
  BY <1>1, <1>6 DEF GiveUp, ReadFails, ExistsFails
<1>7. ASSUME Join(c) PROVE UNCHANGED Local(d)
  <2>1. CASE Return(c, ~opFailed[c])
    <3>1. (~opFailed[c]) \in BOOLEAN
      OBVIOUS
    <3>2. UNCHANGED <<attempts, missed>>
      BY <1>7 DEF Join
    <3> QED BY <1>1, <2>1, <3>1, <3>2
  <2>2. CASE Goto(c, "start") /\ todo' = [todo EXCEPT ![c] = Units(c)] /\ UNCHANGED <<call, busy>>
    BY <1>7, <2>2 DEF Join, Goto
  <2> QED BY <1>7, <2>1, <2>2 DEF Join
<1>8. ASSUME Deliver(c) PROVE UNCHANGED Local(d)
  BY <1>8 DEF Deliver, Visited, history
<1>9. ASSUME RequestLost(c) \/ AnswerLost(c) \/ Conflict(c) PROVE UNCHANGED Local(d)
  BY <1>9 DEF RequestLost, AnswerLost, Conflict, Fails, Retry, Visited
<1> QED BY <1>2, <1>3, <1>4, <1>5, <1>6, <1>7, <1>8, <1>9 DEF Steps, Working, Losing

\* A caller creates, starts and destroys only the unit it has a request for.
LEMMA RequestsChangeOneUnit ==
  ASSUME TypeOK, Fitting, NEW c \in Caller, Steps(c), NEW u \in Unit, desired'[u] # desired[u]
  PROVE  /\ u = busy[c] /\ u \in todo[c] /\ u \in Units(c)
         /\ desired'[u] = Target(c) /\ ~Conflicts(c, u)
         /\ Deliver(c) \/ AnswerLost(c)
<1>1. Deliver(c) \/ AnswerLost(c)
  BY DEF Steps, Working, Losing, Begin, FindUnits, EndLoop, EndDestroy, Join, Skip, Refuse, Request,
         Conflict, GiveUp, ReadFails, ExistsFails, RequestLost, registry
<1>2. Effect(c, busy[c]) /\ ~Conflicts(c, busy[c]) /\ busy[c] # None
  BY <1>1 DEF Deliver, AnswerLost, Trying
<1>3. u = busy[c] /\ desired'[u] = Target(c)
  BY <1>2 DEF Effect, TypeOK
<1>4. u \in todo[c] /\ u \in Units(c)
  BY <1>2, <1>3 DEF Fitting, WorkFits
<1> QED BY <1>1, <1>2, <1>3, <1>4

\* Only Start brings a unit into being, and only Destroy ends it.
LEMMA WhoCreatesAndDestroys ==
  ASSUME TypeOK, Fitting, NEW c \in Caller, Steps(c), NEW u \in Unit
  PROVE  /\ ~Exists(u) /\ Exists(u)' => pc[c] = "create" /\ Op(c) = "start" /\ u \in Units(c)
         /\ Exists(u) /\ ~Exists(u)' => pc[c] = "destroy" /\ u \in Units(c)
<1> SUFFICES ASSUME desired'[u] # desired[u]
             PROVE  /\ ~Exists(u) /\ Exists(u)' => pc[c] = "create" /\ Op(c) = "start" /\ u \in Units(c)
                    /\ Exists(u) /\ ~Exists(u)' => pc[c] = "destroy" /\ u \in Units(c)
  BY DEF Exists
<1>1. u = busy[c] /\ u \in Units(c) /\ desired'[u] = Target(c) /\ ~Conflicts(c, u)
  BY RequestsChangeOneUnit
<1>2. pc[c] \in {"stop", "destroy", "create", "start"}
  BY <1>1, TunnelUnits DEF Fitting, WorkFits
<1>3. pc[c] = "create" => Op(c) = "start"
  BY DEF Fitting, WorkFits
<1>4. CASE pc[c] = "create"
  BY <1>1, <1>3, <1>4 DEF Exists, Target
<1>5. CASE pc[c] = "destroy"
  <2>1. Target(c) = "absent"
    BY <1>5 DEF Target
  <2> QED BY <1>1, <1>5, <2>1 DEF Exists
<1>6. CASE pc[c] = "stop"
  <2>1. Target(c) = "loaded"
    BY <1>6 DEF Target
  <2> QED BY <1>1, <1>6, <2>1 DEF Exists, Conflicts
<1>7. CASE pc[c] = "start"
  <2>1. Target(c) = "launched"
    BY <1>7 DEF Target
  <2> QED BY <1>1, <1>7, <2>1 DEF Exists, Conflicts
<1> QED BY <1>2, <1>4, <1>5, <1>6, <1>7

\* Goroutines that wait and agents touch nothing of a caller, and no target.
LEMMA TheRestIsQuiet ==
  ASSUME [Next]_vars, \A c \in Caller : ~Steps(c)
  PROVE  UNCHANGED <<desired, call, pc, todo, busy, attempts, await, missed>>
<1>1. ASSUME NEW c \in Caller, NEW u \in Unit, NEW js \in JobState, Checking(c, u, js)
      PROVE UNCHANGED <<desired, call, pc, todo, busy, attempts, await, missed>>
  BY <1>1 DEF Checking, Check, CheckAgain, CheckTimesOut, registry, loop, history
<1>2. ASSUME NEW u \in Unit, Reconcile(u)
      PROVE UNCHANGED <<desired, call, pc, todo, busy, attempts, await, missed>>
  BY <1>2 DEF Reconcile, loop, waitVars, history
<1>3. ASSUME UNCHANGED vars
      PROVE UNCHANGED <<desired, call, pc, todo, busy, attempts, await, missed>>
  BY <1>3 DEF vars, registry, loop, waitVars, history
<1> QED BY <1>1, <1>2, <1>3 DEF Next, Terminated, Steps

\* Messages are lost and never found again.
LEMMA LossesGrow ==
  ASSUME TypeOK, [Next]_vars
  PROVE  lost \in Nat /\ lost' \in Nat /\ lost <= lost'
<1>1. UNCHANGED lost \/ Lose(1) \/ Lose(MaxAttempts)
  <2>1. ASSUME NEW c \in Caller, Working(c) PROVE UNCHANGED lost
    BY <2>1 DEF Working, Begin, FindUnits, EndLoop, EndDestroy, Join, Skip, Refuse, Request, Deliver,
                Conflict, GiveUp
  <2>2. ASSUME NEW c \in Caller, Losing(c) PROVE Lose(1) \/ Lose(MaxAttempts)
    BY <2>2 DEF Losing, ReadFails, ExistsFails, RequestLost, AnswerLost
  <2>3. ASSUME NEW c \in Caller, NEW u \in Unit, NEW js \in JobState, Checking(c, u, js)
        PROVE UNCHANGED lost \/ Lose(MaxAttempts)
    BY <2>3 DEF Checking, Check, CheckAgain, CheckTimesOut
  <2>4. ASSUME NEW u \in Unit, Reconcile(u) PROVE UNCHANGED lost
    BY <2>4 DEF Reconcile
  <2> QED BY <2>1, <2>2, <2>3, <2>4 DEF Next, Terminated, vars
<1> QED BY <1>1, TunnelBounds DEF TypeOK, Lose

-----------------------------------------------------------------------------
(* Orderly: what a caller's own step does.                                 *)

\* Between calls, and after the last, nothing is under way.
LEMMA ReturnFits ==
  ASSUME TypeOK, NEW c \in Caller, NEW ok \in BOOLEAN, Return(c, ok)
  PROVE  WorkFits(c)' /\ OwnUnitsExist(c)' /\ VisitedAreGone(c)'
<1>1. pc'[c] \in {"begin", "done", "failed"} /\ todo'[c] = {} /\ busy'[c] = None
  BY ReturnIsTyped
<1> QED BY <1>1 DEF WorkFits, OwnUnitsExist, VisitedAreGone

\* The steps that end a call.
LEMMA JoinReturns ==
  ASSUME NEW c \in Caller, Join(c)
  PROVE  \/ \E ok \in BOOLEAN : Return(c, ok)
         \/ /\ pc[c] = "waitCreate"
            /\ Goto(c, "start") /\ todo' = [todo EXCEPT ![c] = Units(c)]
            /\ UNCHANGED <<call, busy, attempts, missed, registry, lost>>
<1>1. CASE Return(c, ~opFailed[c])
  <2>1. (~opFailed[c]) \in BOOLEAN
    OBVIOUS
  <2> QED BY <1>1, <2>1
<1>2. CASE ~Return(c, ~opFailed[c])
  BY <1>2 DEF Join
<1> QED BY <1>1, <1>2

\* A step inside a loop keeps the caller in it, with no more units than before.
LEMMA RequestStays ==
  ASSUME TypeOK, NEW c \in Caller,
         Deliver(c) \/ RequestLost(c) \/ AnswerLost(c) \/ Conflict(c)
  PROVE  /\ call' = call /\ pc' = pc
         /\ busy[c] # None
         /\ busy'[c] \in {None, busy[c]}
         /\ busy'[c] # None => todo'[c] = todo[c]
         /\ todo'[c] \in {todo[c], todo[c] \ {busy[c]}}
<1>1. busy[c] # None
  BY DEF Deliver, RequestLost, AnswerLost, Conflict, Trying
<1>2. \/ Visited(c) /\ UNCHANGED <<call, pc>>
      \/ Retry(c)
  BY DEF Deliver, RequestLost, AnswerLost, Conflict, Fails
<1> QED BY <1>1, <1>2 DEF Visited, Retry, TypeOK

\* A step of a caller keeps it within the call it makes.
LEMMA OwnStepFits == ASSUME TypeOK, Fitting, NEW c \in Caller, Steps(c) PROVE WorkFits(c)'
<1> WorkFits(c)
  BY DEF Fitting
<1>1. ASSUME NEW ok \in BOOLEAN, Return(c, ok) PROVE WorkFits(c)'
  BY <1>1, ReturnFits
<1>2. ASSUME Begin(c) PROVE WorkFits(c)'
  <2>1. /\ Op(c) \in {"stop", "destroy", "start"}
        /\ pc[c] = "begin" /\ call' = call /\ busy' = busy
        /\ todo'[c] \in {{}, Units(c)}
    BY <1>2, CallIsTyped DEF Begin, TypeOK, Goto
  <2>2. /\ Op(c) = "stop" => pc'[c] = "find"
        /\ Op(c) = "destroy" => pc'[c] = "destroy"
        /\ Op(c) = "start" => pc'[c] = "create"
    BY <1>2, <2>1 DEF Begin, Goto, TypeOK
  <2> QED BY <2>1, <2>2 DEF WorkFits, Op, Units
<1>3. ASSUME FindUnits(c) PROVE WorkFits(c)'
  BY <1>3 DEF FindUnits, Goto, TypeOK, WorkFits, Op, Units
<1>4. ASSUME EndLoop(c) PROVE WorkFits(c)'
  BY <1>4 DEF EndLoop, Goto, TypeOK, WorkFits, Op, Units
<1>5. ASSUME Join(c) PROVE WorkFits(c)'
  <2>1. CASE /\ pc[c] = "waitCreate"
             /\ Goto(c, "start") /\ todo' = [todo EXCEPT ![c] = Units(c)]
             /\ UNCHANGED <<call, busy, attempts, missed, registry, lost>>
    BY <2>1 DEF Goto, TypeOK, WorkFits, Op, Units
  <2> QED BY <1>1, <1>5, <2>1, JoinReturns
<1>6. ASSUME NEW u \in Unit, Skip(c, u) PROVE WorkFits(c)'
  BY <1>6 DEF Skip, TypeOK, WorkFits, Op, Units
<1>7. ASSUME NEW u \in Unit, Request(c, u) PROVE WorkFits(c)'
  BY <1>7 DEF Request, TypeOK, WorkFits, Op, Units
<1>8. ASSUME Deliver(c) \/ RequestLost(c) \/ AnswerLost(c) \/ Conflict(c) PROVE WorkFits(c)'
  BY <1>8, RequestStays DEF WorkFits, Op, Units
<1>9. ASSUME NEW u \in Unit, Refuse(c, u) PROVE WorkFits(c)'
  BY <1>1, <1>9 DEF Refuse
<1>10. ASSUME EndDestroy(c) PROVE WorkFits(c)'
  BY <1>1, <1>10 DEF EndDestroy
<1>11. ASSUME GiveUp(c) \/ ReadFails(c) \/ ExistsFails(c) PROVE WorkFits(c)'
  BY <1>1, <1>11 DEF GiveUp, ReadFails, ExistsFails
<1> QED BY <1>2, <1>3, <1>4, <1>5, <1>6, <1>7, <1>8, <1>9, <1>10, <1>11 DEF Steps, Working, Losing

\* What is visited in Destroy is gone.
LEMMA OwnStepDestroys ==
  ASSUME TypeOK, Fitting, NEW c \in Caller, Steps(c), VisitedAreGone(c)
  PROVE  VisitedAreGone(c)'
<1> WorkFits(c)
  BY DEF Fitting
<1>1. ASSUME NEW ok \in BOOLEAN, Return(c, ok) PROVE VisitedAreGone(c)'
  BY <1>1, ReturnFits
<1>2. ASSUME Begin(c) PROVE VisitedAreGone(c)'
  <2>1. pc'[c] = "destroy" => todo'[c] = Units(c)'
    BY <1>2, CallIsTyped DEF Begin, Goto, TypeOK, Op, Units
  <2> QED BY <2>1 DEF VisitedAreGone
<1>3. ASSUME FindUnits(c) \/ EndLoop(c) PROVE VisitedAreGone(c)'
  BY <1>3 DEF FindUnits, EndLoop, Goto, TypeOK, VisitedAreGone
<1>4. ASSUME Join(c) PROVE VisitedAreGone(c)'
  <2>1. CASE Goto(c, "start")
    BY <2>1 DEF Goto, TypeOK, VisitedAreGone
  <2> QED BY <1>1, <1>4, <2>1, JoinReturns
<1>5. ASSUME NEW u \in Unit, Skip(c, u) \/ Request(c, u) PROVE VisitedAreGone(c)'
  <2>1. CASE pc[c] = "destroy"
    BY <1>5, <2>1 DEF Skip, Request, VisitedAreGone, NobodyStarts, Exists, Units, registry, history
  <2>2. CASE pc[c] # "destroy"
    BY <1>5, <2>2 DEF Skip, Request, VisitedAreGone
  <2> QED BY <2>1, <2>2
<1>6. ASSUME Deliver(c) \/ RequestLost(c) \/ AnswerLost(c) \/ Conflict(c)
      PROVE  VisitedAreGone(c)'
  <2> SUFFICES ASSUME pc[c] = "destroy", NEW u \in Units(c) \ todo'[c], NobodyStarts(c, u)
               PROVE  ~Exists(u)' \/ u \in missed'[c]
    BY <1>6, RequestStays DEF VisitedAreGone, NobodyStarts, Units
  <2>1. u \in Unit /\ busy[c] \in Unit /\ Target(c) = "absent" /\ busy[c] \in todo[c]
    BY <1>6, CallIsTyped, RequestStays DEF TypeOK, Target, WorkFits
  <2>2. missed[c] \subseteq missed'[c] /\ (RequestLost(c) => busy[c] \in missed'[c])
    BY <1>6, <2>1 DEF Deliver, RequestLost, AnswerLost, Conflict, history, TypeOK
  <2>3. CASE u = busy[c]
    <3>1. ~Conflict(c)
      BY DEF Conflict, Conflicts
    <3>2. CASE Deliver(c) \/ AnswerLost(c)
      BY <2>1, <2>3, <3>2 DEF Deliver, AnswerLost, Effect, Exists, TypeOK
    <3> QED BY <1>6, <2>2, <2>3, <3>1, <3>2
  <2>4. CASE u # busy[c]
    <3>1. u \notin todo[c]
      BY <1>6, <2>4, RequestStays
    <3>2. ~Exists(u) \/ u \in missed[c]
      BY <3>1 DEF VisitedAreGone
    <3>3. desired'[u] = desired[u]
      BY <2>1, <2>4, RequestsChangeOneUnit
    <3> QED BY <2>2, <3>2, <3>3 DEF Exists
  <2> QED BY <2>3, <2>4
<1>7. ASSUME NEW u \in Unit, Refuse(c, u) PROVE VisitedAreGone(c)'
  BY <1>1, <1>7 DEF Refuse
<1>8. ASSUME EndDestroy(c) PROVE VisitedAreGone(c)'
  BY <1>1, <1>8 DEF EndDestroy
<1>9. ASSUME GiveUp(c) \/ ReadFails(c) \/ ExistsFails(c) PROVE VisitedAreGone(c)'
  BY <1>1, <1>9 DEF GiveUp, ReadFails, ExistsFails
<1> QED BY <1>2, <1>3, <1>4, <1>5, <1>6, <1>7, <1>8, <1>9 DEF Steps, Working, Losing

\* What it found or made is there, and each attempt has cost a message.
LEMMA OwnStepKeepsUnits ==
  ASSUME TypeOK, Fitting, [Next]_vars, NEW c \in Caller, Steps(c), OwnUnitsExist(c)
  PROVE  OwnUnitsExist(c)'
<1> WorkFits(c)
  BY DEF Fitting
<1>1. ASSUME NEW ok \in BOOLEAN, Return(c, ok) PROVE OwnUnitsExist(c)'
  BY <1>1, ReturnFits
<1>2. ASSUME Begin(c) PROVE OwnUnitsExist(c)'
  <2>1. /\ Op(c) \in {"stop", "destroy", "start"} /\ call' = call
        /\ Op(c) = "start" => todo'[c] = Units(c)
    BY <1>2, CallIsTyped DEF Begin, TypeOK
  <2>2. pc'[c] \in {"find", "destroy", "create"} /\ (pc'[c] = "create" => Op(c) = "start")
    BY <1>2, <2>1 DEF Begin, Goto, TypeOK
  <2> QED BY <2>1, <2>2 DEF OwnUnitsExist, Units
<1>3. ASSUME FindUnits(c) PROVE OwnUnitsExist(c)'
  <2>1. /\ pc'[c] = "stop" /\ busy'[c] = None
        /\ \A u \in todo'[c] : Exists(u)'
    BY <1>3 DEF FindUnits, Goto, TypeOK, WorkFits, Exists, registry
  <2> QED BY <2>1 DEF OwnUnitsExist
<1>4. ASSUME EndLoop(c) PROVE OwnUnitsExist(c)'
  <2>1. pc'[c] \in {"waitStop", "waitCreate", "waitStart"}
        /\ (pc'[c] = "waitCreate" => pc[c] = "create")
    BY <1>4 DEF EndLoop, Goto, TypeOK
  <2>2. todo[c] = {} /\ call' = call /\ desired' = desired
    BY <1>4 DEF EndLoop, registry
  <2> QED BY <2>1, <2>2 DEF OwnUnitsExist, Exists, Units, Own, AllUnits
<1>5. ASSUME Join(c) PROVE OwnUnitsExist(c)'
  <2>1. CASE /\ pc[c] = "waitCreate"
             /\ Goto(c, "start") /\ todo' = [todo EXCEPT ![c] = Units(c)]
             /\ UNCHANGED <<call, busy, attempts, missed, registry, lost>>
    <3>1. pc'[c] = "start" /\ busy'[c] = None /\ call' = call /\ desired' = desired
      BY <2>1 DEF Goto, TypeOK, WorkFits, registry
    <3> QED BY <2>1, <3>1 DEF OwnUnitsExist, Exists, Units, Own, AllUnits
  <2> QED BY <1>1, <1>5, <2>1, JoinReturns
<1>6. ASSUME NEW u \in Unit, Skip(c, u) PROVE OwnUnitsExist(c)'
  <2>1. /\ call' = call /\ pc' = pc /\ desired' = desired /\ busy'[c] = None
        /\ todo'[c] = todo[c] \ {u}
        /\ pc[c] = "create" => Exists(u)
        /\ pc[c] \in {"stop", "create", "start"}
    BY <1>6 DEF Skip, registry, TypeOK
  <2> QED BY <2>1 DEF OwnUnitsExist, Exists, Units, Own, AllUnits
<1>7. ASSUME NEW u \in Unit, Request(c, u) PROVE OwnUnitsExist(c)'
  <2>1. /\ call' = call /\ pc' = pc /\ desired' = desired /\ todo' = todo /\ lost' = lost
        /\ attempts'[c] = 0
    BY <1>7 DEF Request, registry, TypeOK
  <2>2. 0 <= lost
    BY LossesGrow
  <2> QED BY <2>1, <2>2 DEF OwnUnitsExist, Exists, Units, Own, AllUnits
<1>8. ASSUME Deliver(c) \/ RequestLost(c) \/ AnswerLost(c) \/ Conflict(c)
      PROVE  OwnUnitsExist(c)'
  <2> SUFFICES ASSUME Own(c) PROVE OwnUnitsExist(c)'
    BY DEF OwnUnitsExist, Own, AllUnits
  <2> USE DEF OwnUnitsExist
  <2>1. /\ call' = call /\ pc' = pc /\ busy[c] # None /\ busy[c] \in todo[c]
        /\ busy'[c] \in {None, busy[c]} /\ (busy'[c] # None => todo'[c] = todo[c])
        /\ todo'[c] \in {todo[c], todo[c] \ {busy[c]}}
        /\ busy[c] \in Unit /\ Units(c) \subseteq Unit
    BY <1>8, RequestStays, CallIsTyped DEF WorkFits, TypeOK
  <2>2. pc[c] # "destroy" => \A v \in Units(c) : Exists(v) => Exists(v)'
    BY <2>1, WhoCreatesAndDestroys
  <2>3. pc[c] = "create" /\ todo'[c] # todo[c] => desired'[busy[c]] # "absent"
    <3>1. CASE Deliver(c) /\ pc[c] = "create"
      <4>1. Target(c) = "inactive"
        BY <3>1 DEF Target
      <4> QED BY <2>1, <3>1, <4>1 DEF Deliver, Effect, Exists, TypeOK
    <3>2. CASE ~Deliver(c) /\ pc[c] = "create"
      BY <1>8, <3>2 DEF RequestLost, AnswerLost, Conflict, Fails, Retry
    <3> QED BY <3>1, <3>2
  <2>4. pc[c] \in {"stop", "start"} /\ busy'[c] # None => attempts'[c] <= lost'
    <3> SUFFICES ASSUME pc[c] \in {"stop", "start"}, busy'[c] # None PROVE attempts'[c] <= lost'
      OBVIOUS
    <3>1. Exists(busy[c])
      BY <2>1 DEF WorkFits
    <3>2. ~Deliver(c)
      BY DEF Deliver, Visited, TypeOK
    <3>3. ~Conflict(c)
      BY <3>1 DEF Conflict, Conflicts
    <3>4. attempts'[c] = attempts[c] + 1 /\ lost' = lost + 1
      BY <1>8, <3>2, <3>3 DEF RequestLost, AnswerLost, Lose, Fails, Retry, TypeOK
    <3>5. attempts[c] \in Nat /\ lost \in Nat /\ attempts[c] <= lost
      BY <2>1, LossesGrow, TunnelBounds DEF TypeOK
    <3> QED BY <3>4, <3>5
  <2>5. pc[c] = "stop" => \A u \in todo'[c] : Exists(u)'
    BY <2>1, <2>2 DEF WorkFits
  <2>6. pc[c] = "create" => \A u \in Units(c) \ todo'[c] : Exists(u)'
    <3> SUFFICES ASSUME pc[c] = "create", NEW u \in Units(c) \ todo'[c] PROVE Exists(u)'
      OBVIOUS
    <3>1. CASE u \in todo[c]
      BY <2>1, <2>3, <3>1 DEF Exists
    <3>2. CASE u \notin todo[c]
      BY <2>2, <3>2
    <3> QED BY <3>1, <3>2
  <2>7. pc[c] = "start" => \A u \in Units(c) : Exists(u)'
    BY <2>2
  <2>8. pc[c] # "waitCreate" /\ Units(c)' = Units(c)
    BY <2>1 DEF WorkFits, Units
  <2> QED BY <2>1, <2>4, <2>5, <2>6, <2>7, <2>8
<1>9. ASSUME NEW u \in Unit, Refuse(c, u) PROVE OwnUnitsExist(c)'
  BY <1>1, <1>9 DEF Refuse
<1>10. ASSUME EndDestroy(c) PROVE OwnUnitsExist(c)'
  BY <1>1, <1>10 DEF EndDestroy
<1>11. ASSUME GiveUp(c) \/ ReadFails(c) \/ ExistsFails(c) PROVE OwnUnitsExist(c)'
  BY <1>1, <1>11 DEF GiveUp, ReadFails, ExistsFails
<1> QED BY <1>2, <1>3, <1>4, <1>5, <1>6, <1>7, <1>8, <1>9, <1>10, <1>11 DEF Steps, Working, Losing

-----------------------------------------------------------------------------
(* StartedUnitsRun: what Start has asked for.                              *)

Waited(c) == <<await[c], checking[c], opFailed[c]>>

\* Current states, too, change only where a request is made.
LEMMA RequestsMoveOneUnit ==
  ASSUME TypeOK, Fitting, NEW c \in Caller, Steps(c), NEW u \in Unit, current'[u] # current[u]
  PROVE  u \in Units(c)
<1>1. Deliver(c) \/ AnswerLost(c)
  BY DEF Steps, Working, Losing, Begin, FindUnits, EndLoop, EndDestroy, Join, Skip, Refuse, Request,
         Conflict, GiveUp, ReadFails, ExistsFails, RequestLost, registry
<1>2. Effect(c, busy[c]) /\ busy[c] # None
  BY <1>1 DEF Deliver, AnswerLost, Trying
<1>3. u = busy[c]
  BY <1>2 DEF Effect, TypeOK
<1> QED BY <1>2, <1>3 DEF Fitting, WorkFits

\* A caller leaves the goroutines of another alone.
LEMMA OthersWaitOn ==
  ASSUME TypeOK, NEW c \in Caller, NEW d \in Caller \ {c}, Steps(c)
  PROVE  UNCHANGED Waited(d)
<1> USE DEF TypeOK, Waited
<1>1. ASSUME NEW ok \in BOOLEAN, Return(c, ok), UNCHANGED checking PROVE UNCHANGED Waited(d)
  BY <1>1 DEF Return
<1>2. ASSUME Begin(c) \/ FindUnits(c) PROVE UNCHANGED Waited(d)
  BY <1>2 DEF Begin, FindUnits, waitVars
<1>3. ASSUME EndLoop(c) PROVE UNCHANGED Waited(d)
  BY <1>3 DEF EndLoop
<1>4. ASSUME NEW u \in Unit, Skip(c, u) \/ Request(c, u) PROVE UNCHANGED Waited(d)
  BY <1>4 DEF Skip, Request, waitVars
<1>5. ASSUME NEW u \in Unit, Refuse(c, u) PROVE UNCHANGED Waited(d)
  BY <1>1, <1>5 DEF Refuse
<1>6. ASSUME EndDestroy(c) PROVE UNCHANGED Waited(d)
  BY <1>1, <1>6 DEF EndDestroy
<1>7. ASSUME GiveUp(c) \/ ReadFails(c) \/ ExistsFails(c) PROVE UNCHANGED Waited(d)
  BY <1>1, <1>7 DEF GiveUp, ReadFails, ExistsFails
<1>8. ASSUME Join(c) PROVE UNCHANGED Waited(d)
  <2>1. UNCHANGED checking
    BY <1>8 DEF Join
  <2>2. CASE UNCHANGED <<await, opFailed>>
    BY <2>1, <2>2
  <2>3. CASE ~UNCHANGED <<await, opFailed>>
    <3>1. Return(c, ~opFailed[c])
      BY <1>8, <2>3 DEF Join
    <3> QED BY <2>1, <3>1 DEF Return
  <2> QED BY <2>2, <2>3
<1>9. ASSUME Deliver(c) PROVE UNCHANGED Waited(d)
  BY <1>9 DEF Deliver
<1>10. ASSUME RequestLost(c) \/ AnswerLost(c) \/ Conflict(c) PROVE UNCHANGED Waited(d)
  BY <1>10 DEF RequestLost, AnswerLost, Conflict, Fails, Retry, waitVars
<1> QED BY <1>2, <1>3, <1>4, <1>5, <1>6, <1>7, <1>8, <1>9, <1>10 DEF Steps, Working, Losing

\* What Start has asked for is to run, and is waited for.
LEMMA OwnStepStarts ==
  ASSUME TypeOK, Fitting, NEW c \in Caller, Steps(c), StartedUnitsRun(c)
  PROVE  StartedUnitsRun(c)'
<1> WorkFits(c)
  BY DEF Fitting
<1>1. ASSUME NEW ok \in BOOLEAN, Return(c, ok) PROVE StartedUnitsRun(c)'
  <2>1. pc'[c] \in {"begin", "done", "failed"} /\ await'[c] = {}
    BY <1>1, ReturnIsTyped DEF Return, TypeOK
  <2> QED BY <2>1 DEF StartedUnitsRun
<1>2. ASSUME Begin(c) PROVE StartedUnitsRun(c)'
  <2>1. pc'[c] \in {"find", "destroy", "create"} /\ await'[c] = {}
    BY <1>2, CallIsTyped DEF Begin, Goto, TypeOK, waitVars, StartedUnitsRun
  <2> QED BY <2>1 DEF StartedUnitsRun
<1>3. ASSUME FindUnits(c) PROVE StartedUnitsRun(c)'
  <2>1. pc'[c] = "stop" /\ await'[c] = {}
    BY <1>3 DEF FindUnits, Goto, TypeOK, waitVars, StartedUnitsRun
  <2> QED BY <2>1 DEF StartedUnitsRun
<1>4. ASSUME EndLoop(c) PROVE StartedUnitsRun(c)'
  <2>1. /\ call' = call /\ todo' = todo /\ await' = await /\ desired' = desired
        /\ current' = current /\ todo[c] = {}
    BY <1>4 DEF EndLoop, registry
  <2>2. CASE pc[c] = "stop"
    <3>1. pc'[c] = "waitStop"
      BY <1>4, <2>2 DEF EndLoop, Goto, TypeOK
    <3> QED BY <2>1, <3>1 DEF StartedUnitsRun, Units
  <2>3. CASE pc[c] = "create"
    <3>1. pc'[c] = "waitCreate" /\ await[c] = {}
      BY <1>4, <2>3 DEF EndLoop, Goto, TypeOK, StartedUnitsRun
    <3> QED BY <2>1, <3>1 DEF StartedUnitsRun, Units
  <2>4. CASE pc[c] = "start"
    <3>1. pc'[c] = "waitStart"
      BY <1>4, <2>4 DEF EndLoop, Goto, TypeOK
    <3>2. \A u \in await[c] : <<u, "launched">> \in checking'[c]
      BY <1>4, <2>4 DEF EndLoop, TypeOK
    <3> QED BY <2>1, <2>4, <3>1, <3>2 DEF StartedUnitsRun, Units, Own, AllUnits
  <2> QED BY <1>4, <2>2, <2>3, <2>4 DEF EndLoop
<1>5. ASSUME Join(c) PROVE StartedUnitsRun(c)'
  <2>1. CASE \A ok \in BOOLEAN : ~Return(c, ok)
    <3>1. /\ pc[c] = "waitCreate" /\ pc'[c] = "start" /\ todo'[c] = Units(c) /\ call' = call
      BY <1>5, <2>1, JoinReturns DEF Goto, TypeOK
    <3>2. await' = await
      BY <1>5, <2>1 DEF Join
    <3> QED BY <3>1, <3>2 DEF StartedUnitsRun, Units
  <2> QED BY <1>1, <2>1
<1>6. ASSUME NEW u \in Unit, Skip(c, u) PROVE StartedUnitsRun(c)'
  <2>1. /\ call' = call /\ pc' = pc /\ desired' = desired /\ await' = await
        /\ todo'[c] = todo[c] \ {u}
        /\ pc[c] = "start" => desired[u] = "launched"
        /\ pc[c] \in {"stop", "create", "start"}
    BY <1>6 DEF Skip, registry, waitVars, TypeOK
  <2> QED BY <2>1 DEF StartedUnitsRun, Units, Own, AllUnits
<1>7. ASSUME NEW u \in Unit, Request(c, u) PROVE StartedUnitsRun(c)'
  <2>1. /\ call' = call /\ pc' = pc /\ desired' = desired /\ await' = await /\ todo' = todo
        /\ pc[c] \in {"stop", "create", "start", "destroy"}
    BY <1>7 DEF Request, registry, waitVars, TypeOK
  <2> QED BY <2>1 DEF StartedUnitsRun, Units, Own, AllUnits
<1>8. ASSUME Deliver(c) \/ RequestLost(c) \/ AnswerLost(c) \/ Conflict(c)
      PROVE  StartedUnitsRun(c)'
  <2>1. /\ call' = call /\ pc' = pc /\ busy[c] # None /\ busy[c] \in todo[c]
        /\ busy[c] \in Unit /\ busy[c] \in Units(c) /\ Units(c) \subseteq Unit
        /\ todo'[c] \in {todo[c], todo[c] \ {busy[c]}}
        /\ pc[c] \in {"stop", "create", "start", "destroy"}
    BY <1>8, RequestStays, CallIsTyped DEF WorkFits, TypeOK
  <2>2. /\ await'[c] \in {await[c], await[c] \cup ({busy[c]} \ Global)}
        /\ pc[c] \notin {"stop", "start"} => await'[c] = await[c]
    BY <1>8 DEF Deliver, RequestLost, AnswerLost, Conflict, Fails, Retry, waitVars, TypeOK
  <2>3. ASSUME pc[c] = "start", Own(c), NEW u \in Units(c) \ todo'[c]
        PROVE  desired'[u] = "launched"
    <3>1. Target(c) = "launched"
      BY <2>3 DEF Target
    <3>2. desired[u] = "launched" => desired'[u] = "launched"
      BY <2>1, <2>3, <3>1, RequestsChangeOneUnit
    <3>3. CASE u \notin todo[c]
      BY <2>3, <3>2, <3>3 DEF StartedUnitsRun
    <3>4. CASE u \in todo[c]
      <4>1. u = busy[c] /\ todo'[c] # todo[c]
        BY <2>1, <2>3, <3>4
      <4>2. Deliver(c)
        BY <1>8, <2>3, <4>1 DEF RequestLost, AnswerLost, Conflict, Fails, Retry
      <4> QED BY <2>1, <3>1, <4>1, <4>2 DEF Deliver, Effect, TypeOK
    <3> QED BY <3>3, <3>4
  <2>4. Own(c)' = Own(c) /\ Units(c)' = Units(c)
    BY <2>1 DEF Own, AllUnits, Units
  <2> QED BY <2>1, <2>2, <2>3, <2>4 DEF StartedUnitsRun
<1>9. ASSUME NEW u \in Unit, Refuse(c, u) PROVE StartedUnitsRun(c)'
  BY <1>1, <1>9 DEF Refuse
<1>10. ASSUME EndDestroy(c) PROVE StartedUnitsRun(c)'
  BY <1>1, <1>10 DEF EndDestroy
<1>11. ASSUME GiveUp(c) \/ ReadFails(c) \/ ExistsFails(c) PROVE StartedUnitsRun(c)'
  BY <1>1, <1>11 DEF GiveUp, ReadFails, ExistsFails
<1> QED BY <1>2, <1>3, <1>4, <1>5, <1>6, <1>7, <1>8, <1>9, <1>10, <1>11 DEF Steps, Working, Losing

-----------------------------------------------------------------------------
(* Orderly: the steps of others.                                           *)

\* A caller's own part of Orderly.
Tidy(c) == WorkFits(c) /\ OwnUnitsExist(c) /\ VisitedAreGone(c)

\* As long as its variables stay, and its units are neither lost nor brought back.
LEMMA TidyByOwn ==
  ASSUME NEW c \in Caller, Tidy(c), UNCHANGED Local(c),
         lost \in Nat, lost' \in Nat, lost <= lost', attempts[c] \in Nat,
         Units(c) \subseteq AllUnits(c), todo[c] \subseteq Units(c),
         Own(c) => \A u \in AllUnits(c) : Exists(u)' = Exists(u),
         \A u \in Units(c) : NobodyStarts(c, u) /\ ~Exists(u) => ~Exists(u)'
  PROVE  Tidy(c)'
<1>1. /\ call'[c] = call[c] /\ pc'[c] = pc[c] /\ todo'[c] = todo[c] /\ busy'[c] = busy[c]
      /\ attempts'[c] = attempts[c] /\ missed'[c] = missed[c]
  BY DEF Local
<1>2. Op(c)' = Op(c) /\ Units(c)' = Units(c)
  BY <1>1 DEF Op, Units
<1>3. Own(c)' = Own(c) /\ \A u : NobodyStarts(c, u)' = NobodyStarts(c, u)
  BY DEF Own, AllUnits, NobodyStarts
<1>4. WorkFits(c)'
  BY <1>1, <1>2 DEF Tidy, WorkFits
<1>5. OwnUnitsExist(c)'
  <2> SUFFICES ASSUME Own(c) PROVE OwnUnitsExist(c)'
    BY <1>3 DEF OwnUnitsExist
  <2>1. \A u \in Units(c) : Exists(u) => Exists(u)'
    OBVIOUS
  <2>2. attempts[c] <= lost => attempts[c] <= lost'
    OBVIOUS
  <2> QED BY <1>1, <1>2, <2>1, <2>2 DEF Tidy, OwnUnitsExist
<1>6. VisitedAreGone(c)'
  BY <1>1, <1>2, <1>3 DEF Tidy, VisitedAreGone
<1> QED BY <1>4, <1>5, <1>6 DEF Tidy

\* What Start waits for comes about or stays waited for.
LEMMA StartedByOwn ==
  ASSUME NEW c \in Caller, StartedUnitsRun(c),
         UNCHANGED <<call[c], pc[c], todo[c], await[c]>>,
         Own(c) => \A u \in Units(c) : desired'[u] = desired[u],
         Own(c) /\ pc[c] = "waitStart" =>
           \A u \in await[c] :
             current[u] = "launched" \/ <<u, "launched">> \in checking[c] \/ opFailed[c] =>
               current'[u] = "launched" \/ <<u, "launched">> \in checking'[c] \/ opFailed'[c]
  PROVE  StartedUnitsRun(c)'
<1>1. Op(c)' = Op(c) /\ Units(c)' = Units(c) /\ Own(c)' = Own(c)
  BY DEF Op, Units, Own, AllUnits
<1> QED BY <1>1 DEF StartedUnitsRun

\* Goroutines and agents bring about what Start waits for.
LEMMA TheRestKeepsStarted ==
  ASSUME TypeOK, [Next]_vars, \A d \in Caller : ~Steps(d), NEW c \in Caller, StartedUnitsRun(c),
         Own(c), pc[c] = "waitStart", Units(c) \subseteq Unit, NEW u \in await[c],
         current[u] = "launched" \/ <<u, "launched">> \in checking[c] \/ opFailed[c]
  PROVE  current'[u] = "launched" \/ <<u, "launched">> \in checking'[c] \/ opFailed'[c]
<1>1. u \in Unit /\ u \notin Global /\ desired[u] = "launched"
  BY DEF StartedUnitsRun
<1>2. ASSUME NEW d \in Caller, NEW v \in Unit, NEW js \in JobState, Checking(d, v, js)
      PROVE  current'[u] = "launched" \/ <<u, "launched">> \in checking'[c] \/ opFailed'[c]
  <2>1. CASE Check(d, v, js)
    <3>1. /\ current' = current /\ opFailed' = opFailed
          /\ checking' = [checking EXCEPT ![d] = checking[d] \ {<<v, js>>}]
          /\ StateOf(v) = js
      BY <2>1 DEF Check, registry
    <3>2. CASE <<v, js>> = <<u, "launched">>
      BY <1>1, <3>1, <3>2 DEF StateOf
    <3>3. CASE <<v, js>> # <<u, "launched">>
      BY <3>1, <3>3 DEF TypeOK
    <3> QED BY <3>2, <3>3
  <2>2. CASE CheckAgain(d, v, js)
    BY <2>2 DEF CheckAgain, registry
  <2>3. CASE CheckTimesOut(d, v, js)
    BY <2>3 DEF CheckTimesOut, registry, TypeOK
  <2> QED BY <1>2, <2>1, <2>2, <2>3 DEF Checking
<1>3. ASSUME NEW v \in Unit, Reconcile(v)
      PROVE  current'[u] = "launched" \/ <<u, "launched">> \in checking'[c] \/ opFailed'[c]
  BY <1>1, <1>3 DEF Reconcile, waitVars, TypeOK
<1>4. ASSUME UNCHANGED vars
      PROVE  current'[u] = "launched" \/ <<u, "launched">> \in checking'[c] \/ opFailed'[c]
  BY <1>4 DEF vars, registry, waitVars
<1> QED BY <1>2, <1>3, <1>4 DEF Next, Terminated, Steps

\* No caller has begun.
LEMMA OrderlyInit == Init => Orderly
BY DEF Init, Orderly, WorkFits, OwnUnitsExist, VisitedAreGone, StartedUnitsRun

\* Every step keeps Orderly: a caller's own by what it does, another's by what it cannot touch.
LEMMA OrderlyStep == ASSUME TypeOK, Orderly, [Next]_vars PROVE Orderly'
<1> Fitting /\ \A c \in Caller : Tidy(c) /\ StartedUnitsRun(c)
  BY DEF Orderly, Fitting, Tidy
<1> SUFFICES ASSUME NEW c \in Caller PROVE Tidy(c)' /\ StartedUnitsRun(c)'
  BY DEF Orderly, Tidy
<1>1. CASE Steps(c)
  BY <1>1, OwnStepFits, OwnStepKeepsUnits, OwnStepDestroys, OwnStepStarts DEF Tidy
<1>2. CASE ~Steps(c)
  <2>1. /\ lost \in Nat /\ lost' \in Nat /\ lost <= lost' /\ attempts[c] \in Nat
        /\ Units(c) \subseteq AllUnits(c) /\ Units(c) \subseteq Unit /\ todo[c] \subseteq Units(c)
    BY LossesGrow, CallIsTyped, TunnelBounds DEF TypeOK, Tidy, WorkFits
  <2>2. CASE \E d \in Caller : Steps(d)
    <3>1. PICK d \in Caller : Steps(d)
      BY <2>2
    <3>2. d # c
      BY <1>2, <3>1
    <3>3. UNCHANGED Local(c)
      BY <3>1, <3>2, OthersKeepTheirs
    <3>4. Units(d) \subseteq AllUnits(d) /\ Units(d) \subseteq Unit
      BY CallIsTyped
    <3>5. Own(c) => \A u \in AllUnits(c) : desired'[u] = desired[u] /\ current'[u] = current[u]
      <4> SUFFICES ASSUME Own(c), NEW u \in AllUnits(c)
                   PROVE  desired'[u] = desired[u] /\ current'[u] = current[u]
        OBVIOUS
      <4>1. u \in Unit
        <5>1. PICK i \in 1..Len(Program[c]) : u \in Program[c][i].units
          BY DEF AllUnits
        <5>2. Program[c][i] \in Call
          BY TunnelPrograms
        <5> QED BY <5>1, <5>2 DEF Call
      <4>2. u \notin Units(d)
        BY <3>2, <3>4 DEF Own
      <4> QED BY <3>1, <4>1, <4>2, RequestsChangeOneUnit, RequestsMoveOneUnit
    <3>6. \A u \in Units(c) : NobodyStarts(c, u) /\ ~Exists(u) => ~Exists(u)'
      <4> SUFFICES ASSUME NEW u \in Units(c), NobodyStarts(c, u), ~Exists(u), Exists(u)'
                   PROVE FALSE
        OBVIOUS
      <4>1. Op(d) = "start" /\ u \in Units(d)
        BY <2>1, <3>1, WhoCreatesAndDestroys
      <4>2. call[d] \in 1..Len(Program[d])
        BY DEF TypeOK
      <4> QED BY <3>2, <4>1, <4>2 DEF NobodyStarts, Op, Units
    <3>7. Tidy(c)'
      BY <2>1, <3>3, <3>5, <3>6, TidyByOwn DEF Exists
    <3>8. UNCHANGED <<call[c], pc[c], todo[c]>> /\ UNCHANGED Waited(c)
      BY <3>1, <3>2, <3>3, OthersWaitOn DEF Local
    <3>9. await[c] \subseteq Units(c)
      BY DEF StartedUnitsRun
    <3>10. StartedUnitsRun(c)'
      BY <2>1, <3>5, <3>8, <3>9, StartedByOwn DEF Waited
    <3> QED BY <3>7, <3>10
  <2>3. CASE ~\E d \in Caller : Steps(d)
    <3>1. UNCHANGED <<desired, call, pc, todo, busy, attempts, await, missed>>
      BY <2>3, TheRestIsQuiet
    <3>2. UNCHANGED Local(c) /\ \A u : Exists(u)' = Exists(u)
      BY <3>1 DEF Local, Exists
    <3>3. Tidy(c)'
      BY <2>1, <3>2, TidyByOwn
    <3>4. StartedUnitsRun(c)'
      BY <2>1, <2>3, <3>1, StartedByOwn, TheRestKeepsStarted
    <3> QED BY <3>3, <3>4
  <2> QED BY <2>2, <2>3
<1> QED BY <1>1, <1>2

-----------------------------------------------------------------------------
(* The theorems.                                                           *)

\* Every variable has its type, and Orderly holds, whatever is lost.
THEOREM TunnelIsOrderly == Spec => [](TypeOK /\ Orderly)
<1>1. Init => TypeOK /\ Orderly
  BY TypeInit, OrderlyInit
<1>2. TypeOK /\ Orderly /\ [Next]_vars => (TypeOK /\ Orderly)'
  BY TypeStep, OrderlyStep DEF Orderly, Fitting
<1> QED BY <1>1, <1>2, PTL DEF Spec

\* The state variables keep their types (fleet_start.go, fleet_stop.go, fleet_destroy.go).
THEOREM TunnelTypeCorrect == Spec => []TypeOK
BY TunnelIsOrderly, PTL

\* Setting a target twice does no harm: only lost messages cost a caller attempts
\* (fleet.go:88-97).
THEOREM RetriesAreHarmless == Spec => []RetryIsHarmless
<1>1. Orderly => RetryIsHarmless
  BY DEF Orderly, OwnUnitsExist, RetryIsHarmless
<1> QED BY <1>1, TunnelIsOrderly, PTL

\* Destroy leaves a unit only if the request was lost or somebody starts it
\* (fleet_destroy.go:24-73).
THEOREM DestroyLeavesOnlyTheMissed == Spec => DestroyLeavesNothing
<1> DEFINE A == \A c \in Caller : \A u \in Units(c) :
                  /\ pc[c] = "destroy" /\ pc'[c] \in {"begin", "done"}
                  /\ NobodyStarts(c, u)
                  => ~Exists(u) \/ u \in missed[c]
<1>1. TypeOK /\ Orderly /\ [Next]_vars => A
  <2> SUFFICES ASSUME TypeOK, Orderly, [Next]_vars, NEW c \in Caller, NEW u \in Units(c),
                      pc[c] = "destroy", pc'[c] \in {"begin", "done"}, NobodyStarts(c, u)
               PROVE  ~Exists(u) \/ u \in missed[c]
    OBVIOUS
  <2>1. Fitting /\ VisitedAreGone(c) /\ Op(c) = "destroy"
    BY DEF Orderly, Fitting, WorkFits
  <2>2. PICK d \in Caller : Steps(d)
    BY TheRestIsQuiet
  <2>3. Steps(c)
    <3>1. d # c => pc'[c] = pc[c]
      BY <2>2, OthersKeepTheirs DEF Local
    <3> QED BY <2>2, <3>1
  <2>4. ~Return(c, FALSE)
    BY <2>1, ReturnIsTyped
  <2>5. EndDestroy(c)
    <3>1. ~(Deliver(c) \/ RequestLost(c) \/ AnswerLost(c) \/ Conflict(c))
      BY RequestStays
    <3>2. ~(Begin(c) \/ FindUnits(c) \/ EndLoop(c) \/ Join(c))
      BY DEF Begin, FindUnits, EndLoop, Join, Waits
    <3>3. \A v \in Unit : ~Skip(c, v) /\ ~Refuse(c, v) /\ ~Request(c, v)
      BY <2>4 DEF Skip, Refuse, Request
    <3>4. ~GiveUp(c) /\ ~ReadFails(c) /\ ~ExistsFails(c)
      BY <2>4 DEF GiveUp, ReadFails, ExistsFails
    <3> QED BY <2>3, <3>1, <3>2, <3>3, <3>4 DEF Steps, Working, Losing
  <2> QED BY <2>1, <2>5 DEF EndDestroy, VisitedAreGone
<1>2. TypeOK /\ Orderly /\ [Next]_vars => [A]_vars
  BY <1>1
<1> QED BY <1>2, TunnelIsOrderly, PTL DEF Spec, DestroyLeavesNothing

\* No unit is started before all of the call exist (fleet_start.go:41-46).
THEOREM CreationsComeFirst == Spec => CreatedBeforeStarted
<1> DEFINE A == \A c \in Caller, u \in Unit :
                  Own(c) /\ busy[c] = u /\ desired[u] # "launched" /\ desired'[u] = "launched" =>
                    \A v \in Units(c) : Exists(v)
<1>1. TypeOK /\ Orderly /\ [Next]_vars => A
  <2> SUFFICES ASSUME TypeOK, Orderly, [Next]_vars, NEW c \in Caller, NEW u \in Unit,
                      Own(c), busy[c] = u, desired[u] # "launched", desired'[u] = "launched"
               PROVE  \A v \in Units(c) : Exists(v)
    OBVIOUS
  <2>1. Fitting /\ OwnUnitsExist(c) /\ WorkFits(c) /\ u \in Units(c)
    BY TunnelUnits DEF Orderly, Fitting, WorkFits
  <2>2. PICK d \in Caller : Steps(d)
    BY TheRestIsQuiet
  <2>3. u \in Units(d) /\ u = busy[d] /\ Target(d) = "launched"
    BY <2>1, <2>2, RequestsChangeOneUnit
  <2>4. d = c
    BY <2>1, <2>3, CallIsTyped DEF Own
  <2>5. pc[c] = "start"
    BY <2>1, <2>3, <2>4, TunnelUnits DEF WorkFits, Target
  <2> QED BY <2>1, <2>5 DEF OwnUnitsExist
<1>2. TypeOK /\ Orderly /\ [Next]_vars => [A]_vars
  BY <1>1
<1> QED BY <1>2, TunnelIsOrderly, PTL DEF Spec, CreatedBeforeStarted

\* What Start reports as started is to run, and runs as far as it could see
\* (fleet_start.go:38-63).
THEOREM StartedIsRunning == Spec => StartKeepsItsWord
<1> DEFINE A == \A c \in Caller : Succeeds(c) /\ pc[c] = "waitStart" =>
                  /\ \A u \in Units(c) : desired[u] = "launched"
                  /\ \A u \in await[c] : current[u] = "launched"
<1>1. TypeOK /\ Orderly /\ [Next]_vars => A
  <2> SUFFICES ASSUME TypeOK, Orderly, [Next]_vars, NEW c \in Caller, Succeeds(c),
                      pc[c] = "waitStart"
               PROVE  /\ \A u \in Units(c) : desired[u] = "launched"
                      /\ \A u \in await[c] : current[u] = "launched"
    OBVIOUS
  <2>1. Own(c) /\ pc'[c] \in {"begin", "done"} /\ pc'[c] # pc[c]
    BY DEF Succeeds
  <2>2. Fitting /\ WorkFits(c) /\ StartedUnitsRun(c) /\ Op(c) = "start" /\ busy[c] = None
    BY DEF Orderly, Fitting, WorkFits
  <2>3. PICK d \in Caller : Steps(d)
    BY <2>1, TheRestIsQuiet
  <2>4. Steps(c)
    <3>1. d # c => pc'[c] = pc[c]
      BY <2>3, OthersKeepTheirs DEF Local
    <3> QED BY <2>1, <2>3, <3>1
  <2>5. Join(c)
    BY <2>2, <2>4 DEF Steps, Working, Losing, Begin, FindUnits, EndLoop, EndDestroy, Skip, Refuse,
                      Request, Deliver, Conflict, GiveUp, ReadFails, ExistsFails, RequestLost,
                      AnswerLost, Trying
  <2>6. Return(c, ~opFailed[c]) /\ checking[c] = {}
    BY <2>5 DEF Join
  <2>7. ~opFailed[c]
    <3>1. (~opFailed[c]) \in BOOLEAN
      OBVIOUS
    <3> QED BY <2>1, <2>2, <2>6, <3>1, ReturnIsTyped
  <2> QED BY <2>1, <2>2, <2>6, <2>7 DEF StartedUnitsRun
<1>2. TypeOK /\ Orderly /\ [Next]_vars => [A]_vars
  BY <1>1
<1> QED BY <1>2, TunnelIsOrderly, PTL DEF Spec, StartKeepsItsWord

-----------------------------------------------------------------------------
(* Stop before Destroy.                                                    *)

\* destroyUnits hands Destroy the units it has handed Stop just before
\* (destroy.go:73-92).
StopsFirst ==
  \A c \in Caller : \A i \in 1..Len(Program[c]) :
    Program[c][i].op = "destroy" =>
      /\ i - 1 \in 1..Len(Program[c]) /\ Program[c][i - 1].op = "stop"
      /\ Program[c][i].units \subseteq Program[c][i - 1].units

Down(u) == desired[u] # "launched" /\ current[u] # "launched"

\* In its loop Stop has a request under way for the unit, or will decide about it
\* by what it saw, which agents alone have changed since, or it has visited it;
\* then it waits until the unit is down, fails, or leaves it down to Destroy.
StopsUnit(c, u) ==
  /\ pc[c] = "stop" =>
       \/ u \in todo[c] /\ u = busy[c]
       \/ /\ u \in todo[c] /\ desired[u] = seen[c][u].desired
          /\ current[u] \in {seen[c][u].current, seen[c][u].desired}
       \/ /\ u \notin todo[c] /\ desired[u] # "launched"
          /\ current[u] # "launched" \/ u \in await[c]
  /\ pc[c] = "waitStop" =>
       /\ desired[u] # "launched"
       /\ current[u] # "launched" \/ <<u, "loaded">> \in checking[c] \/ opFailed[c]
  /\ Op(c) = "destroy" /\ pc[c] \in {"begin", "destroy"} /\ ~warned[c] => Down(u)

StopsItsUnits(c) == Own(c) => \A u \in Units(c) \ Global : SeenRising(c, u) \/ StopsUnit(c, u)

\* A caller changes neither what another has seen nor what it was told.
LEMMA OthersRemember ==
  ASSUME TypeOK, NEW c \in Caller, NEW d \in Caller \ {c}, Steps(c)
  PROVE  seen'[d] = seen[d] /\ warned'[d] = warned[d]
<1>1. seen' = seen \/ FindUnits(c)
  BY DEF Steps, Working, Losing, Begin, EndLoop, EndDestroy, Join, Skip, Refuse, Request, Deliver,
         Conflict, GiveUp, ReadFails, ExistsFails, RequestLost, AnswerLost, Retry, Fails
<1>2. seen'[d] = seen[d]
  BY <1>1 DEF FindUnits, TypeOK
<1>3. \/ warned' = warned
      \/ \E ok \in BOOLEAN : Return(c, ok)
  BY JoinReturns DEF Steps, Working, Losing, Begin, FindUnits, EndLoop, EndDestroy, Skip, Refuse,
         Request, Deliver, Conflict, GiveUp, ReadFails, ExistsFails, RequestLost, AnswerLost, Retry,
         Fails, history, Join
<1>4. warned'[d] = warned[d]
  BY <1>3 DEF Return, TypeOK
<1> QED BY <1>2, <1>4

\* After a Stop that succeeds its units are down; after one that fails nothing is
\* promised, and neither is it in a call that is not a Destroy.
LEMMA ReturnStops ==
  ASSUME TypeOK, StopsFirst, NEW c \in Caller, NEW ok \in BOOLEAN, Return(c, ok),
         UNCHANGED <<desired, current, seen>>,
         ok /\ Op(c) = "stop" => \A u \in Units(c) \ Global : SeenRising(c, u) \/ Down(u),
         NEW u \in Units(c)' \ Global
  PROVE  SeenRising(c, u)' \/ StopsUnit(c, u)'
<1>1. pc'[c] \in {"begin", "done", "failed"} /\ call'[c] \in 1..Len(Program[c])
  BY ReturnIsTyped
<1> SUFFICES ASSUME Op(c)' = "destroy", pc'[c] = "begin", ~warned'[c]
             PROVE  SeenRising(c, u) \/ Down(u)
  BY <1>1 DEF StopsUnit, SeenRising, Down
<1>2. call'[c] = call[c] + 1
  BY DEF Return, Goto, TypeOK
<1>3. call[c] \in Nat
  BY DEF TypeOK
<1>4. Op(c) = "stop" /\ u \in Units(c)
  BY <1>1, <1>2, <1>3 DEF StopsFirst, Op, Units
<1>5. ok
  BY <1>4 DEF Return, TypeOK
<1> QED BY <1>4, <1>5

\* What a caller does keeps the promise of Stop, and Destroy starts nothing.
LEMMA OwnStepStops ==
  ASSUME TypeOK, StopsFirst, Fitting, NEW c \in Caller, Steps(c), StopsItsUnits(c)
  PROVE  StopsItsUnits(c)'
<1> SUFFICES ASSUME Own(c), NEW u \in Units(c)' \ Global
             PROVE  SeenRising(c, u)' \/ StopsUnit(c, u)'
  BY DEF StopsItsUnits, Own, AllUnits
<1> WorkFits(c)
  BY DEF Fitting
<1>1. ASSUME NEW ok \in BOOLEAN, Return(c, ok), UNCHANGED <<desired, current, seen>>,
             ok /\ Op(c) = "stop" => \A v \in Units(c) \ Global : SeenRising(c, v) \/ Down(v)
      PROVE  SeenRising(c, u)' \/ StopsUnit(c, u)'
  BY <1>1, ReturnStops
<1>2. ASSUME call' = call
      PROVE  /\ Op(c)' = Op(c) /\ Units(c)' = Units(c)
             /\ u \in Unit /\ u \notin Global /\ u \in Units(c)
             /\ SeenRising(c, u) \/ StopsUnit(c, u)
  <2>1. Op(c)' = Op(c) /\ Units(c)' = Units(c) /\ Units(c) \subseteq Unit
    BY <1>2, CallIsTyped DEF Op, Units
  <2> QED BY <2>1 DEF StopsItsUnits
<1>3. ASSUME Begin(c) PROVE SeenRising(c, u)' \/ StopsUnit(c, u)'
  <2>1. /\ pc[c] = "begin" /\ pc'[c] \in {"find", "destroy", "create"}
        /\ pc'[c] = "destroy" => Op(c) = "destroy"
        /\ UNCHANGED <<desired, current, call, seen, warned>>
    BY <1>3, CallIsTyped DEF Begin, Goto, TypeOK, registry, history
  <2> QED BY <1>2, <2>1 DEF StopsUnit, SeenRising, Down
<1>4. ASSUME FindUnits(c) PROVE SeenRising(c, u)' \/ StopsUnit(c, u)'
  <2>1. /\ pc'[c] = "stop" /\ Op(c) = "stop" /\ UNCHANGED <<desired, current, call>>
        /\ todo'[c] = {v \in Units(c) : Exists(v)}
    BY <1>4 DEF FindUnits, Goto, TypeOK, registry, WorkFits
  <2>2. seen'[c][u].desired = desired[u] /\ seen'[c][u].current = current[u]
    BY <1>2, <1>4, <2>1 DEF FindUnits, TypeOK
  <2>3. CASE Exists(u)
    BY <1>2, <2>1, <2>2, <2>3 DEF StopsUnit
  <2>4. CASE ~Exists(u)
    <3>1. desired[u] = "absent" /\ current[u] = "absent"
      BY <1>2, <2>1, <2>4 DEF Exists, TypeOK
    <3> QED BY <1>2, <2>1, <2>4, <3>1 DEF StopsUnit
  <2> QED BY <2>3, <2>4
<1>5. ASSUME EndLoop(c) PROVE SeenRising(c, u)' \/ StopsUnit(c, u)'
  <2>1. UNCHANGED <<desired, current, call, seen, warned>> /\ todo[c] = {}
    BY <1>5 DEF EndLoop, registry, history
  <2>2. CASE pc[c] = "stop"
    <3>1. pc'[c] = "waitStop" /\ Op(c) = "stop"
      BY <1>5, <2>2 DEF EndLoop, Goto, TypeOK, WorkFits
    <3>2. u \in await[c] => <<u, "loaded">> \in checking'[c]
      BY <1>5, <2>2 DEF EndLoop, TypeOK
    <3> QED BY <1>2, <2>1, <2>2, <3>1, <3>2 DEF StopsUnit, SeenRising
  <2>3. CASE pc[c] \in {"create", "start"}
    <3>1. pc'[c] \in {"waitCreate", "waitStart"}
      BY <1>5, <2>3 DEF EndLoop, Goto, TypeOK
    <3> QED BY <3>1 DEF StopsUnit
  <2> QED BY <1>5, <2>2, <2>3 DEF EndLoop
<1>6. ASSUME Join(c) PROVE SeenRising(c, u)' \/ StopsUnit(c, u)'
  <2>1. UNCHANGED <<desired, current, seen>> /\ checking[c] = {}
        /\ pc[c] \in {"waitStop", "waitCreate", "waitStart"}
    BY <1>6 DEF Join, registry, Waits
  <2>2. CASE Return(c, ~opFailed[c])
    <3>1. (~opFailed[c]) \in BOOLEAN
      OBVIOUS
    <3>2. ASSUME ~opFailed[c], Op(c) = "stop"
          PROVE  \A v \in Units(c) \ Global : SeenRising(c, v) \/ Down(v)
      <4>1. pc[c] = "waitStop"
        BY <2>1, <3>2 DEF WorkFits
      <4> QED BY <2>1, <3>2, <4>1 DEF StopsItsUnits, StopsUnit, Down
    <3> QED BY <1>1, <2>1, <2>2, <3>1, <3>2
  <2>3. CASE Goto(c, "start")
    <3>1. pc'[c] = "start"
      BY <2>3 DEF Goto, TypeOK
    <3> QED BY <3>1 DEF StopsUnit
  <2> QED BY <1>6, <2>2, <2>3 DEF Join
<1>7. ASSUME NEW v \in Unit, Skip(c, v) PROVE SeenRising(c, u)' \/ StopsUnit(c, u)'
  <2>1. /\ UNCHANGED <<desired, current, call, pc, seen, busy, warned, await>>
        /\ busy[c] = None /\ todo'[c] = todo[c] \ {v} /\ v \in todo[c]
        /\ pc[c] \in {"stop", "create", "start"}
    BY <1>7 DEF Skip, registry, history, waitVars, TypeOK
  <2>2. CASE pc[c] # "stop"
    BY <2>1, <2>2 DEF StopsUnit
  <2>3. CASE pc[c] = "stop" /\ u # v
    <3>1. Op(c) = "stop"
      BY <2>3 DEF WorkFits
    <3> QED BY <1>2, <2>1, <2>3, <3>1 DEF StopsUnit, SeenRising
  <2>4. CASE pc[c] = "stop" /\ u = v
    <3>1. Op(c) = "stop" /\ seen[c][u].current = "loaded" /\ u # busy[c]
      BY <1>2, <1>7, <2>1, <2>4, TunnelUnits DEF WorkFits, Skip, SkipsStop
    <3>2. CASE SeenRising(c, u)
      BY <2>1, <3>2 DEF SeenRising
    <3>3. CASE ~SeenRising(c, u)
      <4>1. /\ desired[u] = seen[c][u].desired
            /\ current[u] \in {seen[c][u].current, seen[c][u].desired}
        BY <1>2, <2>1, <2>4, <3>1, <3>3 DEF StopsUnit
      <4>2. seen[c][u].desired # "launched"
        <5>1. seen[c][u] \in [desired : State, current : State]
          BY <1>2, <2>1 DEF TypeOK
        <5> QED BY <3>1, <3>3, <5>1 DEF SeenRising
      <4> QED BY <1>2, <2>1, <2>4, <3>1, <4>1, <4>2 DEF StopsUnit
    <3> QED BY <3>2, <3>3
  <2> QED BY <2>2, <2>3, <2>4
<1>8. ASSUME NEW v \in Unit, Request(c, v) PROVE SeenRising(c, u)' \/ StopsUnit(c, u)'
  <2>1. /\ UNCHANGED <<desired, current, call, pc, seen, todo, warned, await>>
        /\ busy'[c] = v /\ v \in todo[c] /\ busy[c] = None
    BY <1>8 DEF Request, registry, history, waitVars, TypeOK
  <2>2. pc[c] \in {"stop", "create", "start", "destroy"}
    BY <1>8 DEF Request
  <2>3. u # busy[c]
    BY <1>2, <2>1, TunnelUnits
  <2> QED BY <1>2, <2>1, <2>2, <2>3 DEF StopsUnit, SeenRising, Down
<1>9. ASSUME Deliver(c) \/ RequestLost(c) \/ AnswerLost(c) \/ Conflict(c)
      PROVE  SeenRising(c, u)' \/ StopsUnit(c, u)'
  <2>1. /\ UNCHANGED <<call, pc, seen, warned>> /\ busy[c] \in Unit /\ busy[c] \in todo[c]
        /\ busy'[c] \in {None, busy[c]} /\ (busy'[c] # None => todo'[c] = todo[c])
        /\ todo'[c] \in {todo[c], todo[c] \ {busy[c]}}
        /\ pc[c] \in {"stop", "create", "start", "destroy"}
    <3>1. UNCHANGED <<seen, warned>>
      BY <1>9 DEF Deliver, RequestLost, AnswerLost, Conflict, Fails, Retry, Visited, history
    <3> QED BY <1>9, <3>1, RequestStays DEF WorkFits, TypeOK
  <2>2. u # busy[c] => desired'[u] = desired[u] /\ current'[u] = current[u]
    <3>1. desired'[u] # desired[u] => u = busy[c]
      BY <1>2, <2>1, RequestsChangeOneUnit
    <3>2. UNCHANGED registry \/ Effect(c, busy[c])
      BY <1>9 DEF Deliver, RequestLost, AnswerLost, Conflict
    <3> QED BY <1>2, <2>1, <3>1, <3>2 DEF Effect, TypeOK, registry
  <2>3. CASE pc[c] = "stop" /\ u # busy[c]
    <3>1. Op(c) = "stop" /\ await[c] \subseteq await'[c]
      BY <1>9, <2>3 DEF WorkFits, Deliver, RequestLost, AnswerLost, Conflict, Fails, Retry,
                        waitVars, TypeOK
    <3> QED BY <1>2, <2>1, <2>2, <2>3, <3>1 DEF StopsUnit, SeenRising
  <2>4. CASE pc[c] = "stop" /\ u = busy[c]
    <3>1. CASE Deliver(c)
      <4>1. Target(c) = "loaded" /\ Op(c) = "stop"
        BY <2>4 DEF Target, WorkFits
      <4>2. desired'[u] = "loaded" /\ u \in await'[c] /\ u \notin todo'[c]
        BY <1>2, <2>1, <2>4, <3>1, <4>1 DEF Deliver, Effect, Visited, TypeOK
      <4> QED BY <1>2, <2>1, <2>4, <4>1, <4>2 DEF StopsUnit
    <3>2. CASE ~Deliver(c)
      <4>1. todo' = todo /\ busy' = busy /\ Op(c) = "stop"
        BY <1>9, <2>4, <3>2 DEF RequestLost, AnswerLost, Conflict, Fails, Retry, WorkFits
      <4> QED BY <1>2, <2>1, <2>4, <4>1 DEF StopsUnit
    <3> QED BY <3>1, <3>2
  <2>5. CASE pc[c] \in {"create", "start"}
    <3>1. Op(c) = "start"
      BY <2>5 DEF WorkFits
    <3> QED BY <2>1, <2>5 DEF StopsUnit
  <2>6. CASE pc[c] = "destroy"
    <3>1. Target(c) = "absent" /\ Op(c) = "destroy"
      BY <2>6 DEF Target, WorkFits
    <3>2. UNCHANGED <<desired, current>> \/ Effect(c, busy[c])
      BY <1>9 DEF Deliver, RequestLost, AnswerLost, Conflict, registry
    <3>3. Down(u) => Down(u)'
      <4>1. desired'[u] \in {desired[u], "absent"} /\ current'[u] \in {current[u], "absent"}
        BY <1>2, <2>1, <2>6, <3>1, <3>2 DEF Effect, TypeOK
      <4> QED BY <4>1 DEF Down
    <3> QED BY <1>2, <2>1, <2>6, <3>1, <3>3 DEF StopsUnit, SeenRising
  <2> QED BY <2>1, <2>3, <2>4, <2>5, <2>6
<1>10. ASSUME NEW v \in Unit, Refuse(c, v) PROVE SeenRising(c, u)' \/ StopsUnit(c, u)'
  BY <1>1, <1>10 DEF Refuse, registry
<1>11. ASSUME EndDestroy(c) PROVE SeenRising(c, u)' \/ StopsUnit(c, u)'
  <2>1. Op(c) = "destroy"
    BY <1>11 DEF EndDestroy, WorkFits
  <2> QED BY <1>1, <1>11, <2>1 DEF EndDestroy, registry
<1>12. ASSUME GiveUp(c) \/ ReadFails(c) \/ ExistsFails(c)
       PROVE  SeenRising(c, u)' \/ StopsUnit(c, u)'
  BY <1>1, <1>12 DEF GiveUp, ReadFails, ExistsFails, registry
<1> QED BY <1>3, <1>4, <1>5, <1>6, <1>7, <1>8, <1>9, <1>10, <1>11, <1>12
        DEF Steps, Working, Losing

\* What agents and goroutines do keeps it too: a unit that is not to run stays
\* down, and a goroutine leaves Stop only when the unit is down or time is up.
LEMMA TheRestStops ==
  ASSUME TypeOK, [Next]_vars, \A d \in Caller : ~Steps(d), NEW c \in Caller, StopsItsUnits(c)
  PROVE  StopsItsUnits(c)'
<1>1. UNCHANGED <<desired, call, pc, todo, busy, await>> /\ UNCHANGED <<seen, warned>>
  <2>1. UNCHANGED <<seen, warned>>
    BY DEF Next, Terminated, Steps, Checking, Check, CheckAgain, CheckTimesOut, Reconcile, vars,
           loop, history
  <2> QED BY <2>1, TheRestIsQuiet
<1>2. Op(c)' = Op(c) /\ Units(c)' = Units(c)
  BY <1>1 DEF Op, Units
<1> SUFFICES ASSUME Own(c), NEW u \in Units(c) \ Global
             PROVE  SeenRising(c, u)' \/ StopsUnit(c, u)'
  BY <1>2 DEF StopsItsUnits, Own, AllUnits
<1>3. CASE SeenRising(c, u)
  BY <1>1, <1>3 DEF SeenRising
<1>4. CASE StopsUnit(c, u)
  <2>1. u \in Unit
    BY CallIsTyped
  <2>2. ASSUME NEW d \in Caller, NEW v \in Unit, NEW js \in JobState, Checking(d, v, js)
        PROVE  StopsUnit(c, u)'
    <3>1. current' = current
      BY <2>2 DEF Checking, Check, CheckAgain, CheckTimesOut, registry
    <3>2. opFailed[c] => opFailed'[c]
      BY <2>2 DEF Checking, Check, CheckAgain, CheckTimesOut, TypeOK
    <3>3. <<u, "loaded">> \in checking[c] =>
            current[u] # "launched" \/ <<u, "loaded">> \in checking'[c] \/ opFailed'[c]
      <4>1. CASE Check(d, v, js)
        <5>1. /\ checking' = [checking EXCEPT ![d] = checking[d] \ {<<v, js>>}]
              /\ StateOf(v) = js
          BY <4>1 DEF Check
        <5>2. CASE <<v, js>> = <<u, "loaded">>
          BY <5>1, <5>2 DEF StateOf
        <5>3. CASE <<v, js>> # <<u, "loaded">>
          BY <5>1, <5>3 DEF TypeOK
        <5> QED BY <5>2, <5>3
      <4>2. CASE CheckAgain(d, v, js)
        BY <4>2 DEF CheckAgain
      <4>3. CASE CheckTimesOut(d, v, js)
        BY <4>3 DEF CheckTimesOut, TypeOK
      <4> QED BY <2>2, <4>1, <4>2, <4>3 DEF Checking
    <3> QED BY <1>1, <1>2, <1>4, <3>1, <3>2, <3>3 DEF StopsUnit, Down
  <2>3. ASSUME NEW v \in Unit, Reconcile(v) PROVE StopsUnit(c, u)'
    <3>1. current'[u] \in {current[u], desired[u]} /\ UNCHANGED <<checking, opFailed>>
      BY <2>1, <2>3 DEF Reconcile, TypeOK, waitVars
    <3> QED BY <1>1, <1>2, <1>4, <3>1 DEF StopsUnit, Down
  <2>4. ASSUME UNCHANGED vars PROVE StopsUnit(c, u)'
    BY <1>1, <1>2, <1>4, <2>4 DEF vars, registry, waitVars, StopsUnit, Down
  <2> QED BY <2>2, <2>3, <2>4 DEF Next, Terminated, Steps
<1> QED BY <1>3, <1>4 DEF StopsItsUnits

\* Another caller cannot touch the units it stops.
LEMMA OthersLetStop ==
  ASSUME TypeOK, Fitting, NEW c \in Caller, NEW d \in Caller \ {c}, Steps(d), StopsItsUnits(c)
  PROVE  StopsItsUnits(c)'
<1>1. /\ UNCHANGED <<call[c], pc[c], todo[c], busy[c]>>
      /\ UNCHANGED <<await[c], checking[c], opFailed[c]>>
      /\ UNCHANGED <<seen[c], warned[c]>>
  BY OthersKeepTheirs, OthersWaitOn, OthersRemember DEF Local, Waited
<1>2. Op(c)' = Op(c) /\ Units(c)' = Units(c)
  BY <1>1 DEF Op, Units
<1> SUFFICES ASSUME Own(c), NEW u \in Units(c) \ Global
             PROVE  SeenRising(c, u)' \/ StopsUnit(c, u)'
  BY <1>2 DEF StopsItsUnits, Own, AllUnits
<1>3. u \in Unit /\ u \notin Units(d)
  BY CallIsTyped DEF Own
<1>4. desired'[u] = desired[u] /\ current'[u] = current[u]
  BY <1>3, RequestsChangeOneUnit, RequestsMoveOneUnit
<1> QED BY <1>1, <1>2, <1>4 DEF StopsItsUnits, StopsUnit, SeenRising, Down

\* Nobody destroys a running unit that is its own without a Stop before, except
\* after a warning or a Stop that took a rising unit for a stopped one
\* (destroy.go:73-92, fleet_stop.go:38-61).
THEOREM StoppedFirst ==
  ASSUME StopsFirst
  PROVE  Spec => StoppedBeforeDestroyed
<1> DEFINE Stops == \A c \in Caller : StopsItsUnits(c)
           A == \A c \in Caller : \A u \in Unit \ Global :
                  Own(c) /\ busy[c] = u /\ current[u] = "launched" /\ desired'[u] = "absent" =>
                    warned[c] \/ SeenRising(c, u)
<1>1. Init => Stops
  <2> SUFFICES ASSUME Init, NEW c \in Caller PROVE StopsItsUnits(c)
    OBVIOUS
  <2>1. pc[c] = "begin" /\ call[c] = 1 /\ TypeOK
    BY TypeInit DEF Init
  <2>2. Op(c) # "destroy"
    BY <2>1 DEF StopsFirst, Op, TypeOK
  <2> QED BY <2>1, <2>2 DEF StopsItsUnits, StopsUnit
<1>2. TypeOK /\ Orderly /\ Stops /\ [Next]_vars => Stops'
  <2> SUFFICES ASSUME TypeOK, Orderly, Stops, [Next]_vars, NEW c \in Caller
               PROVE  StopsItsUnits(c)'
    OBVIOUS
  <2>1. Fitting
    BY DEF Orderly, Fitting
  <2>2. CASE Steps(c)
    BY <2>1, <2>2, OwnStepStops
  <2>3. CASE \E d \in Caller \ {c} : Steps(d)
    BY <2>1, <2>3, OthersLetStop
  <2>4. CASE \A d \in Caller : ~Steps(d)
    BY <2>4, TheRestStops
  <2> QED BY <2>2, <2>3, <2>4
<1>3. TypeOK /\ Orderly /\ Stops /\ [Next]_vars => A
  <2> SUFFICES ASSUME TypeOK, Orderly, Stops, [Next]_vars, NEW c \in Caller,
                      NEW u \in Unit \ Global, Own(c), busy[c] = u, current[u] = "launched",
                      desired'[u] = "absent", ~SeenRising(c, u)
               PROVE  warned[c]
    OBVIOUS
  <2>1. Fitting /\ WorkFits(c) /\ u \in Units(c) /\ desired[u] # "absent"
    BY TunnelUnits DEF Orderly, Fitting, WorkFits, TypeOK
  <2>2. PICK d \in Caller : Steps(d)
    BY <2>1, TheRestIsQuiet
  <2>3. u \in Units(d) /\ Target(d) = "absent"
    BY <2>1, <2>2, RequestsChangeOneUnit
  <2>4. d = c
    BY <2>1, <2>3, CallIsTyped DEF Own
  <2>5. pc[c] = "destroy"
    BY <2>1, <2>3, <2>4, TunnelUnits DEF WorkFits, Target
  <2>6. StopsUnit(c, u) /\ Op(c) = "destroy"
    BY <2>1, <2>5 DEF StopsItsUnits, WorkFits
  <2> QED BY <2>5, <2>6 DEF StopsUnit, Down
<1>4. TypeOK /\ Orderly /\ Stops /\ [Next]_vars => [A]_vars
  BY <1>3
<1> HIDE DEF Stops
<1>5. Spec => []Stops
  BY <1>1, <1>2, TunnelIsOrderly, PTL DEF Spec
<1> QED BY <1>4, <1>5, TunnelIsOrderly, PTL DEF Spec, StoppedBeforeDestroyed
=============================================================================
