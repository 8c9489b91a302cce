---------------------------- MODULE FleetTunnel ----------------------------
(***************************************************************************)
(* The fleet tunnel (pkg/fleet): Stop, Destroy and Start of lists of       *)
(* units, over an API that may lose requests and answers.  Requests that   *)
(* create a unit or set its target are retried until the back-off gives    *)
(* up; after its loop a call waits, with a goroutine per unit, for the     *)
(* states it asked for.                                                    *)
(*                                                                         *)
(* A caller is a goroutine or a process that makes the calls of a program  *)
(* one after the other, as destroyUnits and Run do: an error of Stop is a  *)
(* warning (deployment/destroy.go:79), any other ends the caller.  Callers *)
(* share the registry, and nothing else.  All callers mean the same        *)
(* content by the same unit name; lists are visited in any order.          *)
(***************************************************************************)
EXTENDS Integers, Sequences, FiniteSets

CONSTANTS
  Unit,          \* unit names
  Global,        \* the units that run on every machine
  None,          \* no unit
  Caller,
  Program,       \* Program[c]: a sequence of calls [op, units]
  BlockAttempts, \* FleetConfig.BlockAttempts; less than 1 waits for ever
  MaxAttempts,   \* how often the back-off tries before it gives up
  MaxLost        \* bound on requests and answers that are lost

Call == [op : {"stop", "destroy", "start"}, units : SUBSET Unit]

ASSUME TunnelUnits == Global \subseteq Unit /\ None \notin Unit
ASSUME TunnelPrograms == Program \in [Caller -> Seq(Call) \ {<<>>}]
ASSUME TunnelBounds ==
  BlockAttempts \in Nat /\ MaxAttempts \in Nat \ {0} /\ MaxLost \in Nat

VARIABLES
  desired, current,  \* the registry: DesiredState and CurrentState
  call, pc,          \* which call of its program a caller is in, and where
  todo,              \* units the loop of the call has still to visit
  seen,              \* what findUnits returned to Stop
  busy, attempts,    \* the unit of the request being retried, and how often
  await,             \* stopping or starting: the units to wait for
  checking, polls,   \* goroutines in checkUnitState, how often each has looked
  opFailed,          \* the aggregate error is not empty
  warned,            \* history: the last Stop returned an error,
  missed,            \* and units a lost request to destroy has left
  lost

registry == <<desired, current>>
loop == <<todo, seen, busy, attempts>>
waitVars == <<await, checking, polls>>
history == <<warned, missed>>
vars == <<registry, call, pc, loop, waitVars, opFailed, history, lost>>

JobState == {"inactive", "loaded", "launched"}
State == JobState \cup {"absent"}

Op(c) == Program[c][call[c]].op
Units(c) == Program[c][call[c]].units
Exists(u) == desired[u] # "absent"

\* A settled or an unsettled registry: agents have not yet done all they should.
\* CurrentState of a global unit is never set.
Init ==
  /\ desired \in [Unit -> State]
  /\ current \in [Unit -> State]
  /\ \A u \in Unit : current[u] = "absent" <=> desired[u] = "absent"
  /\ \A u \in Global : current[u] \in {"absent", "inactive"}
  /\ call = [c \in Caller |-> 1]
  /\ pc = [c \in Caller |-> "begin"]
  /\ todo = [c \in Caller |-> {}]
  /\ seen = [c \in Caller |-> [u \in Unit |-> [desired |-> "absent", current |-> "absent"]]]
  /\ busy = [c \in Caller |-> None]
  /\ attempts = [c \in Caller |-> 0]
  /\ await = [c \in Caller |-> {}]
  /\ checking = [c \in Caller |-> {}]
  /\ polls = [c \in Caller |-> [u \in Unit |-> 0]]
  /\ opFailed = [c \in Caller |-> FALSE]
  /\ warned = [c \in Caller |-> FALSE]
  /\ missed = [c \in Caller |-> {}]
  /\ lost = 0

Goto(c, to) == pc' = [pc EXCEPT ![c] = to]

\* n requests get no answer, within the bound.
Lose(n) == lost + n <= MaxLost /\ lost' = lost + n

\* The call returns to its caller, which goes on after success and after a Stop.
Return(c, ok) ==
  /\ IF ok \/ Op(c) = "stop"
     THEN /\ call' = IF call[c] < Len(Program[c]) THEN [call EXCEPT ![c] = @ + 1] ELSE call
          /\ Goto(c, IF call[c] < Len(Program[c]) THEN "begin" ELSE "done")
     ELSE Goto(c, "failed") /\ UNCHANGED call
  /\ warned' = [warned EXCEPT ![c] = IF Op(c) = "stop" THEN ~ok ELSE @]
  /\ todo' = [todo EXCEPT ![c] = {}]
  /\ await' = [await EXCEPT ![c] = {}]
  /\ opFailed' = [opFailed EXCEPT ![c] = FALSE]
  /\ busy' = [busy EXCEPT ![c] = None]

-----------------------------------------------------------------------------
(* The beginning of a call, and its loop over the units.                   *)

Begin(c) ==
  /\ pc[c] = "begin"
  /\ Goto(c, CASE Op(c) = "stop" -> "find"
               [] Op(c) = "destroy" -> "destroy"
               [] Op(c) = "start" -> "create")
  /\ todo' = [todo EXCEPT ![c] = IF Op(c) = "stop" THEN {} ELSE Units(c)]
  /\ UNCHANGED <<registry, call, seen, busy, attempts, waitVars, opFailed, history, lost>>

\* Mutant: a unit that is not found stays on the list.
FindAllUnits(c) ==
  /\ pc[c] = "find"
  /\ seen' = [seen EXCEPT ![c] = [u \in Unit |-> [desired |-> desired[u], current |-> current[u]]]]
  /\ todo' = [todo EXCEPT ![c] = Units(c)]
  /\ Goto(c, "stop")
  /\ UNCHANGED <<registry, call, busy, attempts, waitVars, opFailed, history, lost>>

\* findUnits: one reading of the whole registry.
FindUnits(c) ==
  /\ pc[c] = "find"
  /\ seen' = [seen EXCEPT ![c] = [u \in Unit |-> [desired |-> desired[u], current |-> current[u]]]]
  /\ todo' = [todo EXCEPT ![c] = {u \in Units(c) : Exists(u)}]
  /\ Goto(c, "stop")
  /\ UNCHANGED <<registry, call, busy, attempts, waitVars, opFailed, history, lost>>

\* Units() and, in setTargetStateOfUnits, Unit() are not retried.
ReadFails(c) ==
  /\ \/ pc[c] = "find"
     \/ pc[c] = "start" /\ busy[c] = None /\ todo[c] # {}
  /\ Lose(1)
  /\ Return(c, FALSE)
  /\ UNCHANGED <<registry, seen, attempts, checking, polls, missed>>

\* unitExists is retried until the back-off gives up.
ExistsFails(c) ==
  /\ pc[c] = "create" /\ busy[c] = None /\ todo[c] # {}
  /\ Lose(MaxAttempts)
  /\ Return(c, FALSE)
  /\ UNCHANGED <<registry, seen, attempts, checking, polls, missed>>

\* Stop decides by what findUnits returned.
Refuses(c, u) == u \notin Global /\ seen[c][u].current = "inactive"

\* Mutant: DesiredState is looked at, as Start does.
SkipsStopByTarget(c, u) == u \notin Global /\ seen[c][u].desired = "loaded"

SkipsStop(c, u) == u \notin Global /\ seen[c][u].current = "loaded"

\* A unit that needs no request.
Skip(c, u) ==
  /\ busy[c] = None /\ u \in todo[c]
  /\ \/ pc[c] = "stop" /\ SkipsStop(c, u)
     \/ pc[c] = "create" /\ Exists(u)
     \/ pc[c] = "start" /\ desired[u] = "launched"
  /\ todo' = [todo EXCEPT ![c] = @ \ {u}]
  /\ UNCHANGED <<registry, call, pc, seen, busy, attempts, waitVars, opFailed, history, lost>>

\* A unit that ends the call: Stop of an inactive one, Start of one that is gone.
Refuse(c, u) ==
  /\ busy[c] = None /\ u \in todo[c]
  /\ \/ pc[c] = "stop" /\ Refuses(c, u)
     \/ pc[c] = "start" /\ ~Exists(u)
  /\ Return(c, FALSE)
  /\ UNCHANGED <<registry, seen, attempts, checking, polls, missed, lost>>

\* A unit that needs a request; the request comes later, in steps of its own.
Request(c, u) ==
  /\ busy[c] = None /\ u \in todo[c]
  /\ \/ pc[c] = "stop" /\ ~Refuses(c, u) /\ ~SkipsStop(c, u)
     \/ pc[c] = "create" /\ ~Exists(u)
     \/ pc[c] = "start" /\ desired[u] \in {"inactive", "loaded"}
     \/ pc[c] = "destroy"
  /\ busy' = [busy EXCEPT ![c] = u]
  /\ attempts' = [attempts EXCEPT ![c] = 0]
  /\ UNCHANGED <<registry, call, pc, todo, seen, waitVars, opFailed, history, lost>>

-----------------------------------------------------------------------------
(* A request and its retries.                                              *)

\* What a request is to do to the registry.
Target(c) == CASE pc[c] = "create" -> "inactive"
               [] pc[c] = "stop" -> "loaded"
               [] pc[c] = "start" -> "launched"
               [] pc[c] = "destroy" -> "absent"

\* Mutant: a target that is set already is refused.
ConflictsIfSet(c, u) ==
  \/ pc[c] = "create" /\ Exists(u)
  \/ pc[c] \in {"stop", "start"} /\ (~Exists(u) \/ desired[u] = Target(c))

\* The registry does not create a unit twice, and sets no target for a unit it
\* does not have; a unit that is not there is as good as destroyed.
Conflicts(c, u) ==
  \/ pc[c] = "create" /\ Exists(u)
  \/ pc[c] \in {"stop", "start"} /\ ~Exists(u)

Effect(c, u) ==
  /\ desired' = [desired EXCEPT ![u] = Target(c)]
  /\ current' = [current EXCEPT ![u] =
                   IF pc[c] \in {"create", "destroy"} THEN Target(c) ELSE @]

\* Mutant: one attempt too many.
TryingOnceMore(c) == busy[c] # None /\ attempts[c] <= MaxAttempts

Trying(c) == busy[c] # None /\ attempts[c] < MaxAttempts

\* Mutant: Destroy ends at a unit it does not find.
VisitedOrMissing(c) ==
  /\ todo' = [todo EXCEPT ![c] = IF pc[c] = "destroy" /\ ~Exists(busy[c]) THEN {}
                                ELSE @ \ {busy[c]}]
  /\ busy' = [busy EXCEPT ![c] = None]

\* On to the next unit.
Visited(c) ==
  /\ todo' = [todo EXCEPT ![c] = @ \ {busy[c]}]
  /\ busy' = [busy EXCEPT ![c] = None]

\* The request succeeds.  createUnit starts the goroutine that waits for the unit
\* at once.
Deliver(c) ==
  /\ Trying(c) /\ ~Conflicts(c, busy[c])
  /\ LET u == busy[c]
     IN /\ Effect(c, u)
        /\ await' = [await EXCEPT ![c] =
                      IF pc[c] \in {"stop", "start"} /\ u \notin Global THEN @ \cup {u} ELSE @]
        /\ checking' = [checking EXCEPT ![c] =
                         IF pc[c] = "create" THEN @ \cup {<<u, "inactive">>} ELSE @]
        /\ polls' = [polls EXCEPT ![c][u] = 0]
  /\ Visited(c)
  /\ UNCHANGED <<call, pc, seen, attempts, opFailed, history, lost>>

\* Mutant: the back-off has no limit.
RetryForEver(c) ==
  UNCHANGED <<attempts, call, pc, todo, seen, busy, waitVars, opFailed, warned>>

Retry(c) ==
  /\ attempts' = [attempts EXCEPT ![c] = @ + 1]
  /\ UNCHANGED <<call, pc, todo, seen, busy, waitVars, opFailed, warned>>

\* The attempt ends in an error.  The operation of destroyUnitWithRetry returns
\* the err outside of it, which is nil: the unit passes for destroyed.
Fails(c) ==
  IF pc[c] = "destroy"
  THEN Visited(c) /\ UNCHANGED <<call, pc, seen, attempts, waitVars, opFailed, warned>>
  ELSE Retry(c)

RequestLost(c) ==
  /\ Trying(c)
  /\ Lose(1)
  /\ Fails(c)
  /\ missed' = [missed EXCEPT ![c] = IF pc[c] = "destroy" THEN @ \cup {busy[c]} ELSE @]
  /\ UNCHANGED registry

AnswerLost(c) ==
  /\ Trying(c) /\ ~Conflicts(c, busy[c])
  /\ Effect(c, busy[c])
  /\ Lose(1)
  /\ Fails(c)
  /\ UNCHANGED missed

Conflict(c) ==
  /\ Trying(c) /\ Conflicts(c, busy[c])
  /\ Retry(c)
  /\ UNCHANGED <<registry, missed, lost>>

\* Mutant: Start goes on to the next unit, and drops the error.
GiveUpAndGoOn(c) ==
  /\ busy[c] # None /\ attempts[c] = MaxAttempts
  /\ IF pc[c] = "stop" THEN Return(c, FALSE)
     ELSE Visited(c) /\ UNCHANGED <<call, pc, await, opFailed, warned>>
  /\ UNCHANGED <<registry, seen, attempts, checking, polls, missed, lost>>

\* backoff.Retry returns the last error, and the call with it.
GiveUp(c) ==
  /\ busy[c] # None /\ attempts[c] = MaxAttempts
  /\ Return(c, FALSE)
  /\ UNCHANGED <<registry, seen, attempts, checking, polls, missed, lost>>

-----------------------------------------------------------------------------
(* The end of a loop, and the waiting.                                     *)

\* Mutant: Stop and Start do not wait.
EndLoopAtOnce(c) ==
  /\ pc[c] \in {"stop", "create", "start"} /\ todo[c] = {}
  /\ Goto(c, CASE pc[c] = "stop" -> "waitStop"
               [] pc[c] = "create" -> "waitCreate"
               [] pc[c] = "start" -> "waitStart")
  /\ UNCHANGED <<registry, call, loop, waitVars, opFailed, history, lost>>

EndLoop(c) ==
  /\ pc[c] \in {"stop", "create", "start"} /\ todo[c] = {}
  /\ Goto(c, CASE pc[c] = "stop" -> "waitStop"
               [] pc[c] = "create" -> "waitCreate"
               [] pc[c] = "start" -> "waitStart")
  /\ checking' = [checking EXCEPT ![c] =
       @ \cup (await[c] \X (CASE pc[c] = "stop" -> {"loaded"}
                              [] pc[c] = "start" -> {"launched"}
                              [] pc[c] = "create" -> {}))]
  /\ UNCHANGED <<registry, call, todo, seen, busy, attempts, await, polls, opFailed, history, lost>>

\* Nothing has been added to the aggregate error.
EndDestroy(c) ==
  /\ pc[c] = "destroy" /\ todo[c] = {}
  /\ Return(c, TRUE)
  /\ UNCHANGED <<registry, seen, attempts, checking, polls, missed, lost>>

Waits(c) == pc[c] \in {"waitStop", "waitCreate", "waitStart"}

\* assertUnitState
StateOf(u) == IF u \in Global THEN desired[u] ELSE current[u]

\* A goroutine sees the state it waits for.  It may do so after the call has
\* failed: nothing stops the goroutines of lazyCreateUnits.
Check(c, u, js) ==
  /\ <<u, js>> \in checking[c]
  /\ BlockAttempts = 0 \/ polls[c][u] < BlockAttempts
  /\ StateOf(u) = js
  /\ checking' = [checking EXCEPT ![c] = @ \ {<<u, js>>}]
  /\ UNCHANGED <<registry, call, pc, loop, await, polls, opFailed, history, lost>>

\* It does not, or it cannot read the unit; with BlockAttempts that counts.
CheckAgain(c, u, js) ==
  /\ <<u, js>> \in checking[c]
  /\ polls[c][u] < BlockAttempts
  /\ \/ StateOf(u) # js /\ UNCHANGED lost
     \/ Lose(MaxAttempts)
  /\ polls' = [polls EXCEPT ![c][u] = @ + 1]
  /\ UNCHANGED <<registry, call, pc, loop, await, checking, opFailed, history>>

\* The send on errchan, which only a waiting call receives.
CheckTimesOut(c, u, js) ==
  /\ <<u, js>> \in checking[c]
  /\ BlockAttempts > 0 /\ polls[c][u] = BlockAttempts
  /\ Waits(c)
  /\ checking' = [checking EXCEPT ![c] = @ \ {<<u, js>>}]
  /\ opFailed' = [opFailed EXCEPT ![c] = TRUE]
  /\ UNCHANGED <<registry, call, pc, loop, await, polls, history, lost>>

\* All goroutines are done and errchan is closed.
Join(c) ==
  /\ Waits(c) /\ checking[c] = {}
  /\ IF pc[c] = "waitCreate" /\ ~opFailed[c]
     THEN /\ Goto(c, "start")
          /\ todo' = [todo EXCEPT ![c] = Units(c)]
          /\ UNCHANGED <<call, busy, await, opFailed, warned>>
     ELSE Return(c, ~opFailed[c])
  /\ UNCHANGED <<registry, seen, attempts, checking, polls, missed, lost>>

-----------------------------------------------------------------------------
\* The agents bring a unit to the state that is desired.
Reconcile(u) ==
  /\ u \notin Global /\ current[u] # desired[u]
  /\ current' = [current EXCEPT ![u] = desired[u]]
  /\ UNCHANGED <<desired, call, pc, loop, waitVars, opFailed, history, lost>>

Ended(c) == pc[c] \in {"done", "failed"}
Terminated == (\A c \in Caller : Ended(c)) /\ UNCHANGED vars

Working(c) ==
  \/ Begin(c) \/ FindUnits(c) \/ EndLoop(c) \/ EndDestroy(c) \/ Join(c)
  \/ \E u \in Unit : Skip(c, u) \/ Refuse(c, u) \/ Request(c, u)
  \/ Deliver(c) \/ Conflict(c) \/ GiveUp(c)

Losing(c) == ReadFails(c) \/ ExistsFails(c) \/ RequestLost(c) \/ AnswerLost(c)

Checking(c, u, js) == Check(c, u, js) \/ CheckAgain(c, u, js) \/ CheckTimesOut(c, u, js)

Next ==
  \/ \E c \in Caller : Working(c) \/ Losing(c)
  \/ \E c \in Caller, u \in Unit, js \in JobState : Checking(c, u, js)
  \/ \E u \in Unit : Reconcile(u)
  \/ Terminated

Spec == Init /\ [][Next]_vars

\* Callers and goroutines run on, and agents do what is desired.
FairSpec ==
  /\ Spec
  /\ \A c \in Caller : WF_vars(Working(c))
  /\ \A c \in Caller, u \in Unit, js \in JobState : WF_vars(Checking(c, u, js))
  /\ \A u \in Unit : WF_vars(Reconcile(u))

-----------------------------------------------------------------------------
\* Every variable has its type.
TypeOK ==
  /\ desired \in [Unit -> State]
  /\ current \in [Unit -> State]
  /\ \A u \in Unit : current[u] = "absent" <=> desired[u] = "absent"
  /\ pc \in [Caller -> {"begin", "find", "stop", "destroy", "create", "start", "waitStop",
                       "waitCreate", "waitStart", "done", "failed"}]
  /\ call \in [Caller -> Nat]
  /\ \A c \in Caller : call[c] \in 1..Len(Program[c])
  /\ todo \in [Caller -> SUBSET Unit]
  /\ seen \in [Caller -> [Unit -> [desired : State, current : State]]]
  /\ busy \in [Caller -> Unit \cup {None}]
  /\ attempts \in [Caller -> 0..MaxAttempts]
  /\ await \in [Caller -> SUBSET Unit]
  /\ checking \in [Caller -> SUBSET (Unit \X JobState)]
  /\ polls \in [Caller -> [Unit -> 0..BlockAttempts]]
  /\ opFailed \in [Caller -> BOOLEAN]
  /\ warned \in [Caller -> BOOLEAN]
  /\ missed \in [Caller -> SUBSET Unit]
  /\ lost \in 0..MaxLost

-----------------------------------------------------------------------------
(* The invariant the safety properties rest on.                            *)

AllUnits(c) == UNION {Program[c][i].units : i \in 1..Len(Program[c])}

\* Nobody else works on the units of the caller.
Own(c) == \A d \in Caller \ {c} : AllUnits(c) \cap AllUnits(d) = {}

\* Only others that start a unit can bring it back.
NobodyStarts(c, u) ==
  \A d \in Caller \ {c} : \A i \in 1..Len(Program[d]) :
    Program[d][i].op = "start" => u \notin Program[d][i].units

\* A caller is in a part of the call it makes, with units of that call left, and
\* it has a request under way only in a loop.
WorkFits(c) ==
  /\ pc[c] \in {"find", "stop", "waitStop"} => Op(c) = "stop"
  /\ pc[c] = "destroy" => Op(c) = "destroy"
  /\ pc[c] \in {"create", "waitCreate", "start", "waitStart"} => Op(c) = "start"
  /\ todo[c] \subseteq Units(c)
  /\ busy[c] # None => busy[c] \in todo[c] /\ pc[c] \in {"stop", "destroy", "create", "start"}

\* What a caller has found or made is there, as long as nobody else works on it,
\* and only lost messages have cost it attempts.
OwnUnitsExist(c) ==
  Own(c) =>
    /\ pc[c] = "stop" => \A u \in todo[c] : Exists(u)
    /\ pc[c] = "create" => \A u \in Units(c) \ todo[c] : Exists(u)
    /\ pc[c] \in {"waitCreate", "start"} => \A u \in Units(c) : Exists(u)
    /\ pc[c] \in {"stop", "start"} /\ busy[c] # None => attempts[c] <= lost

\* What Destroy has visited is gone, unless the request was lost.
VisitedAreGone(c) ==
  pc[c] = "destroy" =>
    \A u \in Units(c) \ todo[c] : NobodyStarts(c, u) => ~Exists(u) \/ u \in missed[c]

\* Only Stop and Start wait for what they have asked for; what Start has visited is
\* to run, and what it waits for runs, has a goroutine, or is given up.
StartedUnitsRun(c) ==
  /\ await[c] \subseteq Units(c) \ Global
  /\ pc[c] \notin {"stop", "waitStop", "start", "waitStart"} => await[c] = {}
  /\ pc[c] = "waitStart" => todo[c] = {}
  /\ Own(c) =>
       /\ pc[c] \in {"start", "waitStart"} =>
            \A u \in Units(c) \ todo[c] : desired[u] = "launched"
       /\ pc[c] = "waitStart" =>
            \A u \in await[c] :
              current[u] = "launched" \/ <<u, "launched">> \in checking[c] \/ opFailed[c]

\* Every caller, through all its calls, with any other callers (fleet_stop.go:28-67,
\* fleet_destroy.go:24-73, fleet_start.go:38-132).
Orderly ==
  \A c \in Caller :
    WorkFits(c) /\ OwnUnitsExist(c) /\ VisitedAreGone(c) /\ StartedUnitsRun(c)

-----------------------------------------------------------------------------
(* Safety.                                                                 *)

\* The call returns without an error.
Succeeds(c) == Own(c) /\ pc'[c] \in {"begin", "done"} /\ pc[c] # "begin"

\* When Start succeeds, each of its units is to run, and those that it has
\* started do run, whatever was lost on the way (fleet_start.go:38-63).
StartKeepsItsWord ==
  [][\A c \in Caller : Succeeds(c) /\ pc[c] = "waitStart" =>
       /\ \A u \in Units(c) : desired[u] = "launched"
       /\ \A u \in await[c] : current[u] = "launched"]_vars

\* Destroy leaves none of its units, also when others destroy some of them at the
\* same time, unless it lost a request to destroy the unit (fleet_destroy.go:24-73).
DestroyLeavesNothing ==
  [][\A c \in Caller : \A u \in Units(c) :
       /\ pc[c] = "destroy" /\ pc'[c] \in {"begin", "done"}
       /\ NobodyStarts(c, u)
       => ~Exists(u) \/ u \in missed[c]]_vars

\* Stop saw the unit loaded but on its way up again: it looks at CurrentState
\* only (fleet_stop.go:43).
SeenRising(c, u) == seen[c][u] = [desired |-> "launched", current |-> "loaded"]

\* Nobody destroys a running unit without stopping it first, unless that Stop
\* returned an error (destroy.go:78-88), or took a rising unit for a stopped one.
StoppedBeforeDestroyed ==
  [][\A c \in Caller : \A u \in Unit \ Global :
       Own(c) /\ busy[c] = u /\ current[u] = "launched" /\ desired'[u] = "absent" =>
         warned[c] \/ SeenRising(c, u)]_vars

\* Start creates all of its units before it starts one, so that none starts
\* without a unit it depends on (fleet_start.go:41-46).
CreatedBeforeStarted ==
  [][\A c \in Caller, u \in Unit :
       Own(c) /\ busy[c] = u /\ desired[u] # "launched" /\ desired'[u] = "launched" =>
         \A v \in Units(c) : Exists(v)]_vars

\* Retrying what has been done succeeds: an attempt to set the target of a unit
\* nobody else works on fails only if a message was lost (fleet.go:88-97).
RetryIsHarmless ==
  \A c \in Caller :
    Own(c) /\ busy[c] # None /\ pc[c] \in {"stop", "start"} => attempts[c] <= lost

\* Every sequence of calls comes to an end.
CallsReturn == \A c \in Caller : <>Ended(c)

-----------------------------------------------------------------------------
(* What the documentation says and the code does not do.                   *)

\* destroyUnitWithRetry "wraps DestroyUnit of the fleet API with a retry"
\* (fleet.go:129): a Destroy that returns nil leaves none of its units.
DestroyKeepsItsWord ==
  [][\A c \in Caller : \A u \in Units(c) :
       Own(c) /\ pc[c] = "destroy" /\ pc'[c] \in {"begin", "done"} => ~Exists(u)]_vars
=============================================================================
