------------------------------ MODULE TerminalUI ------------------------------
(***************************************************************************)
(* What the goroutines of a deployment send to the screen: processSinks    *)
(* and Close of deployment/state_ui.go, with those who send.  The deployer *)
(* (Run) and the goroutines of destroyUnits send messages themselves, the  *)
(* printer of a delay (InterruptibleSleep) sends messages until the delay  *)
(* is over, and a goroutine that nobody waits for passes on the events of  *)
(* a call: eventWrapper of scheduler/fleet/fleet.go, and the one of each   *)
(* unit in scheduler/kubernetes/kubernetes.go.  No channel has a buffer:   *)
(* what is sent is taken in the same step.                                 *)
(*                                                                         *)
(* A run of one step is looked at: it asks, removes, waits and starts.     *)
(***************************************************************************)
EXTENDS InterruptibleSleep, FiniteSets, Functions

CONSTANTS
  Worker,     \* the goroutines of destroyUnits
  OnFleet, OnKubernetes,  \* the deployer, by the scheduler it has
  MaxEvents   \* bound on the events of all calls, but for those that end one

ASSUME WorkerAssumption ==
  /\ Worker \subseteq {"update", "failed", "obsolete"}
  /\ {OnFleet, OnKubernetes} \subseteq Sleeper \ Worker
  /\ OnFleet \in Long /\ OnKubernetes \notin Long  \* UpdateDestroyDelay is 0 there
ASSUME EventsAssumption == MaxEvents \in Nat

Goroutine == Worker \cup {OnFleet, OnKubernetes}
CallOf == (Worker \X {"stop", "destroy"}) \cup ({OnFleet, OnKubernetes} \X {"start"})

VARIABLES
  run,       \* the deployer: OnFleet or OnKubernetes
  at,        \* what each goroutine does
  failed,    \* a Destroy returned an error
  sink,      \* processSinks is "running", has "stopped", or the channels are "closed"
  events,    \* by call: the number of events
  hand,      \* by call: the events that its goroutine has taken and not passed on
  seen,      \* by call: the events that were displayed
  last,      \* by call: the event that says it has succeeded (kubernetes), or 0
  orphaned,  \* the calls whose goroutines still check units after they have returned
  outcome    \* the process is "alive", at its "end", or a send was a "panic"

eventVars == <<events, hand, seen, last, orphaned>>
uiVars == <<run, at, failed, sink, eventVars, outcome>>
allVars == <<vars, uiVars>>

UIInit ==
  /\ Init
  /\ run \in {OnFleet, OnKubernetes}
  /\ at = [g \in Goroutine |-> IF g \in Worker THEN "stopping" ELSE "ask"]
  /\ failed = FALSE /\ sink = "running" /\ outcome = "alive"
  /\ events = [c \in CallOf |-> 0]
  /\ hand = [c \in CallOf |-> {}]
  /\ seen = [c \in CallOf |-> {}]
  /\ last = [c \in CallOf |-> 0]
  /\ orphaned = {}

Active(g) == g = run \/ (g \in Worker /\ at[run] = "join")
Go(g, to) == at' = [at EXCEPT ![g] = to]

-----------------------------------------------------------------------------
(* The deployer and the goroutines of destroyUnits.                        *)

\* What a goroutine does after a message.
Then(here) ==
  CASE here = "ask" -> "asking" [] here = "answered" -> "join"
    [] here = "stopping" -> "stop" [] here = "destroying" -> "destroy"
    [] here = "launch" -> "start" [] here = "finish" -> "close"

Message(g) ==
  /\ Active(g) /\ sink = "running"
  /\ at[g] \in {"ask", "answered", "stopping", "destroying", "launch", "finish"}
  /\ Go(g, Then(at[g]))
  /\ UNCHANGED <<vars, run, failed, sink, eventVars, outcome>>

\* Confirm: the operator answers, or the standard input ends.
Answer ==
  /\ at[run] = "asking"
  /\ \E to \in {"ask", "answered", "close"} : Go(run, to)
  /\ UNCHANGED <<vars, run, failed, sink, eventVars, outcome>>

\* Mutant: the first error ends the step.
JoinFirst ==
  /\ at[run] = "join"
  /\ failed \/ \A w \in Worker : at[w] = "over"
  /\ Go(run, IF failed THEN "close" ELSE "delay")
  /\ UNCHANGED <<vars, run, failed, sink, eventVars, outcome>>

\* g.Wait()
Join ==
  /\ at[run] = "join"
  /\ \A w \in Worker : at[w] = "over"
  /\ Go(run, IF failed THEN "close" ELSE "delay")
  /\ UNCHANGED <<vars, run, failed, sink, eventVars, outcome>>

\* The delays: InterruptibleSleep, with its printer.
BeginDelay(g) ==
  /\ Active(g) /\ at[g] = "delay" /\ g \in Sleeper
  /\ Begin(g)
  /\ Go(g, "delayed")
  /\ UNCHANGED <<run, failed, sink, eventVars, outcome>>

EndDelay(g) ==
  /\ at[g] = "delayed"
  /\ Return(g)
  /\ Go(g, IF g = run THEN "launch" ELSE "destroying")
  /\ UNCHANGED <<run, failed, sink, eventVars, outcome>>

-----------------------------------------------------------------------------
(* Calls of the scheduler and their events.                                *)

Calling(g) == Active(g) /\ <<g, at[g]>> \in CallOf
Taken == SumFunction(events) - Cardinality({c \in CallOf : last[c] # 0})

\* Stop of kubernetes does nothing, and its Destroy removes obsolete units only.
Silent(c) == run = OnKubernetes /\ c \notin {<<"obsolete", "destroy">>, <<run, "start">>}

\* Mutant: events are taken at once, each by a goroutine of its own.
EmitAtOnce(c) ==
  /\ (Calling(c[1]) /\ at[c[1]] = c[2]) \/ c \in orphaned
  /\ ~Silent(c) /\ Taken < MaxEvents
  /\ events' = [events EXCEPT ![c] = @ + 1]
  /\ hand' = [hand EXCEPT ![c] = @ \cup {events'[c]}]
  /\ UNCHANGED <<vars, run, at, failed, sink, seen, last, orphaned, outcome>>

\* The channel has no buffer: an event is taken when the one before is passed on.
\* A start that fails leaves the goroutines of checkUnitState, which go on.
Emit(c) ==
  /\ (Calling(c[1]) /\ at[c[1]] = c[2]) \/ c \in orphaned
  /\ ~Silent(c) /\ Taken < MaxEvents /\ hand[c] = {}
  /\ events' = [events EXCEPT ![c] = @ + 1]
  /\ hand' = [hand EXCEPT ![c] = {events'[c]}]
  /\ UNCHANGED <<vars, run, at, failed, sink, seen, last, orphaned, outcome>>

\* The goroutine sends to a channel that Close may have closed.
PassOn(c) ==
  \E e \in hand[c] :
    /\ sink # "stopped"
    /\ IF sink = "closed" THEN outcome' = "panic" /\ UNCHANGED <<hand, seen>>
       ELSE /\ hand' = [hand EXCEPT ![c] = @ \ {e}]
            /\ seen' = [seen EXCEPT ![c] = @ \cup {e}]
            /\ UNCHANGED outcome
    /\ UNCHANGED <<vars, run, at, failed, sink, events, last, orphaned>>

\* An error of Stop is a warning; without one and with global units there is a delay.
AfterStop(g, ok) ==
  Go(g, "destroying") \/ (ok /\ run = OnFleet /\ g \in Sleeper /\ Go(g, "delay"))
AfterCall(g, ok) ==
  CASE at[g] = "stop" -> AfterStop(g, ok) /\ UNCHANGED failed
    [] at[g] = "destroy" -> Go(g, "over") /\ failed' = (failed \/ ~ok)
    [] at[g] = "start" -> Go(g, IF ok THEN "finish" ELSE "close") /\ UNCHANGED failed

CallFails(g) ==
  /\ Calling(g) /\ ~Silent(<<g, at[g]>>)
  /\ AfterCall(g, FALSE)
  /\ orphaned' = IF run = OnFleet /\ at[g] = "start" THEN orphaned \cup {<<g, at[g]>>}
                 ELSE orphaned
  /\ UNCHANGED <<vars, run, sink, events, hand, seen, last, outcome>>

\* On kubernetes the goroutine of the unit sends the last event itself.
CallSucceeds(g) ==
  LET c == <<g, at[g]>> IN
  /\ Calling(g)
  /\ AfterCall(g, TRUE)
  /\ IF run = OnKubernetes /\ ~Silent(c)
     THEN /\ sink = "running"
          /\ events' = [events EXCEPT ![c] = @ + 1]
          /\ seen' = [seen EXCEPT ![c] = @ \cup {events'[c]}]
          /\ last' = [last EXCEPT ![c] = events'[c]]
     ELSE UNCHANGED <<events, seen, last>>
  /\ UNCHANGED <<vars, run, sink, hand, orphaned, outcome>>

-----------------------------------------------------------------------------
(* Close, and the end of the process.                                      *)

\* s.stopChan <- true: processSinks returns.
StopSinks ==
  /\ at[run] = "close" /\ sink = "running"
  /\ sink' = "stopped"
  /\ UNCHANGED <<vars, run, at, failed, eventVars, outcome>>

CloseSinks ==
  /\ sink = "stopped"
  /\ sink' = "closed"
  /\ UNCHANGED <<vars, run, at, failed, eventVars, outcome>>

\* main returns.
Exit ==
  /\ sink = "closed"
  /\ outcome' = "end"
  /\ UNCHANGED <<vars, run, at, failed, sink, eventVars>>

-----------------------------------------------------------------------------
(* The rest of InterruptibleSleep.                                         *)

\* The printer sends a message, to a channel that Close may have closed, and looks at
\* waiting: it stops, or goes on and has changed nothing.
PrinterSends(s) ==
  /\ printer[s] /\ sink # "stopped"
  /\ IF sink = "closed" THEN outcome' = "panic" /\ UNCHANGED vars
     ELSE ~waiting /\ PrinterStops(s) /\ UNCHANGED outcome
  /\ UNCHANGED <<run, at, failed, sink, eventVars>>

SleepSteps(s) == ReadID(s) \/ WriteID(s) \/ Wait(s) \/ ResetCounter(s) \/ ClearWaiting(s)
Delays ==
  /\ \/ \E s \in Sleeper : SleepSteps(s)
     \/ \E t \in Timer : Timing(t)
     \/ Signal \/ Handling \/ Forget
  /\ UNCHANGED uiVars

-----------------------------------------------------------------------------
Alive == outcome = "alive" /\ ~exited

Working(g) == Message(g) \/ BeginDelay(g) \/ EndDelay(g) \/ CallSucceeds(g) \/ CallFails(g)
Closing == Join \/ StopSinks \/ CloseSinks \/ Exit

UINext ==
  \/ /\ Alive
     /\ \/ Delays \/ Answer \/ Closing
        \/ \E g \in Goroutine \cap (Worker \cup {run}) : Working(g)
        \/ \E c \in CallOf : Emit(c) \/ PassOn(c)
        \/ \E s \in Sleeper : PrinterSends(s)
  \/ (~Alive /\ UNCHANGED allVars)

UISpec == UIInit /\ [][UINext]_allVars

\* The Go scheduler runs every goroutine, processSinks takes what is sent, durations and
\* calls come to an end; the operator need not answer.  Apart from those waiting for him, a
\* goroutine has finitely many steps, so that one condition for all of a kind is enough.
UIFairSpec ==
  /\ UISpec
  /\ WF_allVars(Alive /\ (Closing \/ \E g \in Goroutine : Working(g)))
  /\ WF_allVars(Alive /\ \E s \in Sleeper : PrinterSends(s))
  /\ WF_allVars(Alive /\ UNCHANGED uiVars
                /\ (Handling \/ (\E t \in Timer : Timing(t)) \/ \E s \in Sleeper : SleepSteps(s)))

-----------------------------------------------------------------------------
\* Close (state_ui.go:74-83) is called when the deployer is over with its work, also after an
\* error: no call runs then, no delay and no printer, so that the closed channels end the
\* process in no other way than by a late event, and never while units are changed.
ClosedAfterWork ==
  sink # "running" =>
    /\ \A w \in Worker : at[w] \in {"stopping", "over"}
    /\ \A s \in Sleeper : pc[s] = "awake" /\ ~printer[s]
    /\ outcome = "panic" => \E c \in CallOf : hand[c] # {}

\* The events of a call are displayed in the order they were sent, with one exception on
\* kubernetes, where the last one may come before the one that the goroutine of the unit
\* still holds (kubernetes.go:167-184, 223-239): nothing more than one event is ever late.
EventsInOrder ==
  \A c \in CallOf : \A e \in seen[c] :
    LET late == 1..(e - 1) \ seen[c] IN
    IF e = last[c] THEN Cardinality(late) <= 1 ELSE late = {}

\* Whatever the goroutines send to each other, none waits for ever for the screen or for a
\* delay: Run comes to its end unless the operator does not answer, or unless it sleeps for
\* zero seconds, on kubernetes, and the broadcast came before it waited.
RunEnds ==
  \/ <>~Alive
  \/ []<>(at[run] = "asking")
  \/ (run = OnKubernetes /\ <>[](pc[run] = "asleep"))
=============================================================================
