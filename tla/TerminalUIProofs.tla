---------------------------- MODULE TerminalUIProofs ----------------------------
(***************************************************************************)
(* Theorems about the terminal, for every set of goroutines and any number *)
(* of events: the delays behave in it as they do alone, Close comes after  *)
(* all work, and the events of a call are displayed in order.              *)
(***************************************************************************)
EXTENDS TerminalUI, InterruptibleSleepProofs, FiniteSetTheorems

-----------------------------------------------------------------------------
(* Types.                                                                  *)

DeployerAt == {"ask", "asking", "answered", "join", "delay", "delayed", "launch", "start",
               "finish", "close"}
WorkerAt == {"stopping", "stop", "delay", "delayed", "destroying", "destroy", "over"}

\* Only those who call InterruptibleSleep are in a delay.
UITyped ==
  /\ run \in {OnFleet, OnKubernetes}
  /\ at \in [Goroutine -> DeployerAt \cup WorkerAt]
  /\ \A w \in Worker : at[w] \in WorkerAt
  /\ at[run] \in DeployerAt
  /\ \A g \in Goroutine : at[g] = "delayed" => g \in Sleeper
  /\ sink \in {"running", "stopped", "closed"}
  /\ events \in [CallOf -> Nat] /\ last \in [CallOf -> Nat]
  /\ hand \in [CallOf -> SUBSET Nat] /\ seen \in [CallOf -> SUBSET Nat]
  /\ outcome \in {"alive", "end", "panic"}

LEMMA Goroutines ==
  /\ OnFleet \in Sleeper \cap Goroutine /\ OnKubernetes \in Sleeper \cap Goroutine
  /\ OnFleet \notin Worker /\ OnKubernetes \notin Worker /\ OnFleet # OnKubernetes
  /\ Worker \subseteq Goroutine
  /\ \A c \in CallOf : /\ c = <<c[1], c[2]>> /\ c[1] \in Goroutine
                       /\ c[2] \in {"stop", "destroy", "start"}
                       /\ c[1] \in Worker <=> c[2] # "start"
  BY WorkerAssumption DEF Goroutine, CallOf

\* What the result of a call makes of the goroutine that made it.
Called(g) ==
  \/ /\ at[g] = "stop" /\ g \in Worker /\ at[run] = "join"
     /\ Go(g, "destroying") \/ (g \in Sleeper /\ Go(g, "delay"))
  \/ at[g] = "destroy" /\ g \in Worker /\ at[run] = "join" /\ Go(g, "over")
  \/ at[g] = "start" /\ g = run /\ (Go(g, "finish") \/ Go(g, "close"))

LEMMA CallsEnd ==
  ASSUME UITyped, NEW g \in Goroutine \cap (Worker \cup {run}), CallSucceeds(g) \/ CallFails(g)
  PROVE  Called(g) /\ <<g, at[g]>> \in CallOf
  <1> PICK ok \in BOOLEAN : AfterCall(g, ok)
    BY DEF CallSucceeds, CallFails
  <1> USE DEF Called
  <1>6. Calling(g)
    BY DEF CallSucceeds, CallFails
  <1>1. <<g, at[g]>> \in CallOf /\ (g = run \/ at[run] = "join")
    BY <1>6 DEF Calling, Active
  <1> SUFFICES Called(g)
    BY <1>1
  <1>2. at[g] \in {"stop", "destroy", "start"} /\ (g \in Worker <=> at[g] # "start")
    BY <1>1, Goroutines
  <1>3. CASE at[g] = "stop"
    <2>1. g \in Worker /\ at[run] = "join"
      BY <1>1, <1>2, <1>3, Goroutines DEF UITyped
    <2>2. AfterStop(g, ok)
      BY <1>3 DEF AfterCall
    <2> QED
      BY <1>3, <2>1, <2>2 DEF AfterStop
  <1>4. CASE at[g] = "destroy"
    <2>1. g \in Worker /\ at[run] = "join"
      BY <1>1, <1>2, <1>4, Goroutines DEF UITyped
    <2> QED
      BY <1>4, <2>1 DEF AfterCall
  <1>5. CASE at[g] = "start"
    BY <1>2, <1>5, Goroutines DEF AfterCall
  <1> QED
    BY <1>1, <1>2, <1>3, <1>4, <1>5

LEMMA UITypeIsInitial == UIInit => UITyped
  <1> SUFFICES ASSUME UIInit PROVE UITyped
    OBVIOUS
  <1>1. at \in [Goroutine -> DeployerAt \cup WorkerAt] /\ run \in {OnFleet, OnKubernetes}
    BY DEF UIInit, DeployerAt, WorkerAt
  <1>2. /\ \A w \in Worker : at[w] = "stopping"
        /\ at[run] = "ask" /\ \A g \in Goroutine : at[g] # "delayed"
    BY Goroutines DEF UIInit
  <1> QED
    BY <1>1, <1>2 DEF UIInit, UITyped, DeployerAt, WorkerAt

LEMMA UITypeIsKept == UITyped /\ [UINext]_allVars => UITyped'
  <1> SUFFICES ASSUME UITyped, [UINext]_allVars PROVE UITyped'
    OBVIOUS
  <1> USE Goroutines DEF UITyped, DeployerAt, WorkerAt, Go
  <1>1. CASE UNCHANGED allVars
    BY <1>1 DEF allVars, uiVars, eventVars
  <1>2. CASE Delays
    BY <1>2 DEF Delays, uiVars, eventVars
  <1>3. CASE Answer
    BY <1>3 DEF Answer, eventVars
  <1>4. CASE Join
    BY <1>4 DEF Join, eventVars
  <1>5. CASE StopSinks \/ CloseSinks \/ Exit
    BY <1>5 DEF StopSinks, CloseSinks, Exit, eventVars
  <1>6. ASSUME NEW g \in Goroutine \cap (Worker \cup {run}), Message(g) PROVE UITyped'
    BY <1>6 DEF Message, Then, eventVars
  <1>7. ASSUME NEW g \in Goroutine \cap (Worker \cup {run}), BeginDelay(g) PROVE UITyped'
    BY <1>7 DEF BeginDelay, eventVars
  <1>8. ASSUME NEW g \in Goroutine \cap (Worker \cup {run}), EndDelay(g) PROVE UITyped'
    BY <1>8 DEF EndDelay, eventVars
  <1>9. ASSUME NEW g \in Goroutine \cap (Worker \cup {run}), CallSucceeds(g) PROVE UITyped'
    <2> DEFINE c == <<g, at[g]>>
    <2>1. c \in CallOf /\ Called(g)
      BY <1>9, CallsEnd
    <2>2. /\ events' \in [CallOf -> Nat] /\ last' \in [CallOf -> Nat]
          /\ seen' \in [CallOf -> SUBSET Nat]
      <3>1. CASE run = OnKubernetes /\ ~Silent(c)
        <4>1. events' = [events EXCEPT ![c] = events[c] + 1] /\ events'[c] \in Nat
          BY <1>9, <2>1, <3>1 DEF CallSucceeds
        <4>2. seen' = [seen EXCEPT ![c] = seen[c] \cup {events'[c]}]
          BY <1>9, <3>1 DEF CallSucceeds
        <4>3. last' = [last EXCEPT ![c] = events'[c]]
          BY <1>9, <3>1 DEF CallSucceeds
        <4> QED
          BY <2>1, <4>1, <4>2, <4>3
      <3>2. CASE ~(run = OnKubernetes /\ ~Silent(c))
        BY <1>9, <3>2 DEF CallSucceeds
      <3> QED
        BY <3>1, <3>2
    <2>3. /\ at' \in [Goroutine -> DeployerAt \cup WorkerAt]
          /\ \A w \in Worker : at'[w] \in WorkerAt
          /\ at'[run] \in DeployerAt
          /\ \A z \in Goroutine : at'[z] = "delayed" => z \in Sleeper
      BY <2>1 DEF Called
    <2> QED
      BY <1>9, <2>2, <2>3 DEF CallSucceeds
  <1>10. ASSUME NEW g \in Goroutine \cap (Worker \cup {run}), CallFails(g) PROVE UITyped'
    <2>1. Called(g)
      BY <1>10, CallsEnd
    <2> QED
      BY <1>10, <2>1 DEF Called, CallFails
  <1>11. ASSUME NEW c \in CallOf, Emit(c) PROVE UITyped'
    BY <1>11 DEF Emit
  <1>12. ASSUME NEW c \in CallOf, PassOn(c) PROVE UITyped'
    BY <1>12 DEF PassOn
  <1>13. ASSUME NEW s \in Sleeper, PrinterSends(s) PROVE UITyped'
    BY <1>13 DEF PrinterSends, eventVars
  <1> QED
    BY <1>1, <1>2, <1>3, <1>4, <1>5, <1>6, <1>7, <1>8, <1>9, <1>10, <1>11, <1>12, <1>13
    DEF UINext, Working, Closing

LEMMA DelaysStep == UITyped /\ [UINext]_allVars => [Next]_vars
  <1> SUFFICES ASSUME UITyped, [UINext]_allVars PROVE [Next]_vars
    OBVIOUS
  <1>1. CASE UNCHANGED vars
    BY <1>1
  <1>2. CASE Alive /\ Delays
    BY <1>2 DEF Alive, Delays, SleepSteps, Next, Sleeping
  <1>3. ASSUME Alive, NEW g \in Goroutine, BeginDelay(g) PROVE Next
    BY <1>3 DEF Alive, BeginDelay, Next
  <1>4. ASSUME Alive, NEW g \in Goroutine, EndDelay(g) PROVE Next
    <2>1. g \in Sleeper
      BY <1>4 DEF EndDelay, UITyped
    <2> QED
      BY <1>4, <2>1 DEF Alive, EndDelay, Next, Sleeping
  <1>5. ASSUME Alive, NEW s \in Sleeper, PrinterSends(s) PROVE [Next]_vars
    BY <1>5 DEF Alive, PrinterSends, Next
  <1> QED
    BY <1>1, <1>2, <1>3, <1>4, <1>5
    DEF UINext, allVars, Working, Closing, Message, Answer, Join, CallSucceeds, CallFails,
        StopSinks, CloseSinks, Exit, Emit, PassOn

\* The terminal is an implementation of the delays: what a deployment does
\* between and around them (when a delay begins, who waits for its end, what is
\* sent to the screen meanwhile) adds no behaviour to InterruptibleSleep.
THEOREM DelaysRefined == UISpec => Spec
  <1>1. UIInit => Init
    BY DEF UIInit
  <1> QED
    BY UITypeIsInitial, UITypeIsKept, DelaysStep, <1>1, PTL DEF UISpec, Spec

\* The variables that the terminal shares with the delays keep their types in it.
THEOREM DelaysTypeCorrect == UISpec => []TypeOK
  BY DelaysRefined, TypeCorrect, PTL

-----------------------------------------------------------------------------
(* Close comes last.                                                       *)

\* The inductive invariant: where the workers can be when the deployer is at each
\* of its places, and who can be in a delay.
Sequence ==
  /\ at[run] \in {"ask", "asking", "answered"} => \A w \in Worker : at[w] = "stopping"
  /\ at[run] \in {"delay", "delayed", "launch", "start", "finish"} =>
       \A w \in Worker : at[w] = "over"
  /\ at[run] = "close" => \A w \in Worker : at[w] \in {"stopping", "over"}
  /\ \A s \in Sleeper : pc[s] # "awake" => s \in Worker \cup {run} /\ at[s] = "delayed"
  /\ \A s \in Sleeper : printer[s] => pc[s] # "awake"
  /\ sink # "running" => at[run] = "close"
  /\ outcome = "panic" => sink = "closed" /\ \E c \in CallOf : hand[c] # {}

LEMMA SequenceAtFirst == UIInit => Sequence
  BY Goroutines DEF UIInit, Init, Sequence

\* While the deployer is elsewhere, a delay goes on, and only a call that has
\* begun gets a printer.
LEMMA DelaysGoOn ==
  ASSUME TypeOK, Delays, NEW s \in Sleeper
  PROVE  /\ pc'[s] # "awake" => pc[s] # "awake"
         /\ pc[s] # "awake" => pc'[s] # "awake"
         /\ printer'[s] => printer[s] \/ pc[s] # "awake"
  <1>1. ASSUME NEW z \in Sleeper, SleepSteps(z)
        PROVE  /\ pc'[s] # "awake" <=> pc[s] # "awake"
               /\ printer'[s] => printer[s] \/ pc[s] # "awake"
    BY <1>1 DEF TypeOK, SleepSteps, ReadID, WriteID, Wait, ResetCounter, ClearWaiting, Goto
  <1>2. ASSUME NEW t \in Timer, Timing(t)
        PROVE  (pc'[s] # "awake" <=> pc[s] # "awake") /\ printer' = printer
    BY <1>2 DEF TypeOK, Timing, TimerStarts, TimerEnds, ChecksID, TimerWakes, Broadcast, sleepers
  <1>3. ASSUME Signal \/ Handling \/ Forget
        PROVE  (pc'[s] # "awake" <=> pc[s] # "awake") /\ printer' = printer
    BY <1>3 DEF TypeOK, Signal, Handling, Forget, Receive, Count, HandlerWakes, Broadcast, sleepers
  <1> QED
    BY <1>1, <1>2, <1>3 DEF Delays

LEMMA SequenceIsKept ==
  TypeOK /\ UITyped /\ Sequence /\ [UINext]_allVars => Sequence'
  <1> SUFFICES ASSUME TypeOK, UITyped, Sequence, [UINext]_allVars PROVE Sequence'
    OBVIOUS
  <1> USE Goroutines DEF Sequence
  <1>1. CASE UNCHANGED allVars
    BY <1>1 DEF allVars, vars, sleepers, uiVars, eventVars
  <1>2. CASE Delays
    BY <1>2, DelaysGoOn DEF Delays, uiVars, eventVars
  <1>3. CASE Answer
    BY <1>3 DEF Answer, Go, UITyped, eventVars, vars, sleepers
  <1>4. CASE Join
    BY <1>4 DEF Join, Go, UITyped, eventVars, vars, sleepers
  <1>5. CASE StopSinks \/ CloseSinks \/ (Alive /\ Exit)
    BY <1>5 DEF StopSinks, CloseSinks, Exit, Alive, eventVars, vars, sleepers
  <1>6. ASSUME NEW g \in Goroutine \cap (Worker \cup {run}), Message(g) PROVE Sequence'
    BY <1>6 DEF Message, Active, Then, Go, UITyped, eventVars, vars, sleepers
  <1>7. ASSUME NEW g \in Goroutine \cap (Worker \cup {run}), BeginDelay(g) PROVE Sequence'
    BY <1>7 DEF BeginDelay, Active, Begin, Goto, Go, UITyped, TypeOK, eventVars
  <1>8. ASSUME NEW g \in Goroutine \cap (Worker \cup {run}), EndDelay(g) PROVE Sequence'
    BY <1>8 DEF EndDelay, Return, Goto, Go, UITyped, TypeOK, eventVars, DeployerAt
  <1>9. ASSUME NEW g \in Goroutine \cap (Worker \cup {run}), CallSucceeds(g) \/ CallFails(g)
        PROVE Sequence'
    <2>1. Called(g)
      BY <1>9, CallsEnd
    <2>2. UNCHANGED <<vars, run, sink, hand, outcome>>
      BY <1>9 DEF CallSucceeds, CallFails
    <2> QED
      BY <2>1, <2>2 DEF Called, Go, UITyped, vars, sleepers
  <1>10. ASSUME Alive, NEW c \in CallOf, Emit(c) PROVE Sequence'
    BY <1>10 DEF Emit, Alive, vars, sleepers
  <1>11. ASSUME Alive, NEW c \in CallOf, PassOn(c) PROVE Sequence'
    BY <1>11 DEF PassOn, Alive, UITyped, vars, sleepers
  <1>12. ASSUME Alive, NEW s \in Sleeper, PrinterSends(s) PROVE Sequence'
    BY <1>12 DEF PrinterSends, PrinterStops, Alive, UITyped, TypeOK, eventVars, vars, sleepers
  <1> QED
    BY <1>1, <1>2, <1>3, <1>4, <1>5, <1>6, <1>7, <1>8, <1>9, <1>10, <1>11, <1>12
    DEF UINext, Working, Closing

\* Close (state_ui.go:74-83) is the last thing a deployer does, also after an error:
\* nothing of the work, no delay and no printer is left, and a panic at the closed
\* channels comes from a late event and from nothing else.
THEOREM CloseComesLast == UISpec => []ClosedAfterWork
  <1>1. UITyped /\ Sequence => ClosedAfterWork
    BY Goroutines DEF UITyped, Sequence, ClosedAfterWork, WorkerAt
  <1> QED
    BY UITypeIsInitial, UITypeIsKept, SequenceAtFirst, SequenceIsKept, DelaysTypeCorrect,
       <1>1, PTL DEF UISpec

\* At most one group of units is destroyed with delays.
OneWorkerSleeps == \A v, w \in Worker \cap Sleeper : v = w

\* When at most one group of units is destroyed with delays, the deployment never
\* sleeps in two goroutines at once, because the deployer's own delay comes after it
\* has waited for the workers: then every delay lasts until its own timer or a signal
\* ends it (wait.go:81-83).
THEOREM DelaysAreTheirOwn ==
  ASSUME OneWorkerSleeps
  PROVE  UISpec => []OnlyOwnTimerWakes
  <1>1. UITyped /\ Sequence => OneAtATime
    BY Goroutines DEF OneWorkerSleeps, UITyped, Sequence, OneAtATime
  <1>2. UISpec => []OneAtATime
    BY UITypeIsInitial, UITypeIsKept, SequenceAtFirst, SequenceIsKept, DelaysTypeCorrect,
       <1>1, PTL DEF UISpec
  <1> QED
    BY <1>2, DelaysRefined, OwnTimerTheorem, PTL

-----------------------------------------------------------------------------
(* The events of a call.                                                   *)

\* The inductive invariant: what was taken and not displayed is in hand, and that is the
\* last event taken, or the one before it when the last one says that the call succeeded;
\* no event comes after that one.
Shown ==
  /\ \A c \in CallOf :
       /\ hand[c] \subseteq 1..events[c]
       /\ seen[c] = (1..events[c]) \ hand[c]
       /\ last[c] = 0 => hand[c] \subseteq {events[c]}
       /\ last[c] # 0 => /\ last[c] = events[c] /\ hand[c] \subseteq {events[c] - 1}
                         /\ at[c[1]] \in {"over", "finish", "close"}
                         /\ run = OnKubernetes
  /\ orphaned # {} => run = OnFleet

LEMMA ShownAtFirst == UIInit => Shown
  BY DEF UIInit, Shown

\* A step that takes and displays no event.
LEMMA OthersShow ==
  ASSUME UITyped, Shown, UNCHANGED <<run, events, hand, seen, last>>,
         orphaned' # {} => run = OnFleet,
         \A g \in Goroutine : at[g] \in {"over", "finish", "close"} =>
                               at'[g] \in {"over", "finish", "close"}
  PROVE  Shown'
  BY Goroutines DEF Shown

LEMMA ShownIsKept == UITyped /\ Shown /\ [UINext]_allVars => Shown'
  <1> SUFFICES ASSUME UITyped, Shown, [UINext]_allVars PROVE Shown'
    OBVIOUS
  <1> DEFINE Done == {"over", "finish", "close"}
             Onward == \A g \in Goroutine : at[g] \in Done => at'[g] \in Done
  <1>1. CASE UNCHANGED allVars \/ Delays \/ StopSinks \/ CloseSinks \/ Exit
    BY <1>1, OthersShow
    DEF Shown, allVars, Delays, StopSinks, CloseSinks, Exit, uiVars, eventVars
  <1>2. CASE Answer \/ Join
    <2>1. Onward
      BY <1>2 DEF Answer, Join, Go, UITyped
    <2> QED
      BY <1>2, <2>1, OthersShow DEF Shown, Answer, Join, eventVars
  <1>3. ASSUME NEW g \in Goroutine \cap (Worker \cup {run}),
               Message(g) \/ BeginDelay(g) \/ EndDelay(g)
        PROVE Shown'
    <2>1. Onward
      BY <1>3 DEF Message, Then, BeginDelay, EndDelay, Go, UITyped
    <2>2. UNCHANGED <<run, eventVars>>
      BY <1>3 DEF Message, BeginDelay, EndDelay
    <2> QED
      BY <2>1, <2>2, OthersShow DEF Shown, eventVars
  <1>4. ASSUME NEW g \in Goroutine \cap (Worker \cup {run}), CallFails(g) PROVE Shown'
    <2>1. Called(g)
      BY <1>4, CallsEnd
    <2>2. Onward
      BY <2>1 DEF Called, Go, UITyped
    <2> QED
      BY <1>4, <2>2, OthersShow DEF Shown, CallFails
  <1>5. ASSUME NEW g \in Goroutine \cap (Worker \cup {run}), CallSucceeds(g) PROVE Shown'
    <2> DEFINE c == <<g, at[g]>>
    <2>1. Called(g) /\ c \in CallOf
      BY <1>5, CallsEnd
    <2>2. Onward
      BY <2>1 DEF Called, Go, UITyped
    <2>3. CASE run = OnKubernetes /\ ~Silent(c)
      <3>1. c \in {<<"obsolete", "destroy">>, <<run, "start">>}
        BY <2>3 DEF Silent
      <3>2. at[g] \notin Done /\ at'[g] \in Done
        <4>1. CASE c = <<run, "start">>
          BY <2>1, <4>1 DEF Called, Go, UITyped
        <4>2. CASE c = <<"obsolete", "destroy">>
          BY <2>1, <4>2 DEF Called, Go, UITyped
        <4> QED
          BY <3>1, <4>1, <4>2
      <3>3. last[c] = 0
        BY <2>1, <3>2, Goroutines DEF Shown
      <3>4. /\ events' = [events EXCEPT ![c] = events[c] + 1]
            /\ seen' = [seen EXCEPT ![c] = seen[c] \cup {events'[c]}]
            /\ last' = [last EXCEPT ![c] = events'[c]]
            /\ hand' = hand /\ run' = run /\ orphaned' = orphaned
        BY <1>5, <2>3 DEF CallSucceeds
      <3>5. ASSUME NEW b \in CallOf, b # c
            PROVE /\ events'[b] = events[b] /\ seen'[b] = seen[b] /\ last'[b] = last[b]
                  /\ at[b[1]] \in Done => at'[b[1]] \in Done
        BY <2>2, <3>4, <3>5, Goroutines DEF UITyped
      <3>6. /\ events[c] \in Nat /\ events'[c] = events[c] + 1
            /\ seen'[c] = seen[c] \cup {events[c] + 1} /\ last'[c] = events[c] + 1
        BY <2>1, <3>4 DEF UITyped
      <3>7. /\ hand[c] \subseteq {events[c]} /\ hand[c] \subseteq 1..events[c]
            /\ seen[c] = (1..events[c]) \ hand[c]
        BY <2>1, <3>3 DEF Shown
      <3>8. seen'[c] = (1..events'[c]) \ hand'[c]
        BY <3>4, <3>6, <3>7
      <3> QED
        BY <2>1, <2>3, <3>2, <3>4, <3>5, <3>6, <3>7, <3>8, Goroutines DEF Shown
    <2>4. CASE ~(run = OnKubernetes /\ ~Silent(c))
      BY <1>5, <2>2, <2>4, OthersShow DEF Shown, CallSucceeds
    <2> QED
      BY <2>3, <2>4
  <1>6. ASSUME NEW c \in CallOf, Emit(c) PROVE Shown'
    <2>1. last[c] = 0
      <3>1. CASE c \in orphaned
        BY <3>1, Goroutines DEF Shown
      <3>2. CASE at[c[1]] = c[2]
        BY <3>2, Goroutines DEF Shown
      <3> QED
        BY <1>6, <3>1, <3>2 DEF Emit
    <2>2. events[c] \in Nat /\ hand[c] = {} /\ seen[c] = 1..events[c]
      BY <1>6 DEF Emit, Shown, UITyped
    <2>3. /\ events'[c] = events[c] + 1 /\ hand'[c] = {events[c] + 1}
          /\ \A b \in CallOf \ {c} : events'[b] = events[b] /\ hand'[b] = hand[b]
          /\ UNCHANGED <<run, at, seen, last, orphaned>>
      BY <1>6 DEF Emit, UITyped
    <2> QED
      BY <2>1, <2>2, <2>3 DEF Shown
  <1>7. ASSUME NEW c \in CallOf, PassOn(c) PROVE Shown'
    BY <1>7 DEF PassOn, Shown, UITyped
  <1>8. ASSUME NEW s \in Sleeper, PrinterSends(s) PROVE Shown'
    BY <1>8, OthersShow DEF PrinterSends, eventVars, Shown
  <1> QED
    BY <1>1, <1>2, <1>3, <1>4, <1>5, <1>6, <1>7, <1>8 DEF UINext, Working, Closing

\* The events of a call are displayed in the order they were sent, one goroutine that
\* takes them being enough for that (fleet.go, eventWrapper); on kubernetes the last one
\* may pass the one before it (kubernetes.go:167-184, 223-239), and only that one.
THEOREM EventsComeInOrder == UISpec => []EventsInOrder
  <1>1. UITyped /\ Shown => EventsInOrder
    <2> SUFFICES ASSUME UITyped, Shown, NEW c \in CallOf, NEW e \in seen[c]
                 PROVE  LET late == 1..(e - 1) \ seen[c] IN
                        IF e = last[c] THEN Cardinality(late) <= 1 ELSE late = {}
      BY DEF EventsInOrder
    <2> DEFINE late == 1..(e - 1) \ seen[c]
    <2>1. e \in 1..events[c] /\ events[c] \in Nat /\ e \notin hand[c] /\ late \subseteq hand[c]
      BY DEF UITyped, Shown
    <2>2. CASE e = last[c]
      <3>1. late \subseteq {events[c] - 1}
        BY <2>1, <2>2 DEF Shown
      <3>2. late = {} \/ late = {events[c] - 1}
        BY <3>1
      <3>3. Cardinality(late) <= 1
        <4> HIDE DEF late
        <4>1. Cardinality({}) = 0 /\ Cardinality({events[c] - 1}) = 1
          BY FS_EmptySet, FS_Singleton
        <4> QED
          BY <3>2, <4>1
      <3> QED
        BY <2>2, <3>3
    <2>3. CASE e # last[c]
      BY <2>1, <2>3 DEF Shown, UITyped
    <2> QED
      BY <2>2, <2>3
  <1> QED
    BY UITypeIsInitial, UITypeIsKept, ShownAtFirst, ShownIsKept, <1>1, PTL DEF UISpec
=============================================================================
