-------------------------- MODULE InterruptibleSleep --------------------------
(***************************************************************************)
(* The delays of a deployment (deployment/wait.go): goroutines that call   *)
(* InterruptibleSleep, the printer and the timer every call starts, and    *)
(* the goroutine that handles signals.  They share waiting, waitID and     *)
(* stopCounter and one condition variable; no lock protects the variables, *)
(* and no broadcast is made under the mutex, which is therefore left out:  *)
(* it is held only while Wait enters and leaves the list of waiters.       *)
(***************************************************************************)
EXTENDS Integers

CONSTANTS
  Sleeper,     \* goroutines that call InterruptibleSleep
  Long,        \* those whose duration outlasts the way to Wait
  MaxCalls,    \* bound on the calls of each sleeper
  MaxSignals   \* bound on the signals the operator sends

ASSUME LongAssumption == Long \subseteq Sleeper
ASSUME CallsAssumption == MaxCalls \in Nat /\ MaxSignals \in Nat

Call == 1..MaxCalls
Timer == Sleeper \X Call

VARIABLES
  waiting, waitID, stopCounter,  \* the globals of wait.go
  pc,         \* where each sleeper is
  calls,      \* how many calls it has begun
  seenID,     \* the waitID it read to increment it
  printer,    \* is the printer of its call running
  timer,      \* the timer goroutine of each call; it can outlive the call
  origWaitID, \* of each timer
  handler,    \* where the signal handler is
  sent, pending, \* signals sent, and still in the channel
  exited,     \* os.Exit(1)
  early,      \* history: calls woken before their own duration was over
  excused     \* history: calls that a signal, or a wake-up already on its way
              \* when their waitID was set, may cut short

globals == <<waiting, waitID, stopCounter>>
sleepers == <<pc, calls, seenID, printer>>
timers == <<timer, origWaitID>>
signals == <<handler, sent, pending, exited>>
history == <<early, excused>>
vars == <<globals, sleepers, timers, signals, history>>

Init ==
  /\ waiting = FALSE /\ waitID = 0 /\ stopCounter = 0
  /\ pc = [s \in Sleeper |-> "awake"]
  /\ calls = [s \in Sleeper |-> 0]
  /\ seenID = [s \in Sleeper |-> 0]
  /\ printer = [s \in Sleeper |-> FALSE]
  /\ timer = [t \in Timer |-> "none"]
  /\ origWaitID = [t \in Timer |-> 0]
  /\ handler = "idle" /\ sent = 0 /\ pending = 0 /\ exited = FALSE
  /\ early = {} /\ excused = {}

Goto(s, from, to) == pc[s] = from /\ pc' = [pc EXCEPT ![s] = to]

-----------------------------------------------------------------------------
(* InterruptibleSleep.                                                     *)

Begin(s) ==
  /\ Goto(s, "awake", "readID")
  /\ calls[s] < MaxCalls
  /\ calls' = [calls EXCEPT ![s] = @ + 1]
  /\ waiting' = TRUE
  /\ UNCHANGED <<waitID, stopCounter, seenID, printer, timers, signals, history>>

\* waitID++ is a read (ReadID) and a write (WriteID).
ReadID(s) ==
  /\ Goto(s, "readID", "writeID")
  /\ seenID' = [seenID EXCEPT ![s] = waitID]
  /\ UNCHANGED <<globals, calls, printer, timers, signals, history>>

\* A wake-up is on its way that does not depend on the next value of waitID.
Imminent == handler # "idle" \/ \E t \in Timer : timer[t] \in {"new", "waking"}

WriteID(s) ==
  /\ Goto(s, "writeID", "spawned")
  /\ waitID' = seenID[s] + 1
  /\ printer' = [printer EXCEPT ![s] = TRUE]
  /\ timer' = [timer EXCEPT ![<<s, calls[s]>>] = "new"]
  /\ excused' = IF Imminent THEN excused \cup {<<s, calls[s]>>} ELSE excused
  /\ UNCHANGED <<waiting, stopCounter, calls, seenID, origWaitID, signals, early>>

\* sleepCond.Wait(): the sleeper is on the list of waiters.
Wait(s) ==
  /\ Goto(s, "spawned", "asleep")
  /\ UNCHANGED <<globals, calls, seenID, printer, timers, signals, history>>

ResetCounter(s) ==
  /\ Goto(s, "woken", "clear")
  /\ stopCounter' = 0
  /\ UNCHANGED <<waiting, waitID, calls, seenID, printer, timers, signals, history>>

\* Mutant: waiting stays set.
KeepWaiting(s) ==
  /\ Goto(s, "clear", "join")
  /\ UNCHANGED <<globals, calls, seenID, printer, timers, signals, history>>

ClearWaiting(s) ==
  /\ Goto(s, "clear", "join")
  /\ waiting' = FALSE
  /\ UNCHANGED <<waitID, stopCounter, calls, seenID, printer, timers, signals, history>>

\* wg.Wait(), and the call returns.
Return(s) ==
  /\ Goto(s, "join", "awake")
  /\ ~printer[s]
  /\ UNCHANGED <<globals, calls, seenID, printer, timers, signals, history>>

\* The printer looks at waiting between two messages.
PrinterStops(s) ==
  /\ printer[s] /\ ~waiting
  /\ printer' = [printer EXCEPT ![s] = FALSE]
  /\ UNCHANGED <<globals, pc, calls, seenID, timers, signals, history>>

-----------------------------------------------------------------------------
(* The timer of a call.                                                    *)

\* sleepCond.Broadcast() wakes every goroutine that waits at this moment.
Broadcast ==
  /\ pc' = [s \in Sleeper |-> IF pc[s] = "asleep" THEN "woken" ELSE pc[s]]
  /\ early' = early \cup {t \in Timer :
                  /\ pc[t[1]] = "asleep" /\ t[2] = calls[t[1]]
                  /\ timer[t] \notin {"waking", "done"}}

TimerStarts(t) ==
  /\ timer[t] = "new"
  /\ timer' = [timer EXCEPT ![t] = "sleeping"]
  /\ origWaitID' = [origWaitID EXCEPT ![t] = waitID]
  /\ UNCHANGED <<globals, sleepers, signals, history>>

\* Its duration is over.  A long one has seen its sleeper reach Wait.
TimerEnds(t) ==
  /\ timer[t] = "sleeping"
  /\ t[1] \in Long /\ t[2] = calls[t[1]] => pc[t[1]] # "spawned"
  /\ timer' = [timer EXCEPT ![t] = IF waiting THEN "checkID" ELSE "done"]
  /\ UNCHANGED <<globals, sleepers, origWaitID, signals, history>>

\* Mutant: waitID is not compared.
ChecksNoID(t) ==
  /\ timer[t] = "checkID"
  /\ timer' = [timer EXCEPT ![t] = "waking"]
  /\ UNCHANGED <<globals, sleepers, origWaitID, signals, history>>

ChecksID(t) ==
  /\ timer[t] = "checkID"
  /\ timer' = [timer EXCEPT ![t] = IF origWaitID[t] = waitID THEN "waking" ELSE "done"]
  /\ UNCHANGED <<globals, sleepers, origWaitID, signals, history>>

TimerWakes(t) ==
  /\ timer[t] = "waking"
  /\ timer' = [timer EXCEPT ![t] = "done"]
  /\ Broadcast
  /\ UNCHANGED <<globals, calls, seenID, printer, origWaitID, signals, excused>>

-----------------------------------------------------------------------------
(* The signal handler.                                                     *)

Signal ==
  /\ sent < MaxSignals
  /\ sent' = sent + 1
  /\ pending' = pending + 1
  /\ UNCHANGED <<globals, sleepers, timers, handler, exited, history>>

\* The handler looks at waiting when it takes a signal from the channel.
Receive ==
  /\ handler = "idle" /\ pending > 0
  /\ pending' = pending - 1
  /\ handler' = IF waiting THEN "wake" ELSE "count"
  /\ excused' = excused \cup {<<s, calls[s]>> : s \in {z \in Sleeper : pc[z] # "awake"}}
  /\ UNCHANGED <<globals, sleepers, timers, sent, exited, early>>

\* Mutant: the second signal is counted like the first.
CountOn ==
  /\ handler = "count"
  /\ handler' = "wake"
  /\ stopCounter' = stopCounter + 1
  /\ UNCHANGED <<waiting, waitID, sleepers, timers, sent, pending, exited, history>>

\* The first signal outside a delay is counted, the second ends the process.
Count ==
  /\ handler = "count"
  /\ handler' = "wake"
  /\ IF stopCounter >= 1
     THEN exited' = TRUE /\ UNCHANGED stopCounter
     ELSE stopCounter' = stopCounter + 1 /\ UNCHANGED exited
  /\ UNCHANGED <<waiting, waitID, sleepers, timers, sent, pending, history>>

HandlerWakes ==
  /\ handler = "wake"
  /\ handler' = "idle"
  /\ Broadcast
  /\ UNCHANGED <<globals, calls, seenID, printer, timers, sent, pending, exited, excused>>

\* Five seconds without a signal.
Forget ==
  /\ handler = "idle" /\ pending = 0
  /\ stopCounter' = 0
  /\ UNCHANGED <<waiting, waitID, sleepers, timers, signals, history>>

-----------------------------------------------------------------------------
Sleeping(s) ==
  \/ ReadID(s) \/ WriteID(s) \/ Wait(s)
  \/ ResetCounter(s) \/ ClearWaiting(s) \/ Return(s)

Timing(t) == TimerStarts(t) \/ TimerEnds(t) \/ ChecksID(t) \/ TimerWakes(t)

Handling == Receive \/ Count \/ HandlerWakes

Next ==
  \/ /\ ~exited
     /\ \/ \E s \in Sleeper : Begin(s) \/ Sleeping(s) \/ PrinterStops(s)
        \/ \E t \in Timer : Timing(t)
        \/ Signal \/ Handling \/ Forget
  \/ exited /\ UNCHANGED vars

Spec == Init /\ [][Next]_vars

\* The Go scheduler runs every goroutine and every duration comes to an end.
\* Nobody has to start a delay, and nobody has to send a signal.
FairSpec ==
  /\ Spec
  /\ \A s \in Sleeper : WF_vars(~exited /\ Sleeping(s))
                        /\ WF_vars(~exited /\ PrinterStops(s))
  /\ \A t \in Timer : WF_vars(~exited /\ Timing(t))
  /\ WF_vars(~exited /\ Handling)

-----------------------------------------------------------------------------
\* Every variable has its type; stopCounter never passes 1.
TypeOK ==
  /\ waiting \in BOOLEAN /\ waitID \in Nat /\ stopCounter \in 0..1
  /\ pc \in [Sleeper -> {"awake", "readID", "writeID", "spawned", "asleep",
                         "woken", "clear", "join"}]
  /\ calls \in [Sleeper -> 0..MaxCalls]
  /\ seenID \in [Sleeper -> Nat]
  /\ printer \in [Sleeper -> BOOLEAN]
  /\ timer \in [Timer -> {"none", "new", "sleeping", "checkID", "waking", "done"}]
  /\ origWaitID \in [Timer -> Nat]
  /\ handler \in {"idle", "count", "wake"}
  /\ sent \in 0..MaxSignals /\ pending \in 0..MaxSignals
  /\ exited \in BOOLEAN
  /\ early \subseteq Timer /\ excused \subseteq Timer

\* "InterruptibleSleep holds execution for a given duration, or until an
\* interrupt signal is received" (wait.go:61): every call returns, unless the
\* process exits.
SleepReturns ==
  \A s \in Sleeper : pc[s] # "awake" ~> pc[s] = "awake" \/ exited

\* A signal ends at most the delay it was received in, and the timer of a delay
\* that was interrupted does not cut a later one short (waitID, wait.go:81-83),
\* but for a wake-up already on its way when the later delay begins.
OnlyOwnTimerWakes == early \subseteq excused
=============================================================================
