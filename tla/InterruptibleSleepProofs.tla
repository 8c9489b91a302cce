------------------------ MODULE InterruptibleSleepProofs ------------------------
(***************************************************************************)
(* Theorems about the delays of a deployment, for any number of sleepers,  *)
(* calls and signals: the variables keep their types, and as long as one   *)
(* goroutine sleeps at a time, no delay is cut short by the timer of       *)
(* another.                                                                *)
(***************************************************************************)
EXTENDS InterruptibleSleep, TLAPS

-----------------------------------------------------------------------------
(* Types.                                                                  *)

\* The handler never takes more signals than were sent, and only calls that
\* have begun are cut short.
Typed ==
  /\ TypeOK
  /\ pending <= sent
  /\ \A s \in Sleeper : pc[s] # "awake" => calls[s] # 0

LEMMA TypeIsInitial == Init => Typed
  <1> SUFFICES ASSUME Init PROVE Typed
    OBVIOUS
  <1>1. /\ waitID \in Nat /\ stopCounter \in 0..1
        /\ handler \in {"idle", "count", "wake"}
        /\ sent \in 0..MaxSignals /\ pending \in 0..MaxSignals /\ pending <= sent
    BY CallsAssumption DEF Init
  <1>5. waiting \in BOOLEAN /\ exited \in BOOLEAN
    BY Zenon DEF Init
  <1>2. /\ pc \in [Sleeper -> {"awake", "readID", "writeID", "spawned", "asleep",
                               "woken", "clear", "join"}]
        /\ calls \in [Sleeper -> 0..MaxCalls]
        /\ seenID \in [Sleeper -> Nat]
        /\ printer \in [Sleeper -> BOOLEAN]
    BY CallsAssumption DEF Init
  <1>3. /\ timer \in [Timer -> {"none", "new", "sleeping", "checkID", "waking", "done"}]
        /\ origWaitID \in [Timer -> Nat]
        /\ early \subseteq Timer /\ excused \subseteq Timer
    BY DEF Init
  <1>4. \A s \in Sleeper : pc[s] = "awake"
    BY DEF Init
  <1> QED
    BY <1>1, <1>2, <1>3, <1>4, <1>5 DEF Typed, TypeOK

LEMMA TypeIsKept == Typed /\ [Next]_vars => Typed'
  <1> SUFFICES ASSUME Typed, [Next]_vars PROVE Typed'
    OBVIOUS
  <1> USE CallsAssumption DEF Typed, TypeOK
  <1>1. CASE UNCHANGED vars
    BY <1>1 DEF vars, globals, sleepers, timers, signals, history
  <1>2. ASSUME NEW s \in Sleeper, Begin(s) PROVE Typed'
    <2>1. calls[s] + 1 \in 0..MaxCalls
      BY <1>2 DEF Begin
    <2> QED
      BY <1>2, <2>1 DEF Begin, Goto, timers, signals, history
  <1>3. ASSUME NEW s \in Sleeper, ReadID(s) PROVE Typed'
    BY <1>3 DEF ReadID, Goto, globals, timers, signals, history
  <1>4. ASSUME NEW s \in Sleeper, WriteID(s) PROVE Typed'
    <2>1. <<s, calls[s]>> \in Timer
      BY <1>4 DEF WriteID, Goto, Timer, Call
    <2>2. excused' \subseteq Timer
      BY <1>4, <2>1 DEF WriteID
    <2> QED
      BY <1>4, <2>1, <2>2 DEF WriteID, Goto, signals
  <1>5. ASSUME NEW s \in Sleeper, Wait(s) PROVE Typed'
    BY <1>5 DEF Wait, Goto, globals, timers, signals, history
  <1>6. ASSUME NEW s \in Sleeper, ResetCounter(s) PROVE Typed'
    BY <1>6 DEF ResetCounter, Goto, timers, signals, history
  <1>7. ASSUME NEW s \in Sleeper, ClearWaiting(s) PROVE Typed'
    BY <1>7 DEF ClearWaiting, Goto, timers, signals, history
  <1>8. ASSUME NEW s \in Sleeper, Return(s) PROVE Typed'
    BY <1>8 DEF Return, Goto, globals, timers, signals, history
  <1>9. ASSUME NEW s \in Sleeper, PrinterStops(s) PROVE Typed'
    BY <1>9 DEF PrinterStops, globals, timers, signals, history
  <1>10. ASSUME NEW t \in Timer, TimerStarts(t) PROVE Typed'
    BY <1>10 DEF TimerStarts, globals, sleepers, signals, history
  <1>11. ASSUME NEW t \in Timer, TimerEnds(t) PROVE Typed'
    BY <1>11 DEF TimerEnds, globals, sleepers, signals, history
  <1>12. ASSUME NEW t \in Timer, ChecksID(t) PROVE Typed'
    BY <1>12 DEF ChecksID, globals, sleepers, signals, history
  <1>13. ASSUME NEW t \in Timer, TimerWakes(t) PROVE Typed'
    BY <1>13 DEF TimerWakes, Broadcast, globals, signals
  <1>14. CASE Signal
    BY <1>14 DEF Signal, globals, sleepers, timers, history
  <1>15. CASE Receive
    <2>1. \A s \in Sleeper : pc[s] # "awake" => <<s, calls[s]>> \in Timer
      BY DEF Timer, Call
    <2>2. excused' \subseteq Timer
      BY <1>15, <2>1 DEF Receive
    <2> QED
      BY <1>15, <2>2 DEF Receive, globals, sleepers, timers
  <1>16. CASE Count
    <2>1. stopCounter' \in 0..1
      BY <1>16 DEF Count
    <2>2. exited' \in BOOLEAN
      BY <1>16, Zenon DEF Count
    <2> QED
      BY <1>16, <2>1, <2>2 DEF Count, sleepers, timers, history
  <1>17. CASE HandlerWakes
    BY <1>17 DEF HandlerWakes, Broadcast, globals, timers
  <1>18. CASE Forget
    BY <1>18 DEF Forget, sleepers, timers, signals, history
  <1> QED
    BY <1>1, <1>2, <1>3, <1>4, <1>5, <1>6, <1>7, <1>8, <1>9, <1>10, <1>11, <1>12,
       <1>13, <1>14, <1>15, <1>16, <1>17, <1>18
    DEF Next, Sleeping, Timing, Handling

\* The variables of the delays keep their types, whatever goroutines sleep at
\* the same time; the second signal in a row is never counted, it ends the
\* process (wait.go:36-50).
THEOREM TypeCorrect == Spec => []TypeOK
  <1>1. Typed => TypeOK
    BY DEF Typed
  <1> QED
    BY TypeIsInitial, TypeIsKept, <1>1, PTL DEF Spec

-----------------------------------------------------------------------------
(* Who wakes whom.                                                         *)

\* At most one goroutine is in InterruptibleSleep.
OneAtATime == \A s, z \in Sleeper : pc[s] # "awake" /\ pc[z] # "awake" => s = z

\* Nothing can wake s but the timer of its own call.
Quiet(s) ==
  /\ handler = "idle"
  /\ \A t \in Timer \ {<<s, calls[s]>>} :
       /\ timer[t] \notin {"new", "waking"}
       /\ timer[t] \in {"sleeping", "checkID"} => origWaitID[t] < waitID

\* The inductive invariant: a call that nothing excuses is undisturbed from the
\* moment that its waitID is set.
Undisturbed ==
  /\ \A t \in Timer : origWaitID[t] <= waitID
  /\ \A s \in Sleeper : pc[s] = "writeID" => seenID[s] = waitID
  /\ \A s \in Sleeper :
       pc[s] \in {"spawned", "asleep"} /\ <<s, calls[s]>> \notin excused => Quiet(s)
  /\ OnlyOwnTimerWakes

LEMMA UndisturbedAtFirst == Init => Undisturbed
  BY DEF Init, Undisturbed, OnlyOwnTimerWakes, Timer

\* The steps that broadcast wake early only those calls that are excused.
LEMMA BroadcastIsExcused ==
  ASSUME Typed, Undisturbed,
         \/ handler = "wake" /\ timer' = timer
         \/ \E t \in Timer : timer[t] = "waking" /\ timer' = [timer EXCEPT ![t] = "done"],
         Broadcast, excused' = excused
  PROVE  OnlyOwnTimerWakes'
  <1> SUFFICES ASSUME NEW t \in Timer, pc[t[1]] = "asleep", t[2] = calls[t[1]],
                      timer[t] \notin {"waking", "done"}
               PROVE  t \in excused
    BY DEF Undisturbed, OnlyOwnTimerWakes, Broadcast
  <1>1. t[1] \in Sleeper /\ t = <<t[1], calls[t[1]]>>
    BY DEF Timer
  <1>2. ASSUME t \notin excused PROVE FALSE
    <2>1. Quiet(t[1])
      BY <1>1, <1>2 DEF Undisturbed
    <2> QED
      BY <1>1, <2>1 DEF Quiet
  <1> QED
    BY <1>2

LEMMA UndisturbedIsKept ==
  Typed /\ OneAtATime /\ Undisturbed /\ [Next]_vars => Undisturbed'
  <1> SUFFICES ASSUME Typed, OneAtATime, Undisturbed, [Next]_vars PROVE Undisturbed'
    OBVIOUS
  <1> USE DEF Typed, TypeOK, Undisturbed, Quiet, OnlyOwnTimerWakes
  <1>1. CASE UNCHANGED vars
    BY <1>1 DEF vars, globals, sleepers, timers, signals, history
  <1>2. ASSUME NEW s \in Sleeper, Begin(s) PROVE Undisturbed'
    BY <1>2 DEF Begin, Goto, timers, signals, history
  <1>3. ASSUME NEW s \in Sleeper, ReadID(s) PROVE Undisturbed'
    BY <1>3 DEF ReadID, Goto, globals, timers, signals, history
  <1>4. ASSUME NEW s \in Sleeper, WriteID(s) PROVE Undisturbed'
    <2> DEFINE c == <<s, calls[s]>>
    <2>1. waitID' = waitID + 1 /\ origWaitID' = origWaitID
      BY <1>4 DEF WriteID, Goto
    <2>2. \A z \in Sleeper \ {s} : pc'[z] = "awake"
      BY <1>4 DEF WriteID, Goto, OneAtATime
    <2>3. pc'[s] = "spawned"
      BY <1>4 DEF WriteID, Goto
    <2>4. c \notin excused' => Quiet(s)'
      <3> SUFFICES ASSUME c \notin excused' PROVE Quiet(s)'
        OBVIOUS
      <3>1. ~Imminent
        BY <1>4 DEF WriteID
      <3>2. handler' = "idle" /\ calls' = calls
        BY <1>4, <3>1 DEF WriteID, Imminent, signals
      <3>3. \A t \in Timer \ {c} : timer'[t] = timer[t] /\ origWaitID[t] < waitID'
        BY <1>4, <2>1 DEF WriteID
      <3> QED
        BY <2>1, <3>1, <3>2, <3>3 DEF Imminent
    <2>5. early' \subseteq excused'
      BY <1>4 DEF WriteID
    <2>6. \A t \in Timer : origWaitID'[t] <= waitID'
      BY <2>1
    <2> QED
      BY <1>4, <2>2, <2>3, <2>4, <2>5, <2>6 DEF WriteID
  <1>5. ASSUME NEW s \in Sleeper, Wait(s) PROVE Undisturbed'
    BY <1>5 DEF Wait, Goto, globals, timers, signals, history
  <1>6. ASSUME NEW s \in Sleeper, ResetCounter(s) PROVE Undisturbed'
    BY <1>6 DEF ResetCounter, Goto, timers, signals, history
  <1>7. ASSUME NEW s \in Sleeper, ClearWaiting(s) PROVE Undisturbed'
    BY <1>7 DEF ClearWaiting, Goto, timers, signals, history
  <1>8. ASSUME NEW s \in Sleeper, Return(s) PROVE Undisturbed'
    BY <1>8 DEF Return, Goto, globals, timers, signals, history
  <1>9. ASSUME NEW s \in Sleeper, PrinterStops(s) PROVE Undisturbed'
    BY <1>9 DEF PrinterStops, globals, timers, signals, history
  <1>10. ASSUME NEW t \in Timer, TimerStarts(t) PROVE Undisturbed'
    BY <1>10 DEF TimerStarts, globals, sleepers, signals, history
  <1>11. ASSUME NEW t \in Timer, TimerEnds(t) PROVE Undisturbed'
    BY <1>11 DEF TimerEnds, globals, sleepers, signals, history
  <1>12. ASSUME NEW t \in Timer, ChecksID(t) PROVE Undisturbed'
    BY <1>12 DEF ChecksID, globals, sleepers, signals, history
  <1>13. ASSUME NEW t \in Timer, TimerWakes(t) PROVE Undisturbed'
    <2>1. OnlyOwnTimerWakes'
      BY <1>13, BroadcastIsExcused DEF TimerWakes
    <2> QED
      BY <1>13, <2>1 DEF TimerWakes, Broadcast, globals, signals
  <1>14. CASE Signal
    BY <1>14 DEF Signal, globals, sleepers, timers, history
  <1>15. CASE Receive
    <2>1. \A s \in Sleeper : pc[s] # "awake" => <<s, calls[s]>> \in excused'
      BY <1>15 DEF Receive
    <2> QED
      BY <1>15, <2>1 DEF Receive, globals, sleepers, timers
  <1>16. CASE Count
    BY <1>16 DEF Count, sleepers, timers, history
  <1>17. CASE HandlerWakes
    <2>1. OnlyOwnTimerWakes'
      BY <1>17, BroadcastIsExcused DEF HandlerWakes, timers
    <2> QED
      BY <1>17, <2>1 DEF HandlerWakes, Broadcast, globals, timers
  <1>18. CASE Forget
    BY <1>18 DEF Forget, sleepers, timers, signals, history
  <1> QED
    BY <1>1, <1>2, <1>3, <1>4, <1>5, <1>6, <1>7, <1>8, <1>9, <1>10, <1>11, <1>12,
       <1>13, <1>14, <1>15, <1>16, <1>17, <1>18
    DEF Next, Sleeping, Timing, Handling

\* As long as one goroutine sleeps at a time, waitID does what it is for
\* (wait.go:81-83): the timer of a delay that was interrupted never cuts a later
\* one short, and a signal ends the delay it was received in.  With two at a
\* time, both may be given one waitID, and each timer wakes both.
THEOREM OwnTimerTheorem == Spec /\ []OneAtATime => []OnlyOwnTimerWakes
  <1>1. Undisturbed => OnlyOwnTimerWakes
    BY DEF Undisturbed
  <1> QED
    BY TypeIsInitial, TypeIsKept, UndisturbedAtFirst, UndisturbedIsKept, <1>1, PTL DEF Spec
=============================================================================
