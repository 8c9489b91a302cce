---------------------------- MODULE RollingUpdate ----------------------------
(***************************************************************************)
(* What one run of j2 promises for the units it is responsible for,        *)
(* without saying how: slice after slice, every unit of the current slice  *)
(* and no other is brought to its target, the next slice begins only when  *)
(* that is so, and the run may give up at any time.  Unless units are      *)
(* replaced in place it may fail to notice that one was not removed; only  *)
(* such a unit is ever left short of its target by a run that goes on.     *)
(***************************************************************************)
EXTENDS Integers

CONSTANTS
  Unit,      \* the units the run is responsible for
  Target,    \* Target[u]: the content u is to have, None when it is to go
  SliceOf,   \* SliceOf[u]: the slice that deals with u
  Last,      \* the last slice
  InPlace,   \* units are replaced in place, not removed first
  Content, None

VARIABLES
  have,      \* the content of each unit
  slice,     \* the current slice, 0 before the first
  outcome,   \* "working", "done" or "aborted"
  missed     \* units of which a removal did not happen unnoticed

vars == <<have, slice, outcome, missed>>

Init ==
  /\ have \in [Unit -> Content \cup {None}]
  /\ slice = 0
  /\ outcome = "working"
  /\ missed = {}

Current(u) == outcome = "working" /\ SliceOf[u] = slice

\* A unit that is to stay is away only while its own slice is being updated.
Remove(u) ==
  /\ Current(u)
  /\ have[u] # None
  /\ InPlace => Target[u] = None
  /\ have' = [have EXCEPT ![u] = None]
  /\ UNCHANGED <<slice, outcome, missed>>

Install(u) ==
  /\ Current(u)
  /\ Target[u] # None
  /\ have[u] = None \/ InPlace
  /\ have' = [have EXCEPT ![u] = Target[u]]
  /\ UNCHANGED <<slice, outcome, missed>>

Miss(u) ==
  /\ Current(u) /\ ~InPlace
  /\ missed' = missed \cup {u}
  /\ UNCHANGED <<have, slice, outcome>>

Ready(g) == \A u \in Unit : SliceOf[u] < g => have[u] = Target[u] \/ u \in missed

NextSlice ==
  /\ outcome = "working"
  /\ \E g \in 1..Last : g > slice /\ Ready(g) /\ slice' = g
  /\ UNCHANGED <<have, outcome, missed>>

Finish ==
  /\ outcome = "working"
  /\ \A u \in Unit : have[u] = Target[u] \/ u \in missed
  /\ outcome' = "done"
  /\ slice' = Last
  /\ UNCHANGED <<have, missed>>

Abort ==
  /\ outcome = "working"
  /\ outcome' = "aborted"
  /\ slice' = Last
  /\ UNCHANGED <<have, missed>>

Next ==
  \/ \E u \in Unit : Remove(u) \/ Install(u) \/ Miss(u)
  \/ NextSlice \/ Finish \/ Abort

Spec == Init /\ [][Next]_vars
=============================================================================
