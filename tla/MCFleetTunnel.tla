--------------------------- MODULE MCFleetTunnel ---------------------------
(***************************************************************************)
(* Instances of FleetTunnel for TLC.                                       *)
(***************************************************************************)
EXTENDS FleetTunnel, TLC

StopOf(us) == [op |-> "stop", units |-> us]
DestroyOf(us) == [op |-> "destroy", units |-> us]
StartOf(us) == [op |-> "start", units |-> us]

\* An update: one unit and one global unit are replaced.
Update == "a" :> <<StopOf({"u1", "g1"}), DestroyOf({"u1", "g1"}), StartOf({"u1", "g1"})>>

\* Two goroutines of destroyUnits: u1 is modified and has failed as well.
UpdateBothAndFailed ==
  "update" :> <<StopOf({"u1", "u2"}), DestroyOf({"u1", "u2"})>>
  @@ "failed" :> <<StopOf({"u1"}), DestroyOf({"u1"})>>

\* destroyUnits with one unit that is modified and has failed as well.
UpdateAndFailed ==
  "update" :> <<StopOf({"u1"}), DestroyOf({"u1"})>>
  @@ "failed" :> <<StopOf({"u1"}), DestroyOf({"u1"})>>
=============================================================================
