------------------------- MODULE MCDoorSensorProbe -------------------------
(***************************************************************************)
(* A small instance of DoorSensorProbe for TLC.                            *)
(***************************************************************************)
EXTENDS DoorSensorProbe

CONSTANTS p1, p2

TwoPolls == {p1, p2}

=============================================================================
