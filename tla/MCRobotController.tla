------------------------- MODULE MCRobotController -------------------------
(***************************************************************************)
(* RobotController on a small instance: one measured pose, interpolations  *)
(* of one step, a history of one frame, and messages that press one chord  *)
(* or several at once.                                                     *)
(***************************************************************************)
EXTENDS RobotController

Chords == {{}, {"start", "L1", "R1", "A"}, {"L1", "R1", "R2", "A"}, {"L1", "R1", "Y"}}
=============================================================================
