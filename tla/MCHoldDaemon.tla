---------------------------- MODULE MCHoldDaemon ----------------------------
(* HoldDaemon for TLC: the batches go2_dashboard/d1_jog/service.py sends.  *)
EXTENDS HoldDaemon, TLC

CONSTANTS p1, p2   \* the poses: one to couple at, one to stream

Msg(fc)    == [fc |-> fc, pose |-> NoPose]
PoseMsg(p) == [fc |-> "pose", pose |-> p]

CoupleAndHold == <<PoseMsg(p1), Msg("couple"), PoseMsg(p1)>>
PoseStream    == <<PoseMsg(p2)>>
Release       == <<Msg("release")>>
CoupleOnly    == <<Msg("couple")>>

MCBatches     == {CoupleAndHold, PoseStream, Release}
MCRaceBatches == {CoupleOnly, PoseStream, Release}
MCLiveBatches == {<<Msg("power")>> \o CoupleAndHold, PoseStream, Release}

Symmetry == Permutations(Handlers)
=============================================================================
