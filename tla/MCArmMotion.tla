---------------------------- MODULE MCArmMotion ----------------------------
(* ArmMotion for TLC: which requests come in.                              *)
EXTENDS ArmMotion, TLC

JogOps     == {"jog", "jogkeep", "jbegin", "jend", "cbegin", "cend", "tcp", "move",
               "maintain", "hold"}
ProgramOps == {"couple", "zero", "move", "run", "hold", "release", "reset"}
LoopOps    == {"move", "run", "hold"}

Symmetry == Permutations(Threads)
=============================================================================
