--------------------------- MODULE MCReliability ---------------------------
(***************************************************************************)
(* Reliability on small instances.                                         *)
(***************************************************************************)
EXTENDS Reliability

\* The first samples update different instances, the last two the same one.
MCInstanceOf == [s \in 1..MaxSeq |-> IF s < MaxSeq THEN s ELSE MaxSeq - 1]
=============================================================================
