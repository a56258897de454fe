-------------------------- MODULE ReliableChannel --------------------------
(***************************************************************************)
(* What reliable delivery with KEEP_ALL promises: samples are numbered in  *)
(* the order of writing, delivered to the reader once and in that order,   *)
(* and forgotten by the writer only when they were delivered.              *)
(***************************************************************************)
EXTENDS Naturals

CONSTANT Start    \* the last sample written before the reader is matched

VARIABLES
  sent,           \* the samples written since,
  received,       \* those of them delivered to the reader, and
  released        \* those the writer need not keep any more

Init == sent = {} /\ received = {} /\ released = {}

Write ==
  /\ UNCHANGED <<received, released>>
  /\ \E last \in {Start} \cup sent :
       /\ sent = (Start + 1)..last
       /\ sent' = (Start + 1)..(last + 1)

\* The next samples, in one go.
Deliver ==
  /\ UNCHANGED <<sent, released>>
  /\ \E n \in sent \ received : received' = {s \in sent : s <= n}

Release ==
  /\ UNCHANGED <<sent, received>>
  /\ \E n \in received \ released : released' = {s \in received : s <= n}

Next == Write \/ Deliver \/ Release
Spec == Init /\ [][Next]_<<sent, received, released>>
=============================================================================
