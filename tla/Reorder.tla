------------------------------ MODULE Reorder ------------------------------
(***************************************************************************)
(* The reorder administration of Cyclone DDS (nn_reorder, q_radmin.c): the *)
(* samples of one writer that wait for an earlier one.                     *)
(*                                                                         *)
(* The source keeps a tree of disjoint intervals of sequence numbers, each *)
(* with a chain of the samples and gaps that made it, and counts the chain *)
(* elements in n_samples.  Here                                            *)
(*   next    is next_seq, the first number not delivered yet;              *)
(*   cover   is the union of the intervals, which are its maximal runs;    *)
(*   samples are the samples of the chains, and                            *)
(*   gaps    the chain elements that are a gap, by their first number.     *)
(* Memory never runs out and the delivery queue is never full (samples are *)
(* delivered synchronously, the default).                                  *)
(***************************************************************************)
EXTENDS Naturals, FiniteSets

CONSTANT MaxSamples     \* max_samples: primary_ and secondary_reorder_maxsamples

ASSUME MaxSamplesAssumption == MaxSamples \in Nat \ {0}

Empty == [next |-> 1, cover |-> {}, samples |-> {}, gaps |-> {}]

Reorders(S) == [next : S, cover : SUBSET S, samples : SUBSET S, gaps : SUBSET S]

Least(S) == CHOOSE s \in S : \A t \in S : s <= t
Greatest(S) == CHOOSE s \in S : \A t \in S : t <= s

\* The end of the interval that s lies in or starts: the first number from s
\* on that is not in c.
RunEnd(c, s) ==
  CHOOSE e \in {s} \cup {t + 1 : t \in c} :
    s <= e /\ e \notin c /\ s..(e - 1) \subseteq c

Elements(r) == r.samples \cup r.gaps
Full(r) == Cardinality(Elements(r)) >= MaxSamples

\* Everything before e is delivered or given up.
Advance(r, e) ==
  [next |-> e,
   cover |-> {s \in r.cover : e <= s},
   samples |-> {s \in r.samples : e <= s},
   gaps |-> {s \in r.gaps : e <= s}]

\* delete_last_sample: the last element goes, with its interval when it is the
\* only one in it; otherwise the interval loses its last number only.
DeleteLast(r) ==
  LET last == Greatest(Elements(r))
      interval == {s \in r.cover : s..Greatest(r.cover) \subseteq r.cover}
      lost == IF Elements(r) \cap interval = {last}
              THEN interval ELSE {Greatest(r.cover)}
  IN  [r EXCEPT !.cover = @ \ lost, !.samples = @ \ {last}, !.gaps = @ \ {last}]

\* A new element is kept; when there is no room the last one makes way.
Insert(r, r1) == IF Full(r) THEN DeleteLast(r1) ELSE r1

BeyondEnd(r, s) == \A t \in r.cover : t < s

(***************************************************************************)
(* nn_reorder_rsample: a sample arrives.  The next one is delivered with   *)
(* the interval that follows it; one that is too old, known already, or at *)
(* the end of a full buffer is thrown away.                                *)
(***************************************************************************)
Sample(r, s) ==
  IF s = r.next THEN Advance(r, RunEnd(r.cover \cup {s}, s))
  ELSE IF s < r.next \/ s \in r.cover \/ (BeyondEnd(r, s) /\ Full(r)) THEN r
  ELSE Insert(r, [r EXCEPT !.cover = @ \cup {s}, !.samples = @ \cup {s}])

(***************************************************************************)
(* nn_reorder_gap: the numbers a..b-1 will not come.  A gap that reaches   *)
(* next delivers what follows it; one that touches an interval extends and *)
(* joins intervals; another is an element of its own.                      *)
(***************************************************************************)
Gap(r, a, b) ==
  LET grown == r.cover \cup (a..(b - 1))
  IN  IF b <= r.next THEN r
      ELSE IF a <= r.next THEN Advance(r, RunEnd(grown, a))
      ELSE IF r.cover \cap ((a - 1)..b) # {} THEN [r EXCEPT !.cover = grown]
      ELSE IF Full(r) /\ BeyondEnd(r, a) THEN r
      ELSE Insert(r, [r EXCEPT !.cover = grown, !.gaps = @ \cup {a}])

\* Mutant of Chain: a sample that is too old is not told apart.
ChainOld(r, r1, S) == {s \in r.samples \cup S : s < r1.next}

\* The chain handed to the readers when r became r1 and S came in.
Chain(r, r1, S) == {s \in r.samples \cup S : r.next <= s /\ s < r1.next}

(***************************************************************************)
(* nn_reorder_nackmap: of the numbers up to last, at most MaxSamples from  *)
(* next on are looked at (the bitmap), and those in no interval asked for. *)
(***************************************************************************)
BitmapEnd(r, last) ==
  IF last < r.next THEN r.next
  ELSE IF last < r.next + MaxSamples THEN last + 1 ELSE r.next + MaxSamples
Missing(r, last) == (r.next..(BitmapEnd(r, last) - 1)) \ r.cover
=============================================================================
