--------------------------- MODULE ReorderProofs ---------------------------
(***************************************************************************)
(* Lemmas about the reorder administration: what a run of numbers is, and  *)
(* what a sample and a gap do to a buffer that has room.                   *)
(***************************************************************************)
EXTENDS Reorder, TLAPS, FiniteSetTheorems, WellFoundedInduction

-----------------------------------------------------------------------------
(* Least and greatest numbers, runs.                                       *)

\* A nonempty finite family of sets has a member with no other inside it.
LEMMA Innermost ==
  ASSUME NEW S, IsFiniteSet(S), NEW F, F \subseteq SUBSET S, F # {}
  PROVE  \E A \in F : \A B \in F : B \subseteq A => B = A
<1> DEFINE R == StrictSubsetOrdering(S)
<1>1. IsWellFoundedOn(R, SUBSET S)
  BY FS_StrictSubsetOrderingWellFounded, FS_FiniteSubsetsOfFinite
<1>2. PICK A \in F : \A B \in F : ~(<<B, A>> \in R)
  <2> HIDE DEF R
  <2>1. QED  BY <1>1, WFMin
<1>3. ASSUME NEW B \in F, B \subseteq A, B # A  PROVE FALSE
  <2>1. <<B, A>> \in R  BY <1>3 DEF StrictSubsetOrdering
  <2>2. QED  BY <1>2, <2>1
<1>4. QED  BY <1>2, <1>3

\* A nonempty set of numbers has a least one,
LEMMA LeastOf ==
  ASSUME NEW S, S \subseteq Nat, S # {}
  PROVE  Least(S) \in S /\ \A t \in S : Least(S) <= t
<1>1. PICK n \in S : TRUE  OBVIOUS
<1> DEFINE upto(x) == {y \in S : y <= x}
           F == {upto(x) : x \in upto(n)}
<1>2. IsFiniteSet(0..n)  BY FS_Interval
<1>3. F \subseteq SUBSET (0..n) /\ F # {}
  <2>1. n \in Nat /\ n \in upto(n)  BY <1>1
  <2>2. ASSUME NEW x \in upto(n)  PROVE upto(x) \subseteq 0..n
    <3>1. ASSUME NEW y \in S, y <= x  PROVE y \in 0..n
      <4>1. x \in Nat /\ x <= n /\ y \in Nat  OBVIOUS
      <4>2. QED  BY <2>1, <3>1, <4>1
    <3>2. QED  BY <3>1
  <2>3. QED  BY <2>1, <2>2
<1>4. PICK A \in F : \A B \in F : B \subseteq A => B = A
  <2> DEFINE I == 0..n
  <2>1. IsFiniteSet(I) /\ F \subseteq SUBSET I /\ F # {}  BY <1>2, <1>3
  <2> HIDE DEF F, I
  <2>2. QED  BY <2>1, Innermost
<1>5. PICK x \in upto(n) : A = upto(x)  BY <1>4
<1>6. ASSUME NEW y \in S, y < x  PROVE FALSE
  <2>1. x \in Nat /\ y \in Nat /\ n \in Nat /\ x <= n  BY <1>1, <1>5
  <2>2. y \in upto(n) /\ upto(y) \in F  BY <1>6, <2>1
  <2>3. upto(y) \subseteq A
    <3>1. ASSUME NEW z \in S, z <= y  PROVE z <= x  BY <1>6, <2>1, <3>1
    <3>2. upto(y) \subseteq upto(x)  BY <3>1
    <3>3. QED  BY <1>5, <3>2
  <2>4. x \in A  BY <1>5, <2>1
  <2>5. x \notin upto(y)  BY <1>6, <2>1
  <2>6. QED  BY <1>4, <2>2, <2>3, <2>4, <2>5
<1>7. \A t \in S : x <= t
  <2>1. \A t \in S : ~(t < x)  BY <1>6
  <2>2. QED  BY <1>5, <2>1
<1>8. QED  BY <1>5, <1>7 DEF Least

\* and a greatest one if it is bounded.
LEMMA GreatestOf ==
  ASSUME NEW S, S \subseteq Nat, S # {}, NEW b \in Nat, \A t \in S : t <= b
  PROVE  Greatest(S) \in S /\ \A t \in S : t <= Greatest(S)
<1> DEFINE T == {b - t : t \in S}
<1>1. T \subseteq Nat /\ T # {}
  <2>1. \A t \in S : b - t \in Nat  OBVIOUS
  <2>2. QED  BY <2>1
<1>2. PICK n \in T : \A u \in T : n <= u  BY <1>1, LeastOf
<1>3. PICK x \in S : n = b - x  BY <1>2
<1>4. ASSUME NEW t \in S  PROVE t <= x
  <2>1. b - x <= b - t  BY <1>2, <1>3
  <2>2. QED  BY <1>3, <2>1
<1>5. QED  BY <1>3, <1>4 DEF Greatest

\* A run ends, just behind its last number.
LEMMA RunEndOf ==
  ASSUME NEW c, c \subseteq Nat, NEW b \in Nat, \A t \in c : t <= b, NEW s \in Nat
  PROVE  /\ RunEnd(c, s) \in Nat
         /\ RunEnd(c, s) \in {s} \cup {t + 1 : t \in c}
         /\ s <= RunEnd(c, s) /\ RunEnd(c, s) \notin c
         /\ s..(RunEnd(c, s) - 1) \subseteq c
<1> DEFINE out == {e \in Nat : s <= e /\ e \notin c}
           e == Least(out)
<1>1. out \subseteq Nat /\ out # {}
  <2>1. CASE s > b  BY <2>1
  <2>2. CASE s <= b
    <3>1. b + 1 \in out  BY <2>2
    <3>2. QED  BY <3>1
  <2>3. QED  BY <2>1, <2>2
<1>2. e \in out /\ \A t \in out : e <= t
  <2> HIDE DEF out
  <2>1. QED  BY <1>1, LeastOf
<1>3. s..(e - 1) \subseteq c
  <2>1. ASSUME NEW t \in s..(e - 1), t \notin c  PROVE FALSE
    <3>1. t \in out /\ t < e  BY <1>2, <2>1
    <3>2. QED  BY <1>2, <3>1
  <2>2. QED  BY <2>1
<1>4. e \in {s} \cup {t + 1 : t \in c}
  <2>1. CASE e = s  BY <2>1
  <2>2. CASE e # s
    <3>1. e - 1 \in c /\ e = (e - 1) + 1  BY <1>2, <1>3, <2>2
    <3>2. QED  BY <3>1
  <2>3. QED  BY <2>1, <2>2
<1>5. \E x \in {s} \cup {t + 1 : t \in c} : s <= x /\ x \notin c /\ s..(x - 1) \subseteq c
  BY <1>2, <1>3, <1>4
<1>6. /\ RunEnd(c, s) \in {s} \cup {t + 1 : t \in c}
      /\ s <= RunEnd(c, s) /\ RunEnd(c, s) \notin c
      /\ s..(RunEnd(c, s) - 1) \subseteq c
  BY <1>5 DEF RunEnd
<1>7. QED  BY <1>6

\* There is one end.
LEMMA RunEndIs ==
  ASSUME NEW c, c \subseteq Nat, NEW b \in Nat, \A t \in c : t <= b, NEW s \in Nat,
         NEW e \in Nat, s <= e, e \notin c, s..(e - 1) \subseteq c
  PROVE  RunEnd(c, s) = e
<1> DEFINE x == RunEnd(c, s)
<1>1. x \in Nat /\ s <= x /\ x \notin c /\ s..(x - 1) \subseteq c  BY RunEndOf
<1> HIDE DEF x
<1>2. CASE x < e
  <2>1. x \in s..(e - 1)  BY <1>1, <1>2
  <2>2. QED  BY <1>1, <2>1
<1>3. CASE e < x
  <2>1. e \in s..(x - 1)  BY <1>1, <1>3
  <2>2. QED  BY <2>1, <1>1
<1>4. x = e  BY <1>1, <1>2, <1>3
<1>5. QED  BY <1>4 DEF x
-----------------------------------------------------------------------------
(* A buffer that never overflowed: samples only, all of them up to top.    *)

Buffer(n, c) == [next |-> n, cover |-> c, samples |-> c, gaps |-> {}]

Ordered(r, top) ==
  /\ r = Buffer(r.next, r.cover)
  /\ r.next \in 1..(top + 1)
  /\ r.cover \subseteq (r.next + 1)..top

\* The parts of such a buffer.
LEMMA BufferParts ==
  ASSUME NEW n, NEW c
  PROVE  /\ Buffer(n, c).next = n /\ Buffer(n, c).cover = c
         /\ Buffer(n, c).samples = c /\ Buffer(n, c).gaps = {}
BY DEF Buffer

\* The numbers from s to e are delivered from r, which becomes r1.
Delivers(r, s, r1, e, top) ==
  /\ s < e /\ e <= top + 1
  /\ e \notin r.cover /\ (s + 1)..(e - 1) \subseteq r.cover
  /\ r1.next = e /\ r1.cover = {x \in r.cover : e <= x}
  /\ Ordered(r1, top)
  /\ Chain(r, r1, {s}) = s..(e - 1)

\* The next sample is delivered with the run that follows it.
LEMMA SampleNext ==
  ASSUME NEW r, NEW top \in Nat, Ordered(r, top), NEW s \in Nat, s = r.next, s <= top
  PROVE  \E e \in Nat : Delivers(r, s, Sample(r, s), e, top)
<1> DEFINE c == r.cover \cup {s}
           e == RunEnd(c, s)
           r1 == Sample(r, s)
<1>1. /\ s \in Nat /\ 1 <= s /\ r.cover \subseteq (s + 1)..top
      /\ r.samples = r.cover /\ r.gaps = {}
  BY BufferParts DEF Ordered
<1>2. c \subseteq Nat /\ \A t \in c : t <= top  BY <1>1
<1>3. /\ e \in Nat /\ e \in {s} \cup {t + 1 : t \in c}
      /\ s <= e /\ e \notin c /\ s..(e - 1) \subseteq c
  BY <1>1, <1>2, RunEndOf
<1> HIDE DEF e
<1>4. s < e /\ e <= top + 1 /\ e \notin r.cover  BY <1>1, <1>2, <1>3
<1>5. (s + 1)..(e - 1) \subseteq r.cover
  <2>1. ASSUME NEW t \in (s + 1)..(e - 1)  PROVE t \in r.cover
    <3>1. t \in s..(e - 1) /\ t # s  BY <1>1, <1>3
    <3>2. QED  BY <1>3, <3>1
  <2>2. QED  BY <2>1
<1>6. r1 = Buffer(e, {x \in r.cover : e <= x})
  BY <1>1 DEF Sample, Advance, Buffer, e
<1>7. r1.next = e /\ r1.cover = {x \in r.cover : e <= x}
  BY <1>6, BufferParts
<1>8. Ordered(r1, top)
  <2>1. {x \in r.cover : e <= x} \subseteq (e + 1)..top  BY <1>1, <1>3, <1>4
  <2>2. e \in 1..(top + 1)  BY <1>1, <1>3, <1>4
  <2>3. QED  BY <1>6, <1>7, <2>1, <2>2 DEF Ordered
<1>9. Chain(r, r1, {s}) = s..(e - 1)
  <2>1. Chain(r, r1, {s}) = {x \in c : s <= x /\ x < e}
    BY <1>1, <1>7 DEF Chain
  <2>2. \A x \in c : x \in Nat  BY <1>2
  <2>3. {x \in c : s <= x /\ x < e} = s..(e - 1)
    BY <1>1, <1>3, <2>2
  <2>4. QED  BY <2>1, <2>3
<1> HIDE DEF r1
<1>10. Delivers(r, s, r1, e, top)  BY <1>4, <1>5, <1>7, <1>8, <1>9 DEF Delivers
<1>11. QED  BY <1>3, <1>10 DEF r1

\* One that is delivered or known already changes nothing.
LEMMA SampleOld ==
  ASSUME NEW r, NEW top \in Nat, Ordered(r, top), NEW s \in Nat,
         s < r.next \/ s \in r.cover
  PROVE  Sample(r, s) = r /\ Chain(r, Sample(r, s), {s}) = {}
<1>1. r.next \in Nat /\ r.samples = r.cover /\ r.cover \subseteq (r.next + 1)..top
  BY BufferParts DEF Ordered
<1>2. s # r.next  BY <1>1
<1>3. Sample(r, s) = r  BY <1>1, <1>2 DEF Sample
<1>4. \A x \in r.samples \cup {s} : ~(r.next <= x /\ x < r.next)  BY <1>1
<1>5. QED  BY <1>3, <1>4 DEF Chain

\* Another is kept: there is room for it.
LEMMA SampleLater ==
  ASSUME NEW r, NEW top \in Nat, Ordered(r, top), top <= r.next + MaxSamples,
         NEW s \in (r.next + 1)..top, s \notin r.cover
  PROVE  /\ Sample(r, s).next = r.next /\ Sample(r, s).cover = r.cover \cup {s}
         /\ Ordered(Sample(r, s), top)
         /\ Chain(r, Sample(r, s), {s}) = {}
<1>1. /\ r.next \in Nat /\ 1 <= r.next /\ r.next <= top + 1
      /\ r.cover \subseteq (r.next + 1)..top
      /\ r.samples = r.cover /\ r.gaps = {} /\ r = Buffer(r.next, r.cover)
  BY BufferParts DEF Ordered
<1>2. ~Full(r)
  <2> DEFINE I == (r.next + 1)..top
  <2>1. IsFiniteSet(I) /\ Cardinality(I) = top - r.next
    <3> DEFINE a == r.next + 1
    <3>1. a \in Int /\ top \in Int /\ a <= top /\ top - r.next = top - a + 1  BY <1>1
    <3> HIDE DEF a
    <3>2. IsFiniteSet(a..top) /\ Cardinality(a..top) = top - a + 1
      BY <3>1, FS_Interval
    <3>3. QED  BY <3>1, <3>2 DEF a
  <2>2. IsFiniteSet(I \ {s}) /\ Cardinality(I \ {s}) = top - r.next - 1
    BY <2>1, FS_RemoveElement
  <2>3. r.cover \subseteq I \ {s}  BY <1>1
  <2>4. Cardinality(r.cover) <= Cardinality(I \ {s})  BY <2>2, <2>3, FS_Subset
  <2>5. IsFiniteSet(r.cover) /\ Cardinality(r.cover) \in Nat
    BY <2>2, <2>3, FS_Subset, FS_CardinalityType
  <2>6. Elements(r) = r.cover  BY <1>1 DEF Elements
  <2>7. QED  BY <1>1, <2>2, <2>4, <2>5, <2>6, MaxSamplesAssumption DEF Full
<1>3. Sample(r, s) = [r EXCEPT !.cover = @ \cup {s}, !.samples = @ \cup {s}]
  BY <1>1, <1>2 DEF Sample, Insert
<1>4. Sample(r, s) = Buffer(r.next, r.cover \cup {s})
  BY <1>1, <1>3 DEF Buffer
<1>5. Ordered(Sample(r, s), top)
  BY <1>1, <1>4, BufferParts DEF Ordered
<1>6. Chain(r, Sample(r, s), {s}) = {}
  <2>1. Sample(r, s).next = r.next  BY <1>4, BufferParts
  <2>2. \A x \in r.samples \cup {s} : ~(r.next <= x /\ x < r.next)  BY <1>1
  <2>3. QED  BY <2>1, <2>2 DEF Chain
<1>7. Sample(r, s).next = r.next /\ Sample(r, s).cover = r.cover \cup {s}
  BY <1>4, BufferParts
<1>8. QED  BY <1>5, <1>6, <1>7

\* Whatever comes, what is delivered is the run from next on.
LEMMA SampleAny ==
  ASSUME NEW r, NEW top \in Nat, Ordered(r, top), top <= r.next + MaxSamples,
         NEW s \in 1..top
  PROVE  /\ Ordered(Sample(r, s), top) /\ r.next <= Sample(r, s).next
         /\ Chain(r, Sample(r, s), {s}) = r.next..(Sample(r, s).next - 1)
<1> DEFINE r1 == Sample(r, s)
           chain == Chain(r, r1, {s})
<1>1. r.next \in Nat /\ s \in Nat /\ s <= top  BY DEF Ordered
<1>2. r.next..(r.next - 1) = {}  BY <1>1
<1>3. CASE s = r.next
  <2>1. PICK e \in Nat : Delivers(r, s, r1, e, top)  BY <1>1, <1>3, SampleNext
  <2>2. s < e /\ r1.next = e /\ Ordered(r1, top) /\ chain = s..(e - 1)
    BY <2>1 DEF Delivers
  <2> HIDE DEF r1, chain
  <2>3. Ordered(r1, top) /\ r.next <= r1.next /\ chain = r.next..(r1.next - 1)
    BY <1>1, <1>3, <2>2
  <2>4. QED  BY <2>3 DEF r1, chain
<1>4. CASE s < r.next \/ s \in r.cover
  <2>1. r1 = r /\ chain = {}  BY <1>1, <1>4, SampleOld
  <2> HIDE DEF r1, chain
  <2>2. Ordered(r1, top) /\ r.next <= r1.next /\ chain = r.next..(r1.next - 1)
    BY <1>1, <1>2, <2>1
  <2>3. QED  BY <2>2 DEF r1, chain
<1>5. CASE ~(s < r.next \/ s \in r.cover) /\ s # r.next
  <2>1. s \in (r.next + 1)..top /\ s \notin r.cover  BY <1>1, <1>5
  <2>2. r1.next = r.next /\ Ordered(r1, top) /\ chain = {}  BY <2>1, SampleLater
  <2> HIDE DEF r1, chain
  <2>3. Ordered(r1, top) /\ r.next <= r1.next /\ chain = r.next..(r1.next - 1)
    BY <1>1, <1>2, <2>2
  <2>4. QED  BY <2>3 DEF r1, chain
<1>6. QED  BY <1>3, <1>4, <1>5

(***************************************************************************)
(* Two buffers that are told of the same samples: the second is behind,    *)
(* and holds what the first one holds.                                     *)
(***************************************************************************)
Follows(s, p, top) ==
  /\ Ordered(p, top) /\ Ordered(s, top)
  /\ s.next <= p.next
  /\ p.cover = {x \in s.cover : p.next <= x}

\* When they have delivered as much they are the same.
LEMMA FollowsSame ==
  ASSUME NEW s, NEW p, NEW top \in Nat, Follows(s, p, top), s.next = p.next
  PROVE  s = p
<1>1. /\ s = Buffer(s.next, s.cover) /\ p = Buffer(p.next, p.cover)
      /\ s.next \in Nat /\ s.cover \subseteq (s.next + 1)..top
      /\ p.cover = {x \in s.cover : p.next <= x}
  BY DEF Follows, Ordered
<1>2. \A x \in s.cover : p.next <= x  BY <1>1
<1>3. p.cover = s.cover  BY <1>1, <1>2
<1>4. QED  BY <1>1, <1>3

\* The second stays behind,
LEMMA FollowsSample ==
  ASSUME NEW s, NEW p, NEW top \in Nat, Follows(s, p, top),
         top <= s.next + MaxSamples, NEW x \in 1..top
  PROVE  /\ Follows(Sample(s, x), Sample(p, x), top)
         /\ s.next = p.next => Sample(s, x).next = Sample(p, x).next
<1> DEFINE s1 == Sample(s, x)
           p1 == Sample(p, x)
<1>1. /\ s.next \in Nat /\ p.next \in Nat /\ s.next <= p.next
      /\ s.cover \subseteq (s.next + 1)..top /\ p.cover \subseteq (p.next + 1)..top
      /\ p.cover = {y \in s.cover : p.next <= y}
      /\ Ordered(s, top) /\ Ordered(p, top)
  BY DEF Follows, Ordered
<1>2. top <= p.next + MaxSamples /\ x \in Nat /\ x <= top  BY <1>1, MaxSamplesAssumption
<1>3. Ordered(s1, top) /\ Ordered(p1, top) /\ s.next <= s1.next /\ p.next <= p1.next
  BY <1>1, <1>2, SampleAny
<1>4. s1.next \in Nat /\ p1.next \in Nat /\ s1.cover \subseteq Nat
      /\ s1.cover \subseteq (s1.next + 1)..top
  BY <1>3 DEF Ordered
<1>5. p.next \notin s.cover  BY <1>1
<1>6. CASE s.next = p.next
  <2>1. s = p  BY <1>6, FollowsSame
  <2>2. s1.cover = {y \in s1.cover : s1.next <= y}
    <3>1. \A y \in s1.cover : s1.next <= y  BY <1>4
    <3>2. QED  BY <3>1
  <2>3. s1 = p1  BY <2>1
  <2>4. QED  BY <1>3, <1>4, <2>2, <2>3 DEF Follows
<1>7. CASE s.next # p.next
  <2>1. s.next < p.next  BY <1>1, <1>7
  <2>2. CASE x < s.next \/ x \in s.cover
    <3>1. x < p.next \/ x \in p.cover  BY <1>1, <2>2
    <3>2. s1 = s /\ p1 = p  BY <1>1, <1>2, <2>2, <3>1, SampleOld
    <3>3. QED  BY <3>2, <1>7
  <2>3. CASE x = s.next
    <3>1. p1 = p  BY <1>1, <1>2, <2>1, <2>3, SampleOld
    <3>2. PICK e \in Nat : Delivers(s, x, s1, e, top)
      BY <1>1, <1>2, <2>3, SampleNext
    <3>3. /\ s1.next = e /\ s1.cover = {y \in s.cover : e <= y}
          /\ (x + 1)..(e - 1) \subseteq s.cover
      BY <3>2 DEF Delivers
    <3>4. e <= p.next
      <4>1. CASE p.next < e
        <5>1. p.next \in (x + 1)..(e - 1)  BY <1>1, <2>1, <2>3, <4>1
        <5>2. QED  BY <1>5, <3>3, <5>1
      <4>2. QED  BY <1>1, <3>2, <4>1
    <3>5. p.cover = {y \in s1.cover : p.next <= y}
      <4>1. \A y \in s.cover : p.next <= y => e <= y  BY <1>1, <3>2, <3>4
      <4>2. QED  BY <1>1, <3>3, <4>1
    <3>6. QED  BY <1>3, <1>7, <3>1, <3>3, <3>4, <3>5 DEF Follows
  <2>4. CASE ~(x < s.next \/ x \in s.cover) /\ x # s.next
    <3>1. x \in (s.next + 1)..top /\ x \notin s.cover /\ x \notin p.cover
      BY <1>1, <2>4
    <3>2. s1.next = s.next /\ s1.cover = s.cover \cup {x}
      BY <1>1, <1>2, <3>1, SampleLater
    <3>3. CASE x < p.next
      <4>1. p1 = p  BY <1>1, <1>2, <3>3, SampleOld
      <4>2. p.cover = {y \in s1.cover : p.next <= y}  BY <1>1, <3>2, <3>3
      <4>3. QED  BY <1>1, <1>3, <1>7, <3>2, <4>1, <4>2 DEF Follows
    <3>4. CASE x = p.next
      <4>1. PICK e \in Nat : Delivers(p, x, p1, e, top)
        BY <1>1, <1>2, <3>4, SampleNext
      <4>2. p.next < e /\ p1.next = e /\ p1.cover = {y \in p.cover : e <= y}
        BY <3>4, <4>1 DEF Delivers
      <4>3. p1.cover = {y \in s1.cover : e <= y}
        <5>1. \A y \in s.cover : e <= y => p.next <= y  BY <1>1, <4>2
        <5>2. ~(e <= x)  BY <3>4, <4>2, <1>1
        <5>3. QED  BY <1>1, <3>2, <4>2, <5>1, <5>2
      <4>4. s1.next <= p1.next  BY <1>1, <3>2, <4>2
      <4>5. QED  BY <1>3, <1>7, <4>2, <4>3, <4>4 DEF Follows
    <3>5. CASE p.next < x
      <4>1. x \in (p.next + 1)..top  BY <1>1, <3>5
      <4>2. p1.next = p.next /\ p1.cover = p.cover \cup {x}
        BY <1>1, <1>2, <3>1, <4>1, SampleLater
      <4>3. p1.cover = {y \in s1.cover : p1.next <= y}
        BY <1>1, <3>2, <3>5, <4>2
      <4>4. QED  BY <1>1, <1>3, <1>7, <3>2, <4>2, <4>3 DEF Follows
    <3>6. QED  BY <1>1, <3>3, <3>4, <3>5
  <2>5. QED  BY <2>2, <2>3, <2>4
<1>8. QED  BY <1>6, <1>7

\* A gap of numbers that are delivered changes nothing.
LEMMA GapOld ==
  ASSUME NEW r, NEW top \in Nat, Ordered(r, top), NEW a, NEW b \in Nat, b <= r.next
  PROVE  Gap(r, a, b) = r /\ Chain(r, Gap(r, a, b), {}) = {}
<1>1. r.next \in Nat /\ r.samples = r.cover /\ r.cover \subseteq (r.next + 1)..top
  BY BufferParts DEF Ordered
<1>2. Gap(r, a, b) = r  BY DEF Gap
<1>3. \A x \in r.samples : ~(r.next <= x /\ x < r.next)  BY <1>1
<1>4. QED  BY <1>2, <1>3 DEF Chain

\* The gap up to n of a new buffer makes it begin there.
LEMMA FirstGap ==
  ASSUME NEW n \in Nat, 1 <= n
  PROVE  Gap(Empty, 1, n) = Buffer(n, {}) /\ Chain(Empty, Gap(Empty, 1, n), {}) = {}
<1>1. CASE n = 1
  BY <1>1 DEF Gap, Empty, Buffer, Chain
<1>2. CASE n > 1
  <2> DEFINE c == 1..(n - 1)
  <2>1. RunEnd(c, 1) = n
    <3>1. c \subseteq Nat /\ (\A t \in c : t <= n) /\ n \notin c /\ 1..(n - 1) \subseteq c
      OBVIOUS
    <3> HIDE DEF c
    <3>2. QED  BY <1>2, <3>1, RunEndIs
  <2>2. Gap(Empty, 1, n) = Advance(Empty, n)
    <3>1. Empty.next = 1 /\ Empty.cover = {}  BY DEF Empty
    <3>2. ~(n <= Empty.next) /\ 1 <= Empty.next  BY <1>2, <3>1
    <3>3. Gap(Empty, 1, n) = Advance(Empty, RunEnd(Empty.cover \cup c, 1))
      BY <3>2 DEF Gap
    <3>4. Empty.cover \cup c = c  BY <3>1
    <3> HIDE DEF c
    <3>5. QED  BY <2>1, <3>3, <3>4
  <2>3. Advance(Empty, n) = Buffer(n, {})  BY DEF Advance, Empty, Buffer
  <2>4. Chain(Empty, Gap(Empty, 1, n), {}) = {}  BY DEF Chain, Empty
  <2>5. QED  BY <2>2, <2>3, <2>4
<1>3. QED  BY <1>1, <1>2
-----------------------------------------------------------------------------
(* Any buffer, with gaps in it or full: what it keeps.                     *)

\* Its numbers end at top.
Fits(r, top) ==
  r \in [next : 1..(top + 1), cover : SUBSET (1..top),
         samples : SUBSET (1..top), gaps : SUBSET (1..top)]

\* Numbers with no hole of c between them.
Joined(c, s, t) == s..t \subseteq c /\ t..s \subseteq c

\* What could be delivered has been, and each interval has an element.
Shaped(r) ==
  /\ Elements(r) \subseteq r.cover
  /\ \A s \in r.cover : r.next < s /\ \E e \in Elements(r) : Joined(r.cover, s, e)

WellKept(r) == Shaped(r) /\ Cardinality(Elements(r)) <= MaxSamples

\* What is joined to something is joined to what that is joined to.
LEMMA JoinedVia ==
  ASSUME NEW c, NEW x \in Nat, NEW y \in Nat, NEW z \in Nat,
         Joined(c, x, y), Joined(c, y, z)
  PROVE  Joined(c, x, z)
<1>1. ASSUME NEW t \in x..z  PROVE t \in c
  <2>1. t \in x..y \/ t \in y..z  BY <1>1
  <2>2. QED  BY <2>1 DEF Joined
<1>2. ASSUME NEW t \in z..x  PROVE t \in c
  <2>1. t \in y..x \/ t \in z..y  BY <1>2
  <2>2. QED  BY <2>1 DEF Joined
<1>3. QED  BY <1>1, <1>2 DEF Joined

\* A number is joined to itself.
LEMMA JoinedSelf ==
  ASSUME NEW c, NEW x \in c, x \in Nat
  PROVE  Joined(c, x, x)
BY DEF Joined

\* The elements of a buffer are finitely many numbers.
LEMMA FewElements ==
  ASSUME NEW r, NEW top \in Nat, Fits(r, top)
  PROVE  /\ r.next \in Nat /\ 1 <= r.next /\ r.next <= top + 1
         /\ r.cover \subseteq 1..top /\ r.cover \subseteq Nat
         /\ Elements(r) \subseteq 1..top
         /\ IsFiniteSet(Elements(r)) /\ Cardinality(Elements(r)) \in Nat
<1>1. Elements(r) \subseteq 1..top  BY DEF Fits, Elements
<1>2. IsFiniteSet(1..top)
  <2>1. 1 \in Int /\ top \in Int  OBVIOUS
  <2>2. QED  BY <2>1, FS_Interval
<1>3. IsFiniteSet(Elements(r)) /\ Cardinality(Elements(r)) \in Nat
  BY <1>1, <1>2, FS_Subset, FS_CardinalityType
<1>4. QED  BY <1>1, <1>3 DEF Fits

\* A new buffer is well kept.
LEMMA EmptyKept ==
  ASSUME NEW top \in Nat
  PROVE  Fits(Empty, top) /\ WellKept(Empty)
<1>1. Elements(Empty) = {} /\ Empty.cover = {}  BY DEF Elements, Empty
<1>2. 1 \in 1..(top + 1)  OBVIOUS
<1>3. Fits(Empty, top)  BY <1>2 DEF Fits, Empty
<1>4. QED
  BY <1>1, <1>3, FS_EmptySet, MaxSamplesAssumption DEF WellKept, Shaped

\* Delivering up to a number that is not there takes whole intervals.
LEMMA AdvanceKept ==
  ASSUME NEW r, NEW top \in Nat, Fits(r, top), WellKept(r),
         NEW e \in 1..(top + 1), e \notin r.cover
  PROVE  Fits(Advance(r, e), top) /\ WellKept(Advance(r, e))
<1> DEFINE r1 == Advance(r, e)
<1>1. /\ r1.next = e /\ r1.cover = {s \in r.cover : e <= s}
      /\ Elements(r1) = {s \in Elements(r) : e <= s}
  BY DEF Advance, Elements
<1>2. Fits(r1, top)  BY DEF Advance, Fits
<1> HIDE DEF r1
<1>3. /\ e \in Nat /\ r.cover \subseteq Nat /\ Elements(r) \subseteq r.cover
      /\ IsFiniteSet(Elements(r)) /\ Cardinality(Elements(r)) \in Nat
  BY FewElements DEF WellKept, Shaped
<1>4. Cardinality(Elements(r1)) <= Cardinality(Elements(r)) /\ IsFiniteSet(Elements(r1))
  BY <1>1, <1>3, FS_Subset
<1>5. Cardinality(Elements(r1)) \in Nat  BY <1>4, FS_CardinalityType
<1>6. ASSUME NEW s \in r1.cover
      PROVE  r1.next < s /\ \E x \in Elements(r1) : Joined(r1.cover, s, x)
  <2>1. s \in r.cover /\ s \in Nat /\ e < s  BY <1>1, <1>3
  <2>2. PICK x \in Elements(r) : Joined(r.cover, s, x)
    BY <2>1 DEF WellKept, Shaped
  <2>3. x \in Nat  BY <1>3
  <2>4. e < x
    <3>1. CASE x <= e
      <4>1. e \in x..s  BY <1>3, <2>1, <2>3, <3>1
      <4>2. QED  BY <2>2, <4>1 DEF Joined
    <3>2. QED  BY <1>3, <2>3, <3>1
  <2>5. Joined(r1.cover, s, x)
    <3>1. \A t \in s..x : e <= t  BY <1>3, <2>1, <2>3
    <3>2. \A t \in x..s : e <= t  BY <1>3, <2>3, <2>4, <2>1
    <3>3. QED  BY <1>1, <2>2, <3>1, <3>2 DEF Joined
  <2>6. x \in Elements(r1)  BY <1>1, <1>3, <2>3, <2>4
  <2>7. QED  BY <1>1, <2>1, <2>5, <2>6
<1>7. Shaped(r1)  BY <1>1, <1>3, <1>6 DEF Shaped
<1>8. WellKept(r1)
  BY <1>3, <1>4, <1>5, <1>7, MaxSamplesAssumption DEF WellKept
<1>9. QED  BY <1>2, <1>8 DEF r1

\* Deleting the last element makes one less, and no interval is left behind
\* that has none.
LEMMA DeleteLastKept ==
  ASSUME NEW r, NEW top \in Nat, Fits(r, top), Shaped(r), Elements(r) # {}
  PROVE  /\ Fits(DeleteLast(r), top) /\ Shaped(DeleteLast(r))
         /\ Cardinality(Elements(DeleteLast(r))) = Cardinality(Elements(r)) - 1
<1> DEFINE E == Elements(r)
           c == r.cover
           last == Greatest(E)
           g == Greatest(c)
           interval == {s \in c : s..g \subseteq c}
           lost == IF E \cap interval = {last} THEN interval ELSE {g}
           r1 == DeleteLast(r)
<1>1. /\ r.next \in Nat /\ c \subseteq 1..top /\ c \subseteq Nat /\ E \subseteq c
      /\ IsFiniteSet(E) /\ Cardinality(E) \in Nat
  BY FewElements DEF Shaped
<1>2. last \in E /\ \A t \in E : t <= last
  <2>1. E \subseteq Nat /\ E # {} /\ \A t \in E : t <= top  BY <1>1
  <2> HIDE DEF E
  <2>2. QED  BY <2>1, GreatestOf
<1>3. g \in c /\ \A t \in c : t <= g
  <2>1. c # {} /\ \A t \in c : t <= top  BY <1>1, <1>2
  <2> HIDE DEF c
  <2>2. QED  BY <1>1, <2>1, GreatestOf
<1>4. /\ r1.next = r.next /\ r1.cover = c \ lost
      /\ Elements(r1) = E \ {last}
  BY DEF DeleteLast, Elements, Fits
<1>5. Fits(r1, top)  BY DEF DeleteLast, Fits
<1>6. Cardinality(Elements(r1)) = Cardinality(E) - 1
  BY <1>1, <1>2, <1>4, FS_RemoveElement
<1> HIDE DEF E, last, g, r1, c
<1>7. last \in Nat /\ g \in Nat /\ last <= g /\ last \in c
  BY <1>1, <1>2, <1>3
<1>8. last \in interval
  <2>1. PICK x \in E : Joined(c, g, x)  BY <1>3 DEF Shaped, E, c
  <2>2. x \in Nat /\ x <= last /\ x..g \subseteq c  BY <1>1, <1>2, <2>1 DEF Joined
  <2>3. last..g \subseteq c  BY <1>7, <2>2
  <2>4. QED  BY <1>7, <2>3
<1>9. CASE E \cap interval = {last}
  <2>1. r1.cover = c \ interval  BY <1>4, <1>9
  <2>2. Elements(r1) \subseteq r1.cover  BY <1>1, <1>4, <1>9, <2>1
  <2>3. ASSUME NEW s \in r1.cover
        PROVE  r1.next < s /\ \E x \in Elements(r1) : Joined(r1.cover, s, x)
    <3>1. s \in c /\ s \in Nat /\ s \notin interval /\ r1.next < s
      BY <1>1, <1>4, <2>1 DEF Shaped, c
    <3>2. PICK x \in E : Joined(c, s, x)  BY <3>1 DEF Shaped, E, c
    <3>3. ASSUME NEW t \in c, t \in s..x \/ t \in x..s  PROVE t \notin interval
      <4>1. t \in Nat /\ x \in Nat  BY <1>1
      <4>2. Joined(c, s, t)
        <5>1. \A u \in s..t : u \in s..x \/ u \in x..s  BY <3>1, <3>3, <4>1
        <5>2. \A u \in t..s : u \in s..x \/ u \in x..s  BY <3>1, <3>3, <4>1
        <5>3. QED  BY <3>2, <5>1, <5>2 DEF Joined
      <4>3. ASSUME t..g \subseteq c  PROVE s..g \subseteq c
        <5>1. \A u \in s..g : u \in s..t \/ u \in t..g  BY <1>7, <3>1, <4>1
        <5>2. QED  BY <4>2, <4>3, <5>1 DEF Joined
      <4>4. QED  BY <3>1, <4>3
    <3>4. Joined(r1.cover, s, x)
      BY <2>1, <3>2, <3>3 DEF Joined
    <3>5. x \in r1.cover
      <4>1. x \in Nat /\ x \in c  BY <1>1
      <4>2. x \in s..x \/ x \in x..s  BY <3>1, <4>1
      <4>3. QED  BY <3>4, <4>2 DEF Joined
    <3>6. x # last  BY <1>8, <2>1, <3>5
    <3>7. QED  BY <1>4, <3>1, <3>4, <3>6
  <2>4. QED  BY <1>5, <1>6, <2>2, <2>3 DEF Shaped, r1, E
<1>10. CASE E \cap interval # {last}
  <2>1. r1.cover = c \ {g}  BY <1>4, <1>10
  <2>2. PICK y \in E \cap interval : y # last  BY <1>2, <1>8, <1>10
  <2>3. y \in Nat /\ y < last /\ y..g \subseteq c  BY <1>1, <1>2, <1>7, <2>2
  <2>4. Elements(r1) \subseteq r1.cover
    <3>1. \A x \in E : x # last => x # g  BY <1>1, <1>2, <1>7
    <3>2. QED  BY <1>1, <1>4, <2>1, <3>1
  <2>5. ASSUME NEW s \in r1.cover
        PROVE  r1.next < s /\ \E x \in Elements(r1) : Joined(r1.cover, s, x)
    <3>1. s \in c /\ s \in Nat /\ s < g /\ r1.next < s
      BY <1>1, <1>3, <1>4, <1>7, <2>1 DEF Shaped, c
    <3>2. PICK x \in E : Joined(c, s, x)  BY <3>1 DEF Shaped, E, c
    <3>3. ASSUME NEW z \in E, z # last, Joined(c, s, z)
          PROVE  z \in Elements(r1) /\ Joined(r1.cover, s, z)
      <4>1. z \in Nat /\ z < g  BY <1>1, <1>2, <1>7, <3>3
      <4>2. \A t \in s..z : t # g  BY <3>1, <4>1
      <4>3. \A t \in z..s : t # g  BY <3>1, <4>1
      <4>4. QED  BY <1>4, <2>1, <3>3, <4>2, <4>3 DEF Joined
    <3>4. CASE x # last  BY <3>1, <3>2, <3>3, <3>4
    <3>5. CASE x = last
      <4>1. Joined(c, last, y)
        <5>1. \A t \in last..y : FALSE  BY <1>7, <2>3
        <5>2. \A t \in y..last : t \in y..g  BY <1>7, <2>3
        <5>3. QED  BY <2>3, <5>1, <5>2 DEF Joined
      <4>2. Joined(c, s, y)  BY <1>7, <2>3, <3>1, <3>2, <3>5, <4>1, JoinedVia
      <4>3. QED  BY <2>2, <3>1, <3>3, <4>2
    <3>6. QED  BY <3>4, <3>5
  <2>6. QED  BY <1>5, <1>6, <2>4, <2>5 DEF Shaped, r1, E
<1>11. QED  BY <1>9, <1>10

\* A new element finds its place, full or not.
LEMMA InsertKept ==
  ASSUME NEW r, NEW top \in Nat, Fits(r, top), WellKept(r),
         NEW r1, Fits(r1, top), Shaped(r1), NEW x, Elements(r1) = Elements(r) \cup {x}
  PROVE  Fits(Insert(r, r1), top) /\ WellKept(Insert(r, r1))
<1>1. /\ IsFiniteSet(Elements(r)) /\ Cardinality(Elements(r)) \in Nat
      /\ Cardinality(Elements(r)) <= MaxSamples /\ MaxSamples \in Nat
  BY FewElements, MaxSamplesAssumption DEF WellKept
<1>2. Cardinality(Elements(r1)) \in Nat
      /\ Cardinality(Elements(r1)) <= Cardinality(Elements(r)) + 1
  <2>1. CASE x \in Elements(r)
    <3>1. Elements(r1) = Elements(r)  BY <2>1
    <3>2. QED  BY <1>1, <3>1
  <2>2. CASE x \notin Elements(r)
    <3> DEFINE E == Elements(r)
    <3>1. Cardinality(E \cup {x}) = Cardinality(E) + 1
      <4> HIDE DEF E
      <4>1. IsFiniteSet(E) /\ x \notin E  BY <1>1, <2>2 DEF E
      <4>2. QED  BY <4>1, FS_AddElement
    <3>2. QED  BY <1>1, <3>1
  <2>3. QED  BY <2>1, <2>2
<1>3. CASE Full(r)
  <2>1. Fits(DeleteLast(r1), top) /\ Shaped(DeleteLast(r1))
        /\ Cardinality(Elements(DeleteLast(r1))) = Cardinality(Elements(r1)) - 1
    <3>1. Elements(r1) # {}  OBVIOUS
    <3>2. QED  BY <3>1, DeleteLastKept
  <2>2. QED  BY <1>1, <1>2, <1>3, <2>1 DEF Insert, WellKept
<1>4. CASE ~Full(r)
  BY <1>1, <1>2, <1>4 DEF Insert, WellKept, Full
<1>5. QED  BY <1>3, <1>4

\* A sample that comes leaves the buffer well kept,
LEMMA SampleKept ==
  ASSUME NEW r, NEW top \in Nat, Fits(r, top), WellKept(r), NEW s \in 1..top
  PROVE  Fits(Sample(r, s), top) /\ WellKept(Sample(r, s))
<1>1. /\ s \in Nat /\ r.next \in Nat /\ r.cover \subseteq 1..top /\ r.cover \subseteq Nat
      /\ Elements(r) \subseteq r.cover
  BY FewElements DEF WellKept, Shaped
<1>2. CASE s = r.next
  <2> DEFINE c == r.cover \cup {s}
             e == RunEnd(c, s)
  <2>1. c \subseteq Nat /\ \A t \in c : t <= top  BY <1>1
  <2>2. e \in Nat /\ e \in {s} \cup {t + 1 : t \in c} /\ s <= e /\ e \notin c
    BY <1>1, <2>1, RunEndOf
  <2> HIDE DEF e
  <2>3. e \in 1..(top + 1) /\ e \notin r.cover  BY <1>1, <2>1, <2>2
  <2>4. Sample(r, s) = Advance(r, e)  BY <1>2 DEF Sample, e
  <2>5. QED  BY <2>3, <2>4, AdvanceKept
<1>3. CASE s # r.next /\ (s < r.next \/ s \in r.cover \/ (BeyondEnd(r, s) /\ Full(r)))
  BY <1>3 DEF Sample
<1>4. CASE s # r.next /\ ~(s < r.next \/ s \in r.cover \/ (BeyondEnd(r, s) /\ Full(r)))
  <2> DEFINE r1 == [r EXCEPT !.cover = @ \cup {s}, !.samples = @ \cup {s}]
  <2>1. /\ Sample(r, s) = Insert(r, r1)  BY <1>4 DEF Sample
  <2>2. /\ r1.next = r.next /\ r1.cover = r.cover \cup {s}
        /\ Elements(r1) = Elements(r) \cup {s} /\ Fits(r1, top)
    BY DEF Fits, Elements
  <2> HIDE DEF r1
  <2>3. ASSUME NEW t \in r1.cover
        PROVE  r1.next < t /\ \E x \in Elements(r1) : Joined(r1.cover, t, x)
    <3>1. CASE t = s
      <4>1. Joined(r1.cover, s, s)  BY <1>1, <2>2, JoinedSelf
      <4>2. QED  BY <1>1, <1>4, <2>2, <3>1, <4>1
    <3>2. CASE t \in r.cover
      <4>1. r.next < t /\ \E x \in Elements(r) : Joined(r.cover, t, x)
        BY <3>2 DEF WellKept, Shaped
      <4>2. QED  BY <2>2, <4>1 DEF Joined
    <3>3. QED  BY <2>2, <3>1, <3>2
  <2>4. Shaped(r1)  BY <1>1, <2>2, <2>3 DEF Shaped
  <2>5. QED  BY <2>1, <2>2, <2>4, InsertKept
<1>5. QED  BY <1>2, <1>3, <1>4

\* and so does a gap.
LEMMA GapKept ==
  ASSUME NEW r, NEW top \in Nat, Fits(r, top), WellKept(r),
         NEW a \in 1..top, NEW b \in 1..(top + 1), a < b \/ b = 1
  PROVE  Fits(Gap(r, a, b), top) /\ WellKept(Gap(r, a, b))
<1> DEFINE grown == r.cover \cup (a..(b - 1))
<1>1. /\ a \in Nat /\ b \in Nat /\ r.next \in Nat /\ 1 <= r.next
      /\ r.cover \subseteq 1..top /\ r.cover \subseteq Nat /\ Elements(r) \subseteq r.cover
  BY FewElements DEF WellKept, Shaped
<1>2. a..(b - 1) \subseteq 1..top  BY <1>1
<1>3. CASE b <= r.next  BY <1>3 DEF Gap
<1>4. CASE ~(b <= r.next) /\ a <= r.next
  <2> DEFINE e == RunEnd(grown, a)
  <2>1. grown \subseteq Nat /\ \A t \in grown : t <= top  BY <1>1, <1>2
  <2> HIDE DEF grown
  <2>2. e \in Nat /\ e \in {a} \cup {t + 1 : t \in grown} /\ a <= e /\ e \notin grown
    BY <1>1, <2>1, RunEndOf
  <2> HIDE DEF e
  <2>3. e \in 1..(top + 1) /\ e \notin r.cover  BY <1>1, <2>1, <2>2 DEF grown
  <2>4. Gap(r, a, b) = Advance(r, e)  BY <1>4 DEF Gap, e, grown
  <2>5. QED  BY <2>3, <2>4, AdvanceKept
<1>5. CASE ~(b <= r.next) /\ ~(a <= r.next) /\ r.cover \cap ((a - 1)..b) # {}
  <2> DEFINE r1 == [r EXCEPT !.cover = grown]
  <2>1. Gap(r, a, b) = r1  BY <1>5 DEF Gap
  <2>2. /\ r1.next = r.next /\ r1.cover = r.cover \cup (a..(b - 1))
        /\ Elements(r1) = Elements(r) /\ Fits(r1, top)
    BY <1>2 DEF Fits, Elements
  <2> HIDE DEF r1
  <2>3. ASSUME NEW t \in r.cover  PROVE \E x \in Elements(r1) : Joined(r1.cover, t, x)
    BY <2>2 DEF WellKept, Shaped, Joined
  <2>4. ASSUME NEW t \in a..(b - 1)
        PROVE  r1.next < t /\ \E x \in Elements(r1) : Joined(r1.cover, t, x)
    <3>1. PICK u \in r.cover : u \in (a - 1)..b  BY <1>5
    <3>2. t \in Nat /\ u \in Nat /\ r1.next < t  BY <1>1, <1>5, <2>2
    <3>3. Joined(r1.cover, t, u)
      <4>1. \A v \in t..u : v = u \/ v \in a..(b - 1)  BY <1>1, <3>1, <3>2
      <4>2. \A v \in u..t : v = u \/ v \in a..(b - 1)  BY <1>1, <3>1, <3>2
      <4>3. QED  BY <2>2, <4>1, <4>2 DEF Joined
    <3>4. PICK x \in Elements(r1) : Joined(r1.cover, u, x)  BY <2>3
    <3>5. x \in Nat  BY <1>1, <2>2
    <3>6. Joined(r1.cover, t, x)  BY <3>2, <3>3, <3>4, <3>5, JoinedVia
    <3>7. QED  BY <3>2, <3>6
  <2>5. \A t \in r.cover : r1.next < t  BY <2>2 DEF WellKept, Shaped
  <2>6. Shaped(r1)  BY <1>1, <2>2, <2>3, <2>4, <2>5 DEF Shaped
  <2>7. QED  BY <2>1, <2>2, <2>6 DEF WellKept
<1>6. CASE ~(b <= r.next) /\ ~(a <= r.next) /\ r.cover \cap ((a - 1)..b) = {}
  <2>1. CASE Full(r) /\ BeyondEnd(r, a)  BY <1>6, <2>1 DEF Gap
  <2>2. CASE ~(Full(r) /\ BeyondEnd(r, a))
    <3> DEFINE r1 == [r EXCEPT !.cover = grown, !.gaps = @ \cup {a}]
    <3>1. Gap(r, a, b) = Insert(r, r1)  BY <1>6, <2>2 DEF Gap
    <3>2. /\ r1.next = r.next /\ r1.cover = r.cover \cup (a..(b - 1))
          /\ Elements(r1) = Elements(r) \cup {a} /\ Fits(r1, top)
      BY <1>2 DEF Fits, Elements
    <3> HIDE DEF r1
    <3>3. a \in a..(b - 1)  BY <1>1, <1>6
    <3>4. ASSUME NEW t \in r1.cover
          PROVE  r1.next < t /\ \E x \in Elements(r1) : Joined(r1.cover, t, x)
      <4>1. CASE t \in a..(b - 1)
        <5>1. t \in Nat /\ r1.next < t  BY <1>1, <1>6, <3>2, <4>1
        <5>2. \A v \in t..a : v \in a..(b - 1)  BY <1>1, <4>1
        <5>3. \A v \in a..t : v \in a..(b - 1)  BY <1>1, <4>1
        <5>4. Joined(r1.cover, t, a)  BY <3>2, <5>2, <5>3 DEF Joined
        <5>5. QED  BY <3>2, <5>1, <5>4
      <4>2. CASE t \in r.cover
        <5>1. r.next < t /\ \E x \in Elements(r) : Joined(r.cover, t, x)
          BY <4>2 DEF WellKept, Shaped
        <5>2. QED  BY <3>2, <5>1 DEF Joined
      <4>3. QED  BY <3>2, <4>1, <4>2
    <3>5. Shaped(r1)  BY <1>1, <3>2, <3>3, <3>4 DEF Shaped
    <3>6. QED  BY <3>1, <3>2, <3>5, InsertKept
  <2>3. QED  BY <2>1, <2>2
<1>7. QED  BY <1>3, <1>4, <1>5, <1>6
=============================================================================
