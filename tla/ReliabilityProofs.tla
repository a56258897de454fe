------------------------- MODULE ReliabilityProofs -------------------------
(***************************************************************************)
(* With KEEP_ALL, and reorder buffers that hold what the high-water mark    *)
(* lets the writer send, Reliability implements ReliableChannel.            *)
(*                                                                         *)
(* The writer then has at most WhcHigh + 1 samples that are not            *)
(* acknowledged, one of which the reader misses, so no buffer overflows;   *)
(* what the writer gives up in a gap or a heartbeat is acknowledged; and   *)
(* the secondary buffer holds whatever the primary one holds, so that the  *)
(* reader may go over from one to the other.                               *)
(***************************************************************************)
EXTENDS AnySettingsProofs

\* What the theorems assume of the settings.
KeepAll == Depth = 0 /\ WhcHigh <= MaxSamples

-----------------------------------------------------------------------------
(* The inductive invariant.                                                *)

\* The next sample to deliver: the reader out of sync has a buffer of its own.
Frontier == Source.next

\* The cache of the writer is what is not acknowledged.
WriterInv ==
  /\ seq \in Nat /\ rn_seq \in Nat
  /\ Start <= rn_seq /\ rn_seq <= seq /\ seq <= MaxSeq
  /\ whc = (rn_seq + 1)..seq
  /\ seq - rn_seq <= WhcHigh + 1
  /\ seq_xmit \in Start..seq

\* What the writer may send: samples it has written, heartbeats that do not pass
\* over what is not acknowledged, gaps of what is acknowledged.
Sendable ==
  {Data(s) : s \in (Start + 1)..seq}
  \cup {h \in Heartbeats : /\ h.first \in (Start + 1)..(rn_seq + 1)
                           /\ h.first <= h.last + 1 /\ h.last <= seq}
  \cup {g \in Gaps : g.seqs \subseteq 1..rn_seq /\ g.last <= seq}

\* What the reader may acknowledge: what it has delivered.
Honest == {m \in ToWriter : m.base = 1 \/ (have_seen_heartbeat /\ m.base <= Frontier)}

NetworkInv == down \cup packet \subseteq Sendable /\ up \subseteq Honest

\* Before a heartbeat nothing is known.
Unseen ==
  /\ rn_seq = Start /\ in_sync = "OUT_OF_SYNC"
  /\ primary = Empty /\ secondary = Empty /\ gap = {}

\* The secondary buffer, as long as it is used, is behind the primary one, and
\* holds what the primary one holds.
Behind ==
  /\ Follows(secondary, primary, seq) /\ Start < secondary.next
  /\ in_sync = "TLCATCHUP" => secondary.next = primary.next

Seen ==
  /\ rn_seq < Frontier
  /\ Ordered(primary, seq)
  /\ in_sync # "SYNC" => Behind
  /\ gap \subseteq 1..rn_seq

ReaderInv ==
  /\ delivered = (Start + 1)..(Frontier - 1) /\ disordered = {}
  /\ IF have_seen_heartbeat THEN Seen ELSE Unseen

\* The rest of the types.
Typed ==
  /\ {has_replied_to_hb, retransmitting, have_seen_heartbeat, ack_requested,
      acknack_xevent} \subseteq BOOLEAN
  /\ app \in {"idle", "throttled", "packing"}
  /\ (app = "packing") = (packet # {})
  /\ last_seq \in Seqs
  /\ in_sync \in {"OUT_OF_SYNC", "TLCATCHUP", "SYNC"}
  /\ end_of_tl_seq \in 0..MAX_SEQ_NUMBER
  /\ in_sync = "SYNC" => secondary \in Reorders(1..MAX_SEQ_NUMBER)

Inv == WriterInv /\ NetworkInv /\ ReaderInv /\ Typed

-----------------------------------------------------------------------------
(* What the definitions give.                                              *)

\* The counters of the writer are numbers.
LEMMA Counters ==
  ASSUME WriterInv
  PROVE  seq \in Nat /\ rn_seq \in Nat /\ seq_xmit \in Nat /\ Start \in Nat
BY Constants DEF WriterInv

\* A buffer that never overflowed has the type of a buffer.
LEMMA OrderedTyped ==
  ASSUME NEW r, NEW top \in Nat, top <= MaxSeq, Ordered(r, top)
  PROVE  r \in Reorders(1..MAX_SEQ_NUMBER) /\ r.next \in Nat /\ r.samples = r.cover
<1>1. r = [next |-> r.next, cover |-> r.cover, samples |-> r.cover, gaps |-> {}]
  BY DEF Ordered, Buffer
<1>2. r.next \in 1..MAX_SEQ_NUMBER /\ r.cover \subseteq 1..MAX_SEQ_NUMBER /\ r.next \in Nat
  BY Constants DEF Ordered
<1>3. r.samples = r.cover  BY BufferParts DEF Ordered
<1>4. QED  BY <1>1, <1>2, <1>3 DEF Reorders

\* A buffer keeps its order while more is written.
LEMMA OrderedMore ==
  ASSUME NEW r, NEW m \in Nat, NEW n \in Nat, m <= n, Ordered(r, m)
  PROVE  Ordered(r, n)
BY DEF Ordered

Announces(h, k, n) ==
  h \in Heartbeats /\ h.first = k + 1 /\ h.first <= h.last + 1 /\ h.last <= n

\* A heartbeat begins with the first sample not acknowledged.
LEMMA HeartbeatFits ==
  ASSUME NEW k \in Nat, NEW n \in Nat, k <= n, n <= MaxSeq, NEW x \in Nat, NEW b \in BOOLEAN
  PROVE  Announces(HeartbeatOf((k + 1)..n, n, x, b), k, n)
<1> DEFINE c == (k + 1)..n
           h == HeartbeatOf(c, n, x, b)
           first == IF c = {} THEN n + 1 ELSE Least(c)
           last == IF c = {} \/ b \/ x >= n THEN n
                   ELSE IF x >= first THEN x ELSE first - 1
<1>1. first = k + 1
  <2>1. CASE c = {}
    <3>1. ~(k + 1 <= n)
      <4>1. k + 1 <= n => n \in c  OBVIOUS
      <4>2. QED  BY <2>1, <4>1
    <3>2. k = n  BY <3>1
    <3>3. QED  BY <2>1, <3>2
  <2>2. CASE c # {}
    <3>1. c \subseteq Nat  OBVIOUS
    <3> HIDE DEF c
    <3>2. Least(c) \in c /\ \A t \in c : Least(c) <= t  BY <2>2, <3>1, LeastOf
    <3>3. PICK t \in c : TRUE  BY <2>2
    <3>4. k + 1 \in c  BY <3>3 DEF c
    <3>5. Least(c) = k + 1  BY <3>2, <3>4 DEF c
    <3>6. QED  BY <2>2, <3>5
  <2>3. QED  BY <2>1, <2>2
<1>2. h = [type |-> "heartbeat", first |-> first, last |-> last]
  BY DEF HeartbeatOf
<1> HIDE DEF first
<1>3. last \in Nat /\ last <= n /\ first <= last + 1
  <2>1. first \in Nat /\ first - 1 = k /\ first <= n + 1  BY <1>1
  <2> HIDE DEF c
  <2>2. CASE c = {} \/ b \/ x >= n  BY <2>1, <2>2
  <2>3. CASE ~(c = {} \/ b \/ x >= n)
    <3>1. last = IF x >= first THEN x ELSE first - 1  BY <2>3
    <3>2. ~(x >= n) /\ x <= n  BY <2>3
    <3>3. QED  BY <2>1, <3>1, <3>2
  <2>4. QED  BY <2>2, <2>3
<1> HIDE DEF last
<1>4. first \in 1..MAX_SEQ_NUMBER /\ last \in Seqs  BY <1>1, <1>3, Constants
<1>5. h \in Heartbeats  BY <1>2, <1>4 DEF Heartbeats
<1>6. h.first = first /\ h.last = last  BY <1>2
<1> HIDE DEF h
<1>7. Announces(h, k, n)  BY <1>1, <1>3, <1>5, <1>6 DEF Announces
<1>8. QED  BY <1>7 DEF h

\* Longer intervals contain shorter ones.
LEMMA Upto ==
  ASSUME NEW a \in Nat, NEW m \in Nat, NEW n \in Nat, m <= n
  PROVE  /\ 1..m \subseteq 1..n
         /\ (a + 1)..m \subseteq (a + 1)..n
         /\ (a + 1)..(m + 1) \subseteq (a + 1)..(n + 1)
OBVIOUS

\* What the writer may send it may send later.
LEMMA SendableMore ==
  ASSUME WriterInv, WriterInv', seq <= seq', rn_seq <= rn_seq'
  PROVE  Sendable \subseteq Sendable'
<1>1. /\ seq \in Nat /\ seq' \in Nat /\ rn_seq \in Nat /\ rn_seq' \in Nat /\ Start \in Nat
  BY Constants DEF WriterInv
<1>2. /\ (Start + 1)..seq \subseteq (Start + 1)..seq'
      /\ (Start + 1)..(rn_seq + 1) \subseteq (Start + 1)..(rn_seq' + 1)
      /\ 1..rn_seq \subseteq 1..rn_seq'
  BY <1>1, Upto
<1>3. {Data(s) : s \in (Start + 1)..seq} \subseteq {Data(s) : s \in (Start + 1)..seq'}
  BY <1>2
<1>4. ASSUME NEW h \in Heartbeats, h.last <= seq  PROVE h.last <= seq'
  <2>1. h.last \in Nat  BY Constants DEF Heartbeats
  <2>2. QED  BY <1>1, <1>4, <2>1
<1>5. ASSUME NEW g \in Gaps, g.last <= seq  PROVE g.last <= seq'
  <2>1. g.last \in Nat  BY Constants DEF Gaps
  <2>2. QED  BY <1>1, <1>5, <2>1
<1>6. QED  BY <1>2, <1>3, <1>4, <1>5 DEF Sendable

\* A reader that has seen a heartbeat has room for all that is written.
LEMMA Room ==
  ASSUME WriterInv, KeepAll, NEW n \in Nat, rn_seq < n
  PROVE  seq <= n + MaxSamples
<1>1. seq \in Nat /\ rn_seq \in Nat /\ seq - rn_seq <= WhcHigh + 1 /\ WhcHigh <= MaxSamples
  BY DEF WriterInv, KeepAll
<1>2. QED  BY <1>1, Constants
-----------------------------------------------------------------------------
(* The steps of the writer.                                                *)

\* Writing and being acknowledged leave the reader alone.
LEMMA WriterStep ==
  ASSUME Inv, WriterInv', Typed', UNCHANGED proxy, seq <= seq', rn_seq <= rn_seq',
         IF have_seen_heartbeat THEN rn_seq' < Frontier ELSE rn_seq' = rn_seq,
         NEW msgs, msgs \subseteq Sendable',
         down' \cup packet' \subseteq down \cup packet \cup msgs, up' \subseteq up
  PROVE  Inv'
<1>1. /\ primary' = primary /\ secondary' = secondary /\ in_sync' = in_sync /\ gap' = gap
      /\ have_seen_heartbeat' = have_seen_heartbeat
      /\ delivered' = delivered /\ disordered' = disordered
  BY DEF proxy, sync, buffers, history
<1>2. Frontier' = Frontier  BY <1>1 DEF Frontier, Source
<1>3. seq \in Nat /\ seq' \in Nat /\ rn_seq \in Nat /\ rn_seq' \in Nat
  BY DEF Inv, WriterInv
<1>4. ReaderInv'
  <2>1. delivered' = (Start + 1)..(Frontier' - 1) /\ disordered' = {}
    BY <1>1, <1>2 DEF Inv, ReaderInv
  <2>2. CASE have_seen_heartbeat
    <3>1. Seen  BY <2>2 DEF Inv, ReaderInv
    <3>2. Ordered(primary, seq')  BY <1>3, <3>1, OrderedMore DEF Seen
    <3>3. ASSUME in_sync # "SYNC"  PROVE Behind'
      <4>1. /\ Follows(secondary, primary, seq) /\ Start < secondary.next
            /\ in_sync = "TLCATCHUP" => secondary.next = primary.next
        BY <3>1, <3>3 DEF Seen, Behind
      <4>2. Ordered(secondary, seq')  BY <1>3, <4>1, OrderedMore DEF Follows
      <4>3. Follows(secondary, primary, seq')  BY <3>2, <4>1, <4>2 DEF Follows
      <4>4. QED  BY <1>1, <4>1, <4>3 DEF Behind
    <3>4. gap \subseteq 1..rn_seq'
      <4>1. 1..rn_seq \subseteq 1..rn_seq'  BY <1>3, Upto
      <4>2. QED  BY <3>1, <4>1 DEF Seen
    <3>5. rn_seq' < Frontier'  BY <1>2, <2>2
    <3>6. Seen'  BY <1>1, <3>2, <3>3, <3>4, <3>5 DEF Seen
    <3>7. QED  BY <1>1, <2>1, <2>2, <3>6 DEF ReaderInv
  <2>3. CASE ~have_seen_heartbeat
    <3>1. Unseen  BY <2>3 DEF Inv, ReaderInv
    <3>2. Unseen'  BY <1>1, <2>3, <3>1 DEF Unseen
    <3>3. QED  BY <1>1, <2>1, <2>3, <3>2 DEF ReaderInv
  <2>4. QED  BY <2>2, <2>3
<1>5. NetworkInv'
  <2>1. Sendable \subseteq Sendable'  BY SendableMore DEF Inv
  <2>2. Honest' = Honest  BY <1>1, <1>2 DEF Honest
  <2>3. QED  BY <2>1, <2>2 DEF Inv, NetworkInv
<1>6. QED  BY <1>4, <1>5 DEF Inv

\* While the writer's place and the acknowledgement stay, nothing is lost.
LEMMA WriterStays ==
  ASSUME Inv, UNCHANGED <<seq, rn_seq, whc, proxy>>, seq_xmit' \in {seq_xmit, seq}, Typed',
         NEW msgs, msgs \subseteq Sendable,
         down' \cup packet' \subseteq down \cup packet \cup msgs, up' \subseteq up
  PROVE  Inv'
<1>1. WriterInv'  BY Constants DEF Inv, WriterInv
<1>2. Sendable' = Sendable  BY DEF Sendable
<1>3. seq <= seq' /\ rn_seq <= rn_seq'  BY DEF Inv, WriterInv
<1>4. IF have_seen_heartbeat THEN rn_seq' < Frontier ELSE rn_seq' = rn_seq
  BY DEF Inv, ReaderInv, Seen
<1>5. UNCHANGED proxy  OBVIOUS
<1>6. QED  BY <1>1, <1>2, <1>3, <1>4, <1>5, WriterStep

\* A heartbeat of the writer may be sent,
LEMMA HeartbeatSendable ==
  ASSUME WriterInv, NEW x \in Nat, NEW b \in BOOLEAN
  PROVE  HeartbeatOf(whc, seq, x, b) \in Sendable
<1> DEFINE h == HeartbeatOf(whc, seq, x, b)
<1>1. /\ seq \in Nat /\ rn_seq \in Nat /\ Start \in Nat /\ Start <= rn_seq
      /\ rn_seq <= seq /\ seq <= MaxSeq /\ whc = (rn_seq + 1)..seq
  BY Constants DEF WriterInv
<1>2. Announces(h, rn_seq, seq)  BY <1>1, HeartbeatFits
<1> HIDE DEF h
<1>3. h.first \in (Start + 1)..(rn_seq + 1)  BY <1>1, <1>2 DEF Announces
<1>4. h \in Sendable  BY <1>2, <1>3 DEF Announces, Sendable
<1>5. QED  BY <1>4 DEF h

\* and a sample that it has written.
LEMMA WriteSampleInv ==
  ASSUME Inv, KeepAll, WriteSample, ~Overfull \/ MayContinue
  PROVE  Inv'
<1>1. /\ seq \in Nat /\ rn_seq \in Nat /\ Start \in Nat /\ Start <= rn_seq
      /\ rn_seq <= seq /\ seq <= MaxSeq /\ whc = (rn_seq + 1)..seq
      /\ seq_xmit \in Start..seq
  BY Constants DEF Inv, WriterInv
<1>2. /\ seq < MaxSeq /\ seq' = seq + 1 /\ seq' \in Nat /\ rn_seq' = rn_seq
      /\ seq_xmit' = seq_xmit /\ UNCHANGED proxy /\ down' = down /\ up' = up
      /\ app' = "packing" /\ UNCHANGED <<has_replied_to_hb, retransmitting>>
  BY <1>1 DEF WriteSample, match
<1>3. whc' = (rn_seq + 1)..(seq + 1)
  <2>1. whc' = whc \cup {seq'}  BY DEF WriteSample, Inserted, KeepAll
  <2>2. QED  BY <1>1, <1>2, <2>1
<1>4. seq - rn_seq <= WhcHigh
  <2>1. Cardinality(whc) = seq - rn_seq
    <3> DEFINE a == rn_seq + 1
    <3>1. a \in Int /\ seq \in Int /\ seq - a + 1 = seq - rn_seq
          /\ (a <= seq \/ (seq < a /\ seq - rn_seq = 0))
      BY <1>1
    <3>2. whc = a..seq  BY <1>1
    <3> HIDE DEF a
    <3>3. Cardinality(a..seq) = IF a <= seq THEN seq - a + 1 ELSE 0
      BY <3>1, FS_Interval
    <3>4. QED  BY <3>1, <3>2, <3>3
  <2>2. seq - rn_seq <= WhcHigh \/ seq - rn_seq <= WhcLow
    BY <1>1, <2>1, Constants DEF Overfull, MayContinue, KeepAll
  <2>3. QED  BY <1>1, <2>2, Constants
<1>5. WriterInv'
  BY <1>1, <1>2, <1>3, <1>4, Constants DEF WriterInv
<1>6. packet' \subseteq Sendable' /\ packet' # {}
  <2>1. PICK piggyback \in SUBSET {HeartbeatOf(whc', seq', seq_xmit, TRUE)} :
          packet' = {Data(seq')} \cup piggyback
    BY DEF WriteSample
  <2>2. Data(seq') \in Sendable'
    <3>1. seq' \in (Start + 1)..seq'  BY <1>1, <1>2
    <3>2. QED  BY <3>1 DEF Sendable
  <2>3. HeartbeatOf(whc', seq', seq_xmit, TRUE) \in Sendable'
    <3> DEFINE h == HeartbeatOf(whc', seq', seq_xmit, TRUE)
    <3>1. seq_xmit \in Nat /\ rn_seq <= seq' /\ seq' <= MaxSeq
      BY <1>1, <1>2, Constants
    <3>2. h = HeartbeatOf((rn_seq + 1)..seq', seq', seq_xmit, TRUE)  BY <1>2, <1>3
    <3>3. Announces(HeartbeatOf((rn_seq + 1)..seq', seq', seq_xmit, TRUE), rn_seq, seq')
      BY <1>1, <1>2, <3>1, HeartbeatFits
    <3>4. Announces(h, rn_seq, seq')  BY <3>2, <3>3
    <3> HIDE DEF h
    <3>5. h.first \in (Start + 1)..(rn_seq' + 1)  BY <1>1, <1>2, <3>4 DEF Announces
    <3>6. h \in Sendable'  BY <3>4, <3>5 DEF Announces, Sendable
    <3>7. QED  BY <3>6 DEF h
  <2>4. QED  BY <2>1, <2>2, <2>3
<1>7. Typed'
  BY <1>2, <1>6 DEF Inv, Typed, proxy, sync, buffers, acking
<1>8. IF have_seen_heartbeat THEN rn_seq' < Frontier ELSE rn_seq' = rn_seq
  BY <1>2 DEF Inv, ReaderInv, Seen
<1>9. seq <= seq' /\ rn_seq <= rn_seq'  BY <1>1, <1>2
<1>10. down' \cup packet' \subseteq down \cup packet \cup packet' /\ up' \subseteq up
  BY <1>2
<1>11. QED  BY <1>2, <1>5, <1>6, <1>7, <1>8, <1>9, <1>10, WriterStep

\* The other steps of the application and the event thread.
LEMMA SendInv ==
  ASSUME Inv, Throttle \/ Timeout \/ Send \/ SendHeartbeat
  PROVE  Inv'
<1>0. WriterInv /\ seq \in Nat /\ seq_xmit \in Nat  BY Counters DEF Inv
<1>1. CASE Throttle
  <2> DEFINE msgs == {HeartbeatOf(whc, seq, seq_xmit, TRUE)}
  <2>1. msgs \subseteq Sendable  BY <1>0, HeartbeatSendable
  <2>2. down' \subseteq down \cup msgs  BY <1>1, TakenIn DEF Throttle, ToNetwork
  <2>3. UNCHANGED <<cache, match, packet, proxy, up>> /\ app' = "throttled"
        /\ app = "idle"
    BY <1>1 DEF Throttle
  <2> HIDE DEF msgs
  <2>4. UNCHANGED <<seq, rn_seq, whc, proxy, packet, up>> /\ seq_xmit' = seq_xmit
    BY <2>3 DEF cache, match
  <2>5. Typed'
    BY <2>3 DEF Inv, Typed, match, proxy, sync, buffers, acking
  <2>6. QED  BY <2>1, <2>2, <2>4, <2>5, WriterStays
<1>2. CASE Timeout
  <2>1. /\ UNCHANGED <<cache, match, packet, proxy, down, up>> /\ app' = "idle"
        /\ app = "throttled"
    BY <1>2 DEF Timeout
  <2>2. UNCHANGED <<seq, rn_seq, whc, proxy>> /\ seq_xmit' = seq_xmit
        /\ down' \cup packet' \subseteq down \cup packet \cup {} /\ up' \subseteq up
    BY <2>1 DEF cache, match
  <2>3. Typed'
    BY <2>1 DEF Inv, Typed, match, proxy, sync, buffers, acking
  <2>4. {} \subseteq Sendable  OBVIOUS
  <2>5. QED  BY <2>2, <2>3, <2>4, WriterStays
<1>3. CASE Send
  <2>1. /\ UNCHANGED <<seq, whc, match, proxy, up>> /\ app' = "idle" /\ packet' = {}
        /\ seq_xmit' = seq
    BY <1>3 DEF Send
  <2>2. down' \subseteq down \cup packet  BY <1>3, TakenIn DEF Send, ToNetwork
  <2>3. packet \subseteq Sendable  BY DEF Inv, NetworkInv
  <2>4. UNCHANGED <<seq, rn_seq, whc, proxy>>
        /\ down' \cup packet' \subseteq down \cup packet \cup packet /\ up' \subseteq up
    BY <2>1, <2>2 DEF match
  <2>5. Typed'
    BY <2>1 DEF Inv, Typed, match, proxy, sync, buffers, acking
  <2>6. QED  BY <2>1, <2>3, <2>4, <2>5, WriterStays
<1>4. CASE SendHeartbeat
  <2> DEFINE msgs == {HeartbeatOf(whc, seq, seq_xmit, FALSE)}
  <2>1. msgs \subseteq Sendable  BY <1>0, HeartbeatSendable
  <2>2. down' \subseteq down \cup msgs  BY <1>4, TakenIn DEF SendHeartbeat, ToNetwork
  <2>3. UNCHANGED <<writer, proxy, up>>  BY <1>4 DEF SendHeartbeat
  <2> HIDE DEF msgs
  <2>4. UNCHANGED <<seq, rn_seq, whc, proxy, packet, up>> /\ seq_xmit' = seq_xmit
    BY <2>3 DEF writer, cache, match
  <2>5. Typed'
    BY <2>3 DEF Inv, Typed, writer, match, proxy, sync, buffers, acking
  <2>6. QED  BY <2>1, <2>2, <2>4, <2>5, WriterStays
<1>5. QED  BY <1>1, <1>2, <1>3, <1>4

\* A gap is about what is acknowledged, up to n.
LEMMA GapFits ==
  ASSUME WriterInv, NEW n \in Nat, n <= seq, NEW m, NEW lost,
         lost \subseteq 1..n, lost # {}
  PROVE  LET g == GapOf((n + 1)..seq, m, lost) IN
         g \in Gaps /\ g.seqs \subseteq 1..n /\ g.last <= n
<1> DEFINE c == (n + 1)..seq
           start == Least(lost)
           end == RunEnd(lost, start)
           grown == IF end = m.end THEN start..(GrowGap(c, end) - 1) ELSE start..(end - 1)
           all == grown \cup {s \in lost : s >= end}
           last == IF all = {} THEN start - 1 ELSE Greatest(all)
<1>1. seq \in Nat /\ seq_xmit \in Nat /\ seq_xmit <= seq /\ seq <= MaxSeq /\ MaxSeq \in Nat
  BY Counters, Constants DEF WriterInv
<1>2. lost \subseteq Nat /\ \A t \in lost : t <= n  OBVIOUS
<1>3. start \in lost  BY <1>2, LeastOf
<1> HIDE DEF start
<1>4. start \in Nat /\ 1 <= start /\ start <= n  BY <1>3
<1>5. end \in Nat /\ end \in {start} \cup {t + 1 : t \in lost} /\ start <= end
  BY <1>2, <1>4, RunEndOf
<1>6. end <= n + 1  BY <1>2, <1>4, <1>5
<1> HIDE DEF end
<1>7. GrowGap(c, end) \in Nat /\ GrowGap(c, end) <= n + 1
  <2> DEFINE later == {t \in c : t >= end}
  <2>1. later = c  BY <1>1, <1>5, <1>6
  <2>2. CASE later = {}
    <3>1. n = seq
      <4>1. n + 1 <= seq => n + 1 \in c  BY <1>1
      <4>2. ~(n + 1 <= seq)  BY <2>1, <2>2, <4>1
      <4>3. QED  BY <1>1, <4>2
    <3>2. GrowGap(c, end) = seq_xmit + 1  BY <2>2 DEF GrowGap
    <3>3. QED  BY <1>1, <3>1, <3>2
  <2>3. CASE later # {}
    <3>1. Least(later) = n + 1
      <4>1. c \subseteq Nat  OBVIOUS
      <4>2. PICK x \in c : TRUE  BY <2>1, <2>3
      <4>3. n + 1 \in c  BY <1>1, <4>2
      <4> HIDE DEF c, later
      <4>4. Least(c) \in c /\ \A t \in c : Least(c) <= t  BY <4>1, <4>2, LeastOf
      <4>5. Least(c) \in Nat /\ n + 1 <= Least(c) /\ Least(c) <= n + 1
        BY <4>3, <4>4 DEF c
      <4>6. QED  BY <2>1, <4>5
    <3>2. GrowGap(c, end) = IF Least(later) > seq_xmit THEN seq_xmit ELSE Least(later)
      BY <2>3 DEF GrowGap
    <3> HIDE DEF later
    <3>3. QED  BY <1>1, <3>1, <3>2
  <2>4. QED  BY <2>2, <2>3
<1>8. grown \subseteq 1..n
  <2> DEFINE e1 == IF end = m.end THEN GrowGap(c, end) ELSE end
  <2>1. grown = start..(e1 - 1)  OBVIOUS
  <2>2. e1 \in Nat /\ e1 <= n + 1  BY <1>5, <1>6, <1>7
  <2> HIDE DEF e1, grown
  <2>3. QED  BY <1>4, <2>1, <2>2
<1> HIDE DEF grown
<1>9. all \subseteq 1..n  BY <1>8
<1>10. last \in Nat /\ last <= n
  <2>1. CASE all = {}  BY <1>4, <2>1
  <2>2. CASE all # {}
    <3>1. all \subseteq Nat /\ \A t \in all : t <= n  BY <1>9
    <3> HIDE DEF all
    <3>2. Greatest(all) \in all  BY <2>2, <3>1, GreatestOf
    <3>3. last = Greatest(all)  BY <2>2
    <3>4. QED  BY <3>1, <3>2, <3>3
  <2>3. QED  BY <2>1, <2>2
<1>11. GapOf(c, m, lost) = [type |-> "gap", seqs |-> all, last |-> last]
  BY DEF GapOf, start, end, grown
<1> HIDE DEF all, last, c
<1>12. all \subseteq 1..MaxSeq /\ last \in Seqs
  BY <1>1, <1>9, <1>10, Constants
<1>13. GapOf(c, m, lost) \in Gaps /\ GapOf(c, m, lost).seqs \subseteq 1..n
       /\ GapOf(c, m, lost).last <= n
  BY <1>9, <1>10, <1>11, <1>12 DEF Gaps
<1>14. QED  BY <1>13 DEF c

\* What an AckNack is answered with may be sent once it is handled.
LEMMA AnswerFits ==
  ASSUME WriterInv, NEW n \in rn_seq..seq, NEW m \in ToWriter,
         NEW x \in Answer((n + 1)..seq, n, m)
  PROVE  \/ \E s \in (n + 1)..seq : x = Data(s)
         \/ Announces(x, n, seq)
         \/ x \in Gaps /\ x.seqs \subseteq 1..n /\ x.last <= n
<1> DEFINE c == (n + 1)..seq
           wanted == {s \in m.missing : s <= seq_xmit}
           again == {s \in wanted \cap c : m.base <= n => s > n}
           lost == wanted \ again
<1>1. /\ seq \in Nat /\ seq_xmit \in Nat /\ seq_xmit <= seq /\ seq <= MaxSeq /\ MaxSeq \in Nat
      /\ n \in Nat /\ n <= seq
  BY Counters, Constants DEF WriterInv
<1>2. m.missing \subseteq 1..MaxSeq  BY DEF ToWriter
<1>3. lost \subseteq 1..n
  <2>1. ASSUME NEW s \in lost  PROVE s \in 1..n
    <3>1. s \in Nat /\ 1 <= s /\ s <= seq /\ s \in wanted  BY <1>1, <1>2, <2>1
    <3>2. CASE s > n
      <4>1. s \in c  BY <1>1, <3>1, <3>2
      <4>2. s \in again  BY <3>1, <3>2, <4>1
      <4>3. QED  BY <2>1, <4>2
    <3>3. QED  BY <1>1, <3>1, <3>2
  <2>2. QED  BY <2>1
<1>4. CASE x \in {Data(s) : s \in again}
  <2>1. again \subseteq c  OBVIOUS
  <2>2. QED  BY <1>4, <2>1
<1>5. CASE lost # {} /\ x = GapOf(c, m, lost)
  <2> HIDE DEF lost
  <2>1. x \in Gaps /\ x.seqs \subseteq 1..n /\ x.last <= n
    BY <1>1, <1>3, <1>5, GapFits
  <2>2. QED  BY <2>1
<1>6. CASE x = HeartbeatOf(c, seq, seq_xmit, FALSE)
  <2>1. Announces(HeartbeatOf(c, seq, seq_xmit, FALSE), n, seq)
    BY <1>1, HeartbeatFits
  <2>2. QED  BY <1>6, <2>1
<1>7. QED  BY <1>4, <1>5, <1>6 DEF Answer

\* An AckNack acknowledges what was delivered, so the rest is still in the cache.
LEMMA HandleAckNackInv ==
  ASSUME Inv, NEW m \in up, HandleAckNack(m)
  PROVE  Inv'
<1> DEFINE acked == rn_seq'
           msgs == IF m.preemptive THEN {HeartbeatOf(whc', seq, seq_xmit, FALSE)}
                   ELSE Answer(whc', acked, m)
<1>1. /\ seq \in Nat /\ seq_xmit \in Nat /\ rn_seq \in Nat /\ Start \in Nat /\ MaxSeq \in Nat
      /\ Start <= rn_seq /\ rn_seq <= seq /\ seq <= MaxSeq /\ seq_xmit \in Start..seq
      /\ seq - rn_seq <= WhcHigh + 1 /\ WhcHigh \in Nat
      /\ whc = (rn_seq + 1)..seq
  BY Counters, Constants DEF Inv, WriterInv
<1>2. m \in Honest /\ m \in ToWriter /\ m.base \in Nat /\ 1 <= m.base
  <2>1. m \in Honest  BY DEF Inv, NetworkInv
  <2>2. m \in ToWriter  BY <2>1 DEF Honest
  <2>3. m.base \in 1..MAX_SEQ_NUMBER  BY <2>2 DEF ToWriter
  <2>4. QED  BY <2>1, <2>2, <2>3, Constants
<1>3. /\ acked = IF m.base - 1 <= rn_seq THEN rn_seq
                 ELSE IF m.base - 1 <= seq THEN m.base - 1 ELSE seq
      /\ whc' = {s \in whc : s > acked}
      /\ up' \subseteq up
      /\ UNCHANGED <<seq, seq_xmit, app, packet, proxy>>
      /\ down' \subseteq down \cup msgs
      /\ retransmitting' \in BOOLEAN /\ has_replied_to_hb' \in BOOLEAN
  BY TakenOut, TakenIn DEF HandleAckNack, ToNetwork
<1>4. acked \in Nat /\ rn_seq <= acked /\ acked <= seq  BY <1>1, <1>2, <1>3
<1>5. whc' = (acked + 1)..seq
  BY <1>1, <1>3, <1>4
<1>6. WriterInv'  BY <1>1, <1>3, <1>4, <1>5 DEF WriterInv
<1>7. IF have_seen_heartbeat THEN acked < Frontier ELSE acked = rn_seq
  <2>1. CASE m.base = 1
    <3>1. acked = rn_seq  BY <1>1, <1>3, <2>1
    <3>2. QED  BY <3>1 DEF Inv, ReaderInv, Seen
  <2>2. CASE have_seen_heartbeat /\ m.base <= Frontier
    <3>1. rn_seq < Frontier /\ Frontier \in Nat
      BY <2>2, OrderedTyped, Constants, <1>1
         DEF Inv, ReaderInv, Seen, Behind, Follows, Frontier, Source, Typed
    <3>2. acked < Frontier  BY <1>1, <1>2, <1>3, <2>2, <3>1
    <3>3. QED  BY <2>2, <3>2
  <2>3. QED  BY <1>2, <2>1, <2>2 DEF Honest
<1>8. msgs \subseteq Sendable'
  <2>1. ASSUME NEW x \in Gaps, x.seqs \subseteq 1..acked, x.last <= acked
        PROVE  x \in Sendable'
    <3>1. x.last \in Nat  BY Constants DEF Gaps
    <3>2. x.last <= seq'  BY <1>1, <1>3, <1>4, <2>1, <3>1
    <3>3. QED  BY <2>1, <3>2 DEF Sendable
  <2>2. ASSUME NEW x, Announces(x, acked, seq)
        PROVE  x \in Sendable'
    <3>1. x.first = acked + 1  BY <2>2 DEF Announces
    <3>2. acked + 1 \in (Start + 1)..(acked + 1)
      <4> HIDE DEF acked
      <4>1. QED  BY <1>1, <1>4
    <3>3. seq' = seq  BY <1>3
    <3>4. QED  BY <2>2, <3>1, <3>2, <3>3 DEF Announces, Sendable
  <2>3. ASSUME NEW s \in (acked + 1)..seq
        PROVE  Data(s) \in Sendable'
    <3>1. s \in (Start + 1)..seq'  BY <1>1, <1>3, <1>4
    <3>2. QED  BY <3>1 DEF Sendable
  <2>4. CASE m.preemptive
    <3>1. Announces(HeartbeatOf((acked + 1)..seq, seq, seq_xmit, FALSE), acked, seq)
      BY <1>1, <1>4, HeartbeatFits
    <3>2. QED  BY <1>5, <2>2, <2>4, <3>1
  <2>5. CASE ~m.preemptive
    <3>1. msgs = Answer((acked + 1)..seq, acked, m)  BY <1>5, <2>5
    <3> HIDE DEF msgs
    <3>2. ASSUME NEW x \in msgs  PROVE x \in Sendable'
      <4>1. acked \in rn_seq..seq /\ WriterInv  BY <1>1, <1>4 DEF Inv
      <4>2. \/ \E s \in (acked + 1)..seq : x = Data(s)
            \/ Announces(x, acked, seq)
            \/ x \in Gaps /\ x.seqs \subseteq 1..acked /\ x.last <= acked
        <5> HIDE DEF acked
        <5>1. QED  BY <1>2, <3>1, <4>1, AnswerFits
      <4>3. QED  BY <2>1, <2>2, <2>3, <4>2
    <3>3. QED  BY <3>2
  <2>6. QED  BY <2>4, <2>5
<1> HIDE DEF msgs
<1>9. Typed'
  BY <1>3 DEF Inv, Typed, proxy, sync, buffers, acking
<1>10. UNCHANGED proxy /\ seq <= seq' /\ rn_seq <= rn_seq'
       /\ down' \cup packet' \subseteq down \cup packet \cup msgs
  BY <1>1, <1>3, <1>4
<1>11. QED  BY <1>3, <1>6, <1>7, <1>8, <1>9, <1>10, WriterStep
-----------------------------------------------------------------------------
(* The steps of the reader.                                                *)

\* The buffer that decides what is delivered, before the reader goes over.
Reached(p, s) == IF in_sync = "SYNC" THEN p.next ELSE s.next

\* A reader that goes over finds the same in the other buffer.
GoesOver(sync1) ==
  /\ sync1 \in {"OUT_OF_SYNC", "TLCATCHUP", "SYNC"}
  /\ in_sync = "SYNC" => sync1 = "SYNC"
  /\ in_sync = "TLCATCHUP" => sync1 # "OUT_OF_SYNC"
  /\ in_sync = "OUT_OF_SYNC" => sync1 = "OUT_OF_SYNC" \/ secondary'.next = primary'.next

\* maybe_set_reader_in_sync keeps to that.
LEMMA SyncedGoesOver ==
  ASSUME Typed, NEW n
  PROVE  GoesOver(Synced(n))
BY DEF Typed, Synced, GoesOver

\* Numbers that follow those delivered come in order.
LEMMA DeliverNext ==
  ASSUME NEW n \in Nat, NEW n1 \in Nat, Start < n, n <= n1, disordered = {},
         delivered = (Start + 1)..(n - 1), Deliver(n..(n1 - 1))
  PROVE  delivered' = (Start + 1)..(n1 - 1) /\ disordered' = {}
<1>1. Start \in Nat  BY Constants
<1>2. (Start + 1)..(n1 - 1) = delivered \cup (n..(n1 - 1))  BY <1>1
<1>3. \A s \in n..(n1 - 1) : \A t \in delivered : ~(s <= t)  BY <1>1
<1>4. QED  BY <1>2, <1>3 DEF Deliver

\* What a handler of the reader has to keep.
LEMMA ReaderStep ==
  ASSUME Inv, have_seen_heartbeat, have_seen_heartbeat', UNCHANGED <<writer, up>>,
         down' \subseteq down, gap' \subseteq 1..rn_seq,
         GoesOver(in_sync'), Ordered(primary', seq),
         in_sync = "SYNC" => secondary' = secondary,
         in_sync # "SYNC" =>
           /\ Follows(secondary', primary', seq)
           /\ secondary.next = primary.next => secondary'.next = primary'.next,
         Reached(primary, secondary) <= Reached(primary', secondary'),
         Deliver(Reached(primary, secondary)..(Reached(primary', secondary') - 1)),
         last_seq' \in Seqs, end_of_tl_seq' \in 0..MAX_SEQ_NUMBER,
         {ack_requested', acknack_xevent', have_seen_heartbeat'} \subseteq BOOLEAN
  PROVE  Inv'
<1> DEFINE n == Reached(primary, secondary)
           n1 == Reached(primary', secondary')
<1>1. /\ UNCHANGED <<seq, seq_xmit, whc, rn_seq, has_replied_to_hb, retransmitting, app, packet>>
      /\ UNCHANGED <<Sendable>>
  BY DEF writer, cache, match, Sendable
<1>2. /\ seq \in Nat /\ rn_seq \in Nat /\ Start \in Nat /\ Start <= rn_seq
      /\ seq <= MaxSeq /\ MaxSeq \in Nat
  BY Constants DEF Inv, WriterInv
<1>3. Seen /\ delivered = (Start + 1)..(Frontier - 1) /\ disordered = {}
  BY DEF Inv, ReaderInv
<1>4. in_sync \in {"OUT_OF_SYNC", "TLCATCHUP", "SYNC"}  BY DEF Inv, Typed
<1>5. Frontier = n
  BY <1>3, <1>4 DEF Frontier, Source, Reached, Seen, Behind
<1>6. Frontier' = n1
  BY <1>3, <1>4 DEF Frontier, Source, Reached, Seen, Behind, GoesOver
<1>7. n \in Nat /\ n1 \in Nat /\ rn_seq < n /\ Start < n
  <2>1. n \in Nat
    BY <1>2, <1>3, OrderedTyped DEF Seen, Behind, Follows, Reached
  <2>2. n1 \in Nat
    BY <1>2, OrderedTyped DEF Follows, Reached
  <2>3. rn_seq < n  BY <1>3, <1>5 DEF Seen
  <2> HIDE DEF n, n1
  <2>4. QED  BY <1>2, <2>1, <2>2, <2>3
<1>8. n <= n1 /\ Deliver(n..(n1 - 1))  OBVIOUS
<1> HIDE DEF n, n1
<1>9. delivered' = (Start + 1)..(Frontier' - 1) /\ disordered' = {}
  <2>1. delivered' = (Start + 1)..(n1 - 1) /\ disordered' = {}
    BY <1>3, <1>5, <1>7, <1>8, DeliverNext
  <2>2. QED  BY <1>6, <2>1
<1>10. rn_seq' < Frontier'  BY <1>1, <1>2, <1>6, <1>7, <1>8
<1>11. ASSUME in_sync' # "SYNC"  PROVE Behind'
  <2>1. in_sync # "SYNC"  BY <1>11 DEF GoesOver
  <2>2. Behind  BY <1>3, <2>1 DEF Seen
  <2>3. Start < secondary'.next
    <3>1. n1 = secondary'.next  BY <2>1 DEF n1, Reached
    <3>2. QED  BY <1>2, <1>7, <1>8, <3>1
  <2>4. in_sync' = "TLCATCHUP" => secondary'.next = primary'.next
    BY <1>4, <2>1, <2>2 DEF GoesOver, Behind
  <2>5. QED  BY <1>1, <2>1, <2>3, <2>4 DEF Behind
<1>12. Seen'  BY <1>1, <1>10, <1>11 DEF Seen
<1>13. ReaderInv'  BY <1>9, <1>12 DEF ReaderInv
<1>14. WriterInv'  BY <1>1 DEF Inv, WriterInv
<1>15. NetworkInv'
  <2>1. Honest \subseteq Honest'
    <3>1. ASSUME NEW m \in ToWriter, m.base <= Frontier  PROVE m.base <= Frontier'
      <4>1. m.base \in Nat  BY Constants DEF ToWriter
      <4>2. QED  BY <1>5, <1>6, <1>7, <1>8, <3>1, <4>1
    <3>2. QED  BY <3>1 DEF Honest
  <2>2. QED  BY <1>1, <2>1 DEF Inv, NetworkInv
<1>16. Typed'
  <2>1. ASSUME in_sync' = "SYNC"  PROVE secondary' \in Reorders(1..MAX_SEQ_NUMBER)
    <3>1. CASE in_sync = "SYNC"
      <4>1. secondary \in Reorders(1..MAX_SEQ_NUMBER)  BY <3>1 DEF Inv, Typed
      <4>2. QED  BY <3>1, <4>1
    <3>2. CASE in_sync # "SYNC"
      <4>1. Ordered(secondary', seq)  BY <3>2 DEF Follows
      <4>2. QED  BY <1>2, <4>1, OrderedTyped
    <3>3. QED  BY <3>1, <3>2
  <2>2. Typed  BY DEF Inv
  <2>3. MAX_SEQ_NUMBER' = MAX_SEQ_NUMBER  BY DEF MAX_SEQ_NUMBER
  <2>4. QED  BY <1>1, <2>1, <2>2 DEF Typed, GoesOver
<1>17. QED  BY <1>13, <1>14, <1>15, <1>16 DEF Inv

\* What there is to know of a reader that has seen a heartbeat.
LEMMA SeenFacts ==
  ASSUME Inv, have_seen_heartbeat
  PROVE  /\ Ordered(primary, seq) /\ primary.next \in Nat
         /\ in_sync # "SYNC" => Follows(secondary, primary, seq)
         /\ Reached(primary, secondary) \in Nat /\ rn_seq < Reached(primary, secondary)
         /\ Reached(primary, secondary) <= primary.next
         /\ Reached(primary, secondary)..(Reached(primary, secondary) - 1) = {}
<1>1. seq \in Nat /\ seq <= MaxSeq /\ Seen /\ in_sync \in {"OUT_OF_SYNC", "TLCATCHUP", "SYNC"}
  BY DEF Inv, WriterInv, ReaderInv, Typed
<1>2. Ordered(primary, seq) /\ primary.next \in Nat  BY <1>1, OrderedTyped DEF Seen
<1>3. in_sync # "SYNC" => Follows(secondary, primary, seq) /\ secondary.next \in Nat
  <2>1. in_sync # "SYNC" => Follows(secondary, primary, seq)  BY <1>1 DEF Seen, Behind
  <2>2. Follows(secondary, primary, seq) => secondary.next \in Nat
    BY <1>1, OrderedTyped DEF Follows
  <2>3. QED  BY <2>1, <2>2
<1>4. /\ Reached(primary, secondary) \in Nat
      /\ Reached(primary, secondary) <= primary.next
  BY <1>2, <1>3 DEF Reached, Follows
<1>5. rn_seq < Reached(primary, secondary)
  BY <1>1 DEF Seen, Behind, Frontier, Source, Reached
<1>6. QED  BY <1>2, <1>3, <1>4, <1>5

\* A step that changes neither buffer delivers nothing.
LEMMA BuffersKept ==
  ASSUME Inv, have_seen_heartbeat, have_seen_heartbeat', UNCHANGED <<writer, up, buffers>>,
         down' \subseteq down, gap' \subseteq 1..rn_seq,
         GoesOver(in_sync'), Deliver({}),
         last_seq' \in Seqs, end_of_tl_seq' \in 0..MAX_SEQ_NUMBER,
         {ack_requested', acknack_xevent', have_seen_heartbeat'} \subseteq BOOLEAN
  PROVE  Inv'
<1>1. primary' = primary /\ secondary' = secondary  BY DEF buffers
<1>2. Reached(primary', secondary') = Reached(primary, secondary)  BY <1>1
<1>3. Reached(primary, secondary) <= Reached(primary', secondary')
  BY <1>2, SeenFacts
<1>4. Deliver(Reached(primary, secondary)..(Reached(primary', secondary') - 1))
  BY <1>2, SeenFacts
<1>5. Ordered(primary', seq) /\ (in_sync # "SYNC" => Follows(secondary', primary', seq))
  BY <1>1, SeenFacts
<1>6. QED  BY <1>1, <1>3, <1>4, <1>5, ReaderStep

\* A gap that was delivered, or an old heartbeat, changes neither buffer.
LEMMA OldGap ==
  ASSUME Inv, have_seen_heartbeat, NEW a, NEW b \in Nat, b <= rn_seq + 1
  PROVE  /\ Gap(primary, a, b) = primary /\ Chain(primary, primary, {}) = {}
         /\ in_sync # "SYNC" => Gap(secondary, a, b) = secondary
                                /\ Chain(secondary, secondary, {}) = {}
<1>1. seq \in Nat /\ rn_seq \in Nat  BY Counters DEF Inv
<1>2. b <= Reached(primary, secondary) /\ b <= primary.next
  BY <1>1, SeenFacts
<1>3. Gap(primary, a, b) = primary /\ Chain(primary, Gap(primary, a, b), {}) = {}
  BY <1>1, <1>2, SeenFacts, GapOld
<1>4. ASSUME in_sync # "SYNC"
      PROVE  Gap(secondary, a, b) = secondary /\ Chain(secondary, Gap(secondary, a, b), {}) = {}
  <2>1. Ordered(secondary, seq) /\ b <= secondary.next
    BY <1>2, <1>4, SeenFacts DEF Follows, Reached
  <2>2. QED  BY <1>1, <2>1, GapOld
<1>5. QED  BY <1>3, <1>4

\* A sample goes into each buffer in use.
LEMMA HandleDataInv ==
  ASSUME Inv, KeepAll, NEW m \in down, HandleData(m)
  PROVE  Inv'
<1>1. /\ seq \in Nat /\ rn_seq \in Nat /\ seq <= MaxSeq /\ Start \in Nat /\ MaxSeq \in Nat
      /\ WriterInv /\ Typed
  BY Constants DEF Inv, WriterInv
<1>2. m.seq \in 1..seq
  <2>1. m \in Sendable /\ m.type = "data"  BY DEF Inv, NetworkInv, HandleData
  <2>2. \/ \E s \in (Start + 1)..seq : m = Data(s)
        \/ m \in Heartbeats \/ m \in Gaps
    BY <2>1 DEF Sendable
  <2>3. PICK s \in (Start + 1)..seq : m = Data(s)
    <3>1. m \in Heartbeats => m.type = "heartbeat"  BY DEF Heartbeats
    <3>2. m \in Gaps => m.type = "gap"  BY DEF Gaps
    <3>3. QED  BY <2>1, <2>2, <3>1, <3>2
  <2>4. m.seq = s  BY <2>3 DEF Data
  <2>5. QED  BY <1>1, <2>4
<1>3. /\ have_seen_heartbeat /\ have_seen_heartbeat' = have_seen_heartbeat
      /\ UNCHANGED <<writer, end_of_tl_seq, gap, ack_requested, acknack_xevent, up>>
      /\ down' \subseteq down
      /\ last_seq' = IF m.seq > last_seq THEN m.seq ELSE last_seq
      /\ primary' = Sample(primary, m.seq)
      /\ secondary' = IF in_sync = "SYNC" THEN secondary ELSE Sample(secondary, m.seq)
      /\ Deliver(IF in_sync = "SYNC" THEN Chain(primary, primary', {m.seq})
                 ELSE Chain(secondary, secondary', {m.seq}))
      /\ in_sync' = IF secondary'.next > secondary.next THEN Synced(m.seq) ELSE in_sync
  BY TakenOut DEF HandleData, acking
<1>4. GoesOver(in_sync')
  <2>1. GoesOver(Synced(m.seq))  BY <1>1, SyncedGoesOver
  <2>2. GoesOver(in_sync)  BY <1>1 DEF Typed, GoesOver
  <2>3. QED  BY <1>3, <2>1, <2>2
<1>5. /\ Seen /\ gap' \subseteq 1..rn_seq
      /\ have_seen_heartbeat' /\ last_seq' \in Seqs /\ end_of_tl_seq' \in 0..MAX_SEQ_NUMBER
      /\ {ack_requested', acknack_xevent', have_seen_heartbeat'} \subseteq BOOLEAN
  <2>1. m.seq \in Seqs  BY <1>1, <1>2 DEF Seqs
  <2>2. QED  BY <1>3, <2>1 DEF Inv, Typed, ReaderInv, Seen
<1>6. CASE in_sync = "SYNC"
  <2>1. seq <= primary.next + MaxSamples
    BY <1>1, <1>3, <1>6, SeenFacts, Room DEF Reached
  <2>2. /\ Ordered(primary', seq) /\ primary.next <= primary'.next
        /\ Chain(primary, primary', {m.seq}) = primary.next..(primary'.next - 1)
    BY <1>1, <1>2, <1>3, <2>1, SeenFacts, SampleAny
  <2>3. /\ Reached(primary, secondary) <= Reached(primary', secondary')
        /\ Deliver(Reached(primary, secondary)..(Reached(primary', secondary') - 1))
    BY <1>3, <1>6, <2>2 DEF Reached
  <2>4. QED  BY <1>3, <1>4, <1>5, <1>6, <2>2, <2>3, ReaderStep
<1>7. CASE in_sync # "SYNC"
  <2>1. /\ seq <= secondary.next + MaxSamples /\ Follows(secondary, primary, seq)
        /\ Ordered(secondary, seq)
    BY <1>1, <1>3, <1>7, SeenFacts, Room DEF Reached, Follows
  <2>2. /\ Ordered(secondary', seq) /\ secondary.next <= secondary'.next
        /\ Chain(secondary, secondary', {m.seq}) = secondary.next..(secondary'.next - 1)
    BY <1>1, <1>2, <1>3, <1>7, <2>1, SampleAny
  <2>3. /\ Follows(secondary', primary', seq)
        /\ secondary.next = primary.next => secondary'.next = primary'.next
    BY <1>1, <1>2, <1>3, <1>7, <2>1, FollowsSample
  <2>4. /\ Reached(primary, secondary) <= Reached(primary', secondary')
        /\ Deliver(Reached(primary, secondary)..(Reached(primary', secondary') - 1))
    BY <1>3, <1>7, <2>2 DEF Reached
  <2>5. Ordered(primary', seq)  BY <2>3 DEF Follows
  <2>6. QED  BY <1>3, <1>4, <1>5, <1>7, <2>3, <2>4, <2>5, ReaderStep
<1>8. QED  BY <1>6, <1>7

\* A heartbeat that may be sent.
LEMMA HeartbeatKnown ==
  ASSUME Inv, NEW m \in down, m.type = "heartbeat"
  PROVE  /\ m.first \in (Start + 1)..(rn_seq + 1) /\ m.first <= m.last + 1
         /\ m.last <= seq /\ m.last \in Seqs /\ m.last \in Nat /\ m.first \in Nat
<1>1. m \in Sendable  BY DEF Inv, NetworkInv
<1>2. \/ \E s \in (Start + 1)..seq : m = Data(s)
      \/ m \in Heartbeats /\ /\ m.first \in (Start + 1)..(rn_seq + 1)
                             /\ m.first <= m.last + 1 /\ m.last <= seq
      \/ m \in Gaps
  BY <1>1 DEF Sendable
<1>3. m \in Heartbeats /\ /\ m.first \in (Start + 1)..(rn_seq + 1)
                          /\ m.first <= m.last + 1 /\ m.last <= seq
  <2>1. m \in Gaps => m.type = "gap"  BY DEF Gaps
  <2>2. ASSUME NEW s, m = Data(s)  PROVE m.type = "data"  BY <2>2 DEF Data
  <2>3. QED  BY <1>2, <2>1, <2>2
<1>4. m.first \in 1..MAX_SEQ_NUMBER /\ m.last \in Seqs  BY <1>3 DEF Heartbeats
<1>5. QED  BY <1>3, <1>4, Constants

\* The first heartbeat makes both buffers begin; a later one tells them nothing.
LEMMA HandleHeartbeatInv ==
  ASSUME Inv, NEW m \in down, HandleHeartbeat(m)
  PROVE  Inv'
<1>1. /\ seq \in Nat /\ rn_seq \in Nat /\ seq <= MaxSeq /\ Start \in Nat /\ MaxSeq \in Nat
      /\ Start <= rn_seq /\ rn_seq <= seq /\ Typed
  BY Constants DEF Inv, WriterInv
<1>2. /\ m.first \in (Start + 1)..(rn_seq + 1) /\ m.first <= m.last + 1
      /\ m.last <= seq /\ m.last \in Seqs /\ m.last \in Nat /\ m.first \in Nat
  BY HeartbeatKnown DEF HandleHeartbeat
<1>3. /\ have_seen_heartbeat' = TRUE
      /\ UNCHANGED <<writer, gap, up>> /\ gap = {}
      /\ down' \subseteq down
      /\ last_seq' = IF m.last > last_seq THEN m.last ELSE last_seq
      /\ primary' = Gap(primary, 1, IF have_seen_heartbeat THEN m.first ELSE m.last + 1)
      /\ secondary' = IF in_sync = "OUT_OF_SYNC" THEN Gap(secondary, 1, m.first) ELSE secondary
      /\ Deliver(CASE in_sync = "SYNC" -> Chain(primary, primary', {})
                   [] in_sync = "OUT_OF_SYNC" -> Chain(secondary, secondary', {})
                   [] OTHER -> {})
      /\ end_of_tl_seq' \in {m.last, end_of_tl_seq}
      /\ ack_requested' \in BOOLEAN /\ acknack_xevent' \in BOOLEAN
  BY TakenOut DEF HandleHeartbeat, Unlocked, Inv, Typed
<1>4. GoesOver(in_sync')
  BY <1>1, SyncedGoesOver DEF HandleHeartbeat
<1>5. /\ last_seq' \in Seqs /\ end_of_tl_seq' \in 0..MAX_SEQ_NUMBER
      /\ {ack_requested', acknack_xevent', have_seen_heartbeat'} \subseteq BOOLEAN
      /\ gap' \subseteq 1..rn_seq
  BY <1>1, <1>2, <1>3, Constants DEF Typed
<1>6. CASE have_seen_heartbeat
  <2>1. /\ Gap(primary, 1, m.first) = primary /\ Chain(primary, primary, {}) = {}
        /\ in_sync # "SYNC" => Gap(secondary, 1, m.first) = secondary
                               /\ Chain(secondary, secondary, {}) = {}
    BY <1>1, <1>2, <1>6, OldGap
  <2>2. UNCHANGED buffers  BY <1>3, <1>6, <2>1 DEF buffers
  <2>3. Deliver({})
    <3>1. UNCHANGED <<primary, secondary>>  BY <2>2 DEF buffers
    <3>2. in_sync \in {"OUT_OF_SYNC", "TLCATCHUP", "SYNC"}  BY <1>1 DEF Typed
    <3>3. QED  BY <1>3, <2>1, <3>1, <3>2
  <2>4. QED  BY <1>3, <1>4, <1>5, <1>6, <2>2, <2>3, BuffersKept
<1>7. CASE ~have_seen_heartbeat
  <2>1. /\ rn_seq = Start /\ in_sync = "OUT_OF_SYNC"
        /\ primary = Empty /\ secondary = Empty
        /\ delivered = (Start + 1)..(Frontier - 1) /\ disordered = {}
    BY <1>7 DEF Inv, ReaderInv, Unseen
  <2>2. m.first = Start + 1 /\ 1 <= m.first  BY <1>1, <1>2, <2>1
  <2>3. primary' = Buffer(m.last + 1, {}) /\ secondary' = Buffer(m.first, {})
        /\ Chain(secondary, secondary', {}) = {}
    <3>1. m.last + 1 \in Nat /\ 1 <= m.last + 1  BY <1>2
    <3>2. Gap(Empty, 1, m.last + 1) = Buffer(m.last + 1, {})  BY <3>1, FirstGap
    <3>3. /\ Gap(Empty, 1, m.first) = Buffer(m.first, {})
          /\ Chain(Empty, Gap(Empty, 1, m.first), {}) = {}
      BY <1>2, <2>2, FirstGap
    <3>4. QED  BY <1>3, <1>7, <2>1, <3>2, <3>3
  <2>4. /\ primary'.next = m.last + 1 /\ primary'.cover = {}
        /\ secondary'.next = Start + 1 /\ secondary'.cover = {}
    BY <2>2, <2>3, BufferParts
  <2>5. UNCHANGED <<seq, seq_xmit, whc, rn_seq, has_replied_to_hb, retransmitting, app, packet>>
        /\ Sendable' = Sendable
    BY <1>3 DEF writer, cache, match, Sendable
  <2>6. Ordered(primary', seq) /\ Ordered(secondary', seq)
    <3>1. m.last + 1 \in 1..(seq + 1) /\ m.first \in 1..(seq + 1)  BY <1>1, <1>2, <2>2
    <3>2. QED  BY <2>2, <2>3, <2>4, <3>1 DEF Ordered
  <2>7. Follows(secondary', primary', seq)
    <3>1. secondary'.next <= primary'.next  BY <1>2, <2>2, <2>4
    <3>2. QED  BY <2>4, <2>6, <3>1 DEF Follows
  <2>8. Frontier' = Start + 1
    BY <1>4, <2>1, <2>4 DEF Frontier, Source, GoesOver
  <2>9. delivered' = (Start + 1)..(Frontier' - 1) /\ disordered' = {}
    <3>1. Deliver({})  BY <1>3, <2>1, <2>3
    <3>2. delivered' = delivered /\ disordered' = {}  BY <2>1, <3>1 DEF Deliver
    <3>3. Frontier = 1  BY <2>1 DEF Frontier, Source, Empty
    <3>4. (Start + 1)..(Frontier - 1) = {} /\ (Start + 1)..(Frontier' - 1) = {}
      BY <1>1, <2>8, <3>3
    <3>5. QED  BY <2>1, <3>2, <3>4
  <2>10. Seen'
    <3>1. rn_seq' < Frontier'  BY <1>1, <2>1, <2>5, <2>8
    <3>2. ASSUME in_sync' # "SYNC"  PROVE Behind'
      <4>1. Start < secondary'.next  BY <1>1, <2>4
      <4>2. QED  BY <1>4, <2>1, <2>5, <2>7, <4>1 DEF Behind, GoesOver
    <3>3. QED  BY <1>5, <2>5, <2>6, <3>1, <3>2 DEF Seen
  <2>11. ReaderInv'  BY <1>3, <2>9, <2>10 DEF ReaderInv
  <2>12. NetworkInv'
    <3>1. Honest \subseteq Honest'  BY <1>7 DEF Honest
    <3>2. QED  BY <1>3, <2>5, <3>1 DEF Inv, NetworkInv
  <2>13. WriterInv'  BY <2>5 DEF Inv, WriterInv
  <2>14. secondary' \in Reorders(1..MAX_SEQ_NUMBER)  BY <1>1, <2>6, OrderedTyped
  <2>15. Typed'  BY <1>1, <1>3, <1>4, <1>5, <2>5, <2>14 DEF Typed, GoesOver
  <2>16. QED  BY <2>11, <2>12, <2>13, <2>15 DEF Inv
<1>8. QED  BY <1>6, <1>7

\* A gap that is taken in is of acknowledged numbers,
LEMMA HandleGapInv ==
  ASSUME Inv, NEW m \in down, HandleGap(m)
  PROVE  Inv'
<1>1. /\ have_seen_heartbeat /\ m.type = "gap" /\ gap' = m.seqs
      /\ last_seq' = IF m.last > last_seq THEN m.last ELSE last_seq
      /\ UNCHANGED <<writer, have_seen_heartbeat, sync, buffers, acking, history, up>>
      /\ down' \subseteq down
  BY TakenOut DEF HandleGap
<1>2. m.seqs \subseteq 1..rn_seq /\ m.last \in Seqs
  <2>1. m \in Sendable  BY DEF Inv, NetworkInv
  <2>2. \/ \E s \in (Start + 1)..seq : m = Data(s)
        \/ m \in Heartbeats
        \/ m \in Gaps /\ m.seqs \subseteq 1..rn_seq
    BY <2>1 DEF Sendable
  <2>3. m \in Gaps /\ m.seqs \subseteq 1..rn_seq
    <3>1. m \in Heartbeats => m.type = "heartbeat"  BY DEF Heartbeats
    <3>2. ASSUME NEW s, m = Data(s)  PROVE m.type = "data"  BY <3>2 DEF Data
    <3>3. QED  BY <1>1, <2>2, <3>1, <3>2
  <2>4. QED  BY <2>3 DEF Gaps
<1>3. in_sync' = in_sync /\ end_of_tl_seq' = end_of_tl_seq /\ have_seen_heartbeat'
      /\ ack_requested' = ack_requested /\ acknack_xevent' = acknack_xevent
      /\ delivered' = delivered /\ disordered' = disordered
  BY <1>1 DEF sync, acking, history
<1>4. GoesOver(in_sync') /\ last_seq' \in Seqs /\ end_of_tl_seq' \in 0..MAX_SEQ_NUMBER
      /\ {ack_requested', acknack_xevent', have_seen_heartbeat'} \subseteq BOOLEAN
  BY <1>1, <1>2, <1>3 DEF Inv, Typed, GoesOver
<1>5. Deliver({})  BY <1>1, <1>3 DEF Deliver, Inv, ReaderInv
<1>6. QED  BY <1>1, <1>2, <1>3, <1>4, <1>5, BuffersKept

\* so that its intervals tell the buffers nothing.
LEMMA HandleOneGapInv ==
  ASSUME Inv, HandleOneGap
  PROVE  Inv'
<1> DEFINE a == Least(gap)
           b == RunEnd(gap, a)
<1>1. /\ gap # {} /\ gap' = {s \in gap : s >= b}
      /\ primary' = Gap(primary, a, b)
      /\ secondary' = IF in_sync = "OUT_OF_SYNC" THEN Gap(secondary, a, b) ELSE secondary
      /\ Deliver(CASE in_sync = "SYNC" -> Chain(primary, primary', {})
                   [] in_sync = "OUT_OF_SYNC" -> Chain(secondary, secondary', {})
                   [] OTHER -> {})
      /\ UNCHANGED <<have_seen_heartbeat, end_of_tl_seq>>
      /\ in_sync' = Synced(b - 1)
      /\ UNCHANGED <<writer, last_seq, acking, down, up>>
  BY DEF HandleOneGap, Unlocked
<1>2. have_seen_heartbeat /\ Typed  BY <1>1 DEF Inv, ReaderInv, Unseen
<1>3. rn_seq \in Nat /\ gap \subseteq 1..rn_seq
  BY <1>2 DEF Inv, ReaderInv, Seen, WriterInv
<1>4. gap \subseteq Nat /\ \A t \in gap : t <= rn_seq  BY <1>3
<1>5. a \in gap  BY <1>1, <1>4, LeastOf
<1>6. a \in Nat  BY <1>4, <1>5
<1> HIDE DEF a
<1>7. b \in Nat /\ b \in {a} \cup {t + 1 : t \in gap}  BY <1>3, <1>4, <1>6, RunEndOf
<1> HIDE DEF b
<1>8. b <= rn_seq + 1  BY <1>3, <1>4, <1>5, <1>6, <1>7
<1>9. /\ Gap(primary, a, b) = primary /\ Chain(primary, primary, {}) = {}
      /\ in_sync # "SYNC" => Gap(secondary, a, b) = secondary
                             /\ Chain(secondary, secondary, {}) = {}
  BY <1>2, <1>7, <1>8, OldGap
<1>10. primary' = primary /\ secondary' = secondary  BY <1>1, <1>9
<1>11. in_sync \in {"OUT_OF_SYNC", "TLCATCHUP", "SYNC"}  BY <1>2 DEF Typed
<1>12. Deliver({})  BY <1>1, <1>9, <1>10, <1>11
<1>13. GoesOver(in_sync')  BY <1>1, <1>2, SyncedGoesOver
<1>14. last_seq' \in Seqs /\ end_of_tl_seq' \in 0..MAX_SEQ_NUMBER
       /\ {ack_requested', acknack_xevent', have_seen_heartbeat'} \subseteq BOOLEAN
  BY <1>1, <1>2 DEF Typed, acking
<1>15. gap' \subseteq 1..rn_seq  BY <1>1, <1>3
<1>16. UNCHANGED <<writer, up, buffers>> /\ down' \subseteq down /\ have_seen_heartbeat'
  BY <1>1, <1>2, <1>10 DEF buffers
<1>17. QED  BY <1>2, <1>12, <1>13, <1>14, <1>15, <1>16, BuffersKept

\* Sending an AckNack, or none, or ignoring a message changes no buffer.
LEMMA AckStep ==
  ASSUME Inv, UNCHANGED <<writer, have_seen_heartbeat, last_seq, sync, buffers, gap, history>>,
         {ack_requested', acknack_xevent'} \subseteq BOOLEAN,
         down' \subseteq down, NEW msgs, msgs \subseteq Honest, up' \subseteq up \cup msgs
  PROVE  Inv'
<1>1. /\ UNCHANGED <<seq, seq_xmit, whc, rn_seq, has_replied_to_hb, retransmitting, app, packet>>
      /\ UNCHANGED <<have_seen_heartbeat, last_seq, in_sync, end_of_tl_seq, primary, secondary,
                     gap, delivered, disordered>>
  BY DEF writer, cache, match, sync, buffers, history
<1>2. Frontier' = Frontier  BY <1>1 DEF Frontier, Source
<1>3. Sendable' = Sendable /\ Honest' = Honest  BY <1>1, <1>2 DEF Sendable, Honest
<1>4. WriterInv' /\ ReaderInv'
  BY <1>1, <1>2 DEF Inv, WriterInv, ReaderInv, Seen, Unseen, Behind
<1>5. NetworkInv'  BY <1>1, <1>3 DEF Inv, NetworkInv
<1>6. Typed'  BY <1>1 DEF Inv, Typed
<1>7. QED  BY <1>4, <1>5, <1>6 DEF Inv

\* What the next sample to deliver is bounded by.
LEMMA FrontierBounds ==
  ASSUME Inv
  PROVE  /\ Frontier \in 1..(seq + 1) /\ Frontier \in Nat
         /\ rn_seq = Start \/ rn_seq < Frontier
         /\ have_seen_heartbeat => rn_seq < Frontier
<1>1. seq \in Nat  BY Counters DEF Inv
<1>2. CASE have_seen_heartbeat
  <2>1. Seen /\ in_sync \in {"OUT_OF_SYNC", "TLCATCHUP", "SYNC"}
    BY <1>2 DEF Inv, ReaderInv, Typed
  <2>2. Ordered(Source, seq)  BY <2>1 DEF Seen, Behind, Follows, Source
  <2>3. QED  BY <1>1, <2>1, <2>2 DEF Ordered, Seen, Frontier
<1>3. CASE ~have_seen_heartbeat
  <2>1. Unseen  BY <1>3 DEF Inv, ReaderInv
  <2>2. Frontier = 1  BY <2>1 DEF Unseen, Frontier, Source, Empty
  <2>3. QED  BY <1>1, <1>3, <2>1, <2>2 DEF Unseen
<1>4. QED  BY <1>2, <1>3

\* The AckNacks the reader sends.
LEMMA AckHonest ==
  ASSUME Inv, have_seen_heartbeat
  PROVE  /\ AckNack(Source.next, BitmapEnd(Source, last_seq),
                    Missing(Source, last_seq), FALSE) \in Honest
         /\ AckNack(Source.next, Source.next, {}, FALSE) \in Honest
<1> DEFINE end == BitmapEnd(Source, last_seq)
           missing == Missing(Source, last_seq)
<1>1. seq \in Nat /\ seq <= MaxSeq /\ last_seq \in Seqs /\ Frontier = Source.next
  BY DEF Inv, WriterInv, Typed, Frontier
<1>2. Source.next \in 1..MAX_SEQ_NUMBER /\ Source.next \in Nat
  BY <1>1, FrontierBounds, Constants
<1>3. end \in 1..MAX_SEQ_NUMBER /\ end \in Nat
  <2>1. last_seq \in Nat /\ last_seq <= MaxSeq  BY <1>1, Constants
  <2>2. QED  BY <1>2, <2>1, Constants DEF BitmapEnd
<1>4. missing \subseteq 1..MaxSeq
  <2>1. missing \subseteq Source.next..(end - 1)  BY DEF Missing
  <2> HIDE DEF missing, end
  <2>2. QED  BY <1>2, <1>3, <2>1, Constants
<1> HIDE DEF missing, end
<1>5. AckNack(Source.next, end, missing, FALSE) \in ToWriter
      /\ AckNack(Source.next, Source.next, {}, FALSE) \in ToWriter
  BY <1>2, <1>3, <1>4 DEF AckNack, ToWriter
<1>6. /\ AckNack(Source.next, end, missing, FALSE).base <= Frontier
      /\ AckNack(Source.next, Source.next, {}, FALSE).base <= Frontier
  BY <1>1, <1>2 DEF AckNack
<1>7. AckNack(Source.next, end, missing, FALSE) \in Honest
      /\ AckNack(Source.next, Source.next, {}, FALSE) \in Honest
  BY <1>5, <1>6 DEF Honest
<1>8. QED  BY <1>7 DEF end, missing

\* The steps that send AckNacks, or ignore a message.
LEMMA AcksInv ==
  ASSUME Inv, \/ \E m \in down : Ignore(m)
              \/ PreemptiveAckNack \/ SendNack \/ SendAck \/ SuppressAck
  PROVE  Inv'
<1>0. {ack_requested, acknack_xevent} \subseteq BOOLEAN  BY DEF Inv, Typed
<1>1. ASSUME NEW m \in down, Ignore(m)  PROVE Inv'
  <2>1. UNCHANGED <<writer, proxy, up>> /\ down' \subseteq down
    BY <1>1, TakenOut DEF Ignore
  <2>2. UNCHANGED <<writer, have_seen_heartbeat, last_seq, sync, buffers, gap, history>>
        /\ UNCHANGED <<ack_requested, acknack_xevent>>
    BY <2>1 DEF proxy, acking
  <2>3. {} \subseteq Honest /\ up' \subseteq up \cup {}  BY <2>1
  <2>4. QED  BY <1>0, <2>1, <2>2, <2>3, AckStep
<1>2. CASE PreemptiveAckNack
  <2> DEFINE m == AckNack(1, 1, {}, TRUE)
  <2>1. UNCHANGED <<writer, proxy, down>> /\ up' \subseteq up \cup {m}
    BY <1>2, TakenIn DEF PreemptiveAckNack, ToWriterNetwork
  <2>2. UNCHANGED <<writer, have_seen_heartbeat, last_seq, sync, buffers, gap, history>>
        /\ UNCHANGED <<ack_requested, acknack_xevent>>
    BY <2>1 DEF proxy, acking
  <2>3. {m} \subseteq Honest
    <3>1. 1 \in 1..MAX_SEQ_NUMBER  BY Constants
    <3>2. QED  BY <3>1 DEF AckNack, ToWriter, Honest
  <2> HIDE DEF m
  <2>4. QED  BY <1>0, <2>1, <2>2, <2>3, AckStep
<1>3. CASE SendNack
  <2> DEFINE m == AckNack(Source.next, BitmapEnd(Source, last_seq),
                          Missing(Source, last_seq), FALSE)
  <2>1. /\ have_seen_heartbeat /\ ack_requested' = FALSE
        /\ UNCHANGED <<writer, have_seen_heartbeat, last_seq, sync, buffers, gap,
                       acknack_xevent, history, down>>
        /\ up' \subseteq up \cup {m}
    BY <1>3, TakenIn DEF SendNack, ToWriterNetwork
  <2>2. {m} \subseteq Honest  BY <2>1, AckHonest
  <2> HIDE DEF m
  <2>3. QED  BY <1>0, <2>1, <2>2, AckStep
<1>4. CASE SendAck
  <2> DEFINE m == AckNack(Source.next, Source.next, {}, FALSE)
  <2>1. /\ have_seen_heartbeat /\ ack_requested' = FALSE /\ acknack_xevent' \in BOOLEAN
        /\ UNCHANGED <<writer, have_seen_heartbeat, last_seq, sync, buffers, gap, history, down>>
        /\ up' \subseteq up \cup {m}
    BY <1>4, TakenIn DEF SendAck, ToWriterNetwork
  <2>2. {m} \subseteq Honest  BY <2>1, AckHonest
  <2> HIDE DEF m
  <2>3. QED  BY <1>0, <2>1, <2>2, AckStep
<1>5. CASE SuppressAck
  <2>1. /\ UNCHANGED <<writer, have_seen_heartbeat, last_seq, sync, buffers, gap,
                       ack_requested, history, down, up>>
        /\ acknack_xevent' = FALSE
    BY <1>5 DEF SuppressAck
  <2>2. {} \subseteq Honest /\ up' \subseteq up \cup {}  BY <2>1
  <2>3. QED  BY <1>0, <2>1, <2>2, AckStep
<1>6. QED  BY <1>1, <1>2, <1>3, <1>4, <1>5
-----------------------------------------------------------------------------
(* The theorems.                                                           *)

\* The invariant holds at first,
LEMMA InitInv == Init => Inv
<1> SUFFICES ASSUME Init  PROVE Inv
  OBVIOUS
<1>1. Frontier = 1  BY DEF Init, Frontier, Source, Empty
<1>2. (Start + 1)..Start = {} /\ (Start + 1)..(Frontier - 1) = {}  BY <1>1, Constants
<1>3. WriterInv  BY <1>2, Constants DEF Init, WriterInv
<1>4. NetworkInv  BY DEF Init, NetworkInv
<1>5. ReaderInv  BY <1>2 DEF Init, ReaderInv, Unseen
<1>6. Typed
  <2>1. MAX_SEQ_NUMBER \in 0..MAX_SEQ_NUMBER /\ 0 \in Seqs  BY Constants
  <2>2. /\ app \in {"idle", "throttled", "packing"} /\ (app = "packing") = (packet # {})
        /\ in_sync \in {"OUT_OF_SYNC", "TLCATCHUP", "SYNC"} /\ in_sync # "SYNC"
    BY DEF Init
  <2>3. /\ {has_replied_to_hb, retransmitting, have_seen_heartbeat, ack_requested,
            acknack_xevent} \subseteq BOOLEAN
        /\ last_seq = 0 /\ end_of_tl_seq = MAX_SEQ_NUMBER
    BY DEF Init
  <2>4. QED  BY <2>1, <2>2, <2>3 DEF Typed
<1>7. QED  BY <1>3, <1>4, <1>5, <1>6 DEF Inv

\* and every step keeps it.
LEMMA NextInv ==
  ASSUME Inv, KeepAll, [Next]_vars
  PROVE  Inv'
<1>1. CASE Write \/ Resume
  BY <1>1, WriteSampleInv DEF Write, Resume
<1>2. CASE Throttle \/ Timeout \/ Send \/ SendHeartbeat
  BY <1>2, SendInv
<1>3. ASSUME NEW m \in up, HandleAckNack(m)  PROVE Inv'
  BY <1>3, HandleAckNackInv
<1>4. ASSUME NEW m \in down, HandleHeartbeat(m)  PROVE Inv'
  BY <1>4, HandleHeartbeatInv
<1>5. ASSUME NEW m \in down, HandleData(m)  PROVE Inv'
  BY <1>5, HandleDataInv
<1>6. ASSUME NEW m \in down, HandleGap(m)  PROVE Inv'
  BY <1>6, HandleGapInv
<1>7. CASE HandleOneGap
  BY <1>7, HandleOneGapInv
<1>8. CASE (\E m \in down : Ignore(m)) \/ PreemptiveAckNack \/ SendNack \/ SendAck
           \/ SuppressAck
  BY <1>8, AcksInv
<1>9. CASE UNCHANGED vars
  <2>1. UNCHANGED <<writer, have_seen_heartbeat, last_seq, sync, buffers, gap, history,
                    ack_requested, acknack_xevent, down, up>>
    BY <1>9 DEF vars, proxy, acking
  <2>2. {ack_requested', acknack_xevent'} \subseteq BOOLEAN
    BY <2>1 DEF Inv, Typed
  <2>3. {} \subseteq Honest /\ up' \subseteq up \cup {} /\ down' \subseteq down  BY <2>1
  <2>4. QED  BY <2>1, <2>2, <2>3, AckStep
<1>10. QED
  BY <1>1, <1>2, <1>3, <1>4, <1>5, <1>6, <1>7, <1>8, <1>9 DEF Next, Writer, Reader

\* The writer keeps what is not acknowledged, messages say nothing false, and
\* the buffers of the reader agree.
THEOREM Invariance == KeepAll => (Spec => []Inv)
<1> SUFFICES ASSUME KeepAll  PROVE Spec => []Inv
  OBVIOUS
<1>1. Init => Inv  BY InitInv
<1>2. Inv /\ [Next]_vars => Inv'  BY NextInv
<1>3. QED  BY <1>1, <1>2, PTL DEF Spec

\* What the reader acknowledged was delivered: the writer may forget it.
THEOREM AcknowledgedDelivered == KeepAll => (Spec => []AckedWasDelivered)
<1> SUFFICES ASSUME KeepAll  PROVE Spec => []AckedWasDelivered
  OBVIOUS
<1>1. Inv => AckedWasDelivered
  <2> SUFFICES ASSUME Inv, NEW s \in (Start + 1)..rn_seq  PROVE s \in delivered
    BY DEF AckedWasDelivered
  <2>1. delivered = (Start + 1)..(Frontier - 1)  BY DEF Inv, ReaderInv
  <2>2. rn_seq \in Nat /\ Start \in Nat  BY Counters DEF Inv
  <2>3. Frontier \in Nat /\ (rn_seq = Start \/ rn_seq < Frontier)  BY FrontierBounds
  <2>4. QED  BY <2>1, <2>2, <2>3
<1>2. Spec => []Inv  BY Invariance
<1>3. QED  BY <1>1, <1>2, PTL

\* Each sample is delivered once, in the order of writing.
THEOREM OnceInOrder == KeepAll => (Spec => []InOrder)
<1> SUFFICES ASSUME KeepAll  PROVE Spec => []InOrder
  OBVIOUS
<1>1. Inv => InOrder  BY DEF Inv, ReaderInv, InOrder
<1>2. Spec => []Inv  BY Invariance
<1>3. QED  BY <1>1, <1>2, PTL

-----------------------------------------------------------------------------
(* The refinement.                                                         *)

\* A handler of the reader delivers, or leaves what was delivered alone.
LEMMA ReaderDelivers ==
  ASSUME Inv, Reader
  PROVE  UNCHANGED <<seq, rn_seq>> /\ delivered \subseteq delivered'
<1>1. UNCHANGED writer
  BY DEF Reader, HandleHeartbeat, HandleData, HandleGap, Ignore, HandleOneGap,
         PreemptiveAckNack, SendNack, SendAck, SuppressAck
<1>2. UNCHANGED <<seq, rn_seq>>  BY <1>1 DEF writer, cache, match
<1>3. delivered \subseteq delivered'
  <2>1. ASSUME NEW chain, Deliver(chain)  PROVE delivered \subseteq delivered'
    BY <2>1 DEF Deliver
  <2>2. ASSUME UNCHANGED history  PROVE delivered \subseteq delivered'
    BY <2>2 DEF history
  <2>3. ASSUME UNCHANGED proxy  PROVE delivered \subseteq delivered'
    BY <2>3 DEF proxy, history
  <2>4. QED
    BY <2>1, <2>2, <2>3
       DEF Reader, HandleHeartbeat, HandleData, HandleGap, Ignore, HandleOneGap,
           PreemptiveAckNack, SendNack, SendAck, SuppressAck
<1>4. QED  BY <1>2, <1>3

Bounded == Frontier \in Nat /\ Frontier <= seq + 1 /\ (rn_seq = Start \/ rn_seq < Frontier)

\* Nothing is delivered that was not written, or left out that was acknowledged,
LEMMA InvBounded == Inv => Bounded
<1> SUFFICES ASSUME Inv  PROVE Bounded
  OBVIOUS
<1>1. Frontier \in 1..(seq + 1) /\ Frontier \in Nat
      /\ (rn_seq = Start \/ rn_seq < Frontier)
  BY FrontierBounds
<1>2. QED  BY <1>1, Counters DEF Bounded, Inv

\* also in the next state.
LEMMA NextBounded == Inv' => Bounded'
BY InvBounded, PTL

\* More delivered, up to n: a step of the channel.
LEMMA ChannelDelivers ==
  ASSUME Inv, Inv', UNCHANGED <<seq, rn_seq>>, delivered \subseteq delivered',
         delivered' # delivered
  PROVE  Channel!Deliver
<1> DEFINE sent == (Start + 1)..seq
           f == Frontier'
           n == f - 1
<1>1. /\ Start \in Nat /\ seq \in Nat /\ seq' = seq
      /\ delivered = (Start + 1)..(Frontier - 1) /\ delivered' = (Start + 1)..n
  BY Counters DEF Inv, ReaderInv
<1>2. Frontier \in Nat /\ f \in Nat /\ f <= seq + 1
  BY <1>1, InvBounded, NextBounded DEF Bounded
<1> HIDE DEF f
<1>3. n \in Int /\ n <= seq  BY <1>1, <1>2
<1> HIDE DEF n
<1>4. PICK x \in delivered' : x \notin delivered  OBVIOUS
<1>5. n \in sent \ delivered  BY <1>1, <1>2, <1>3, <1>4
<1>6. delivered' = {s \in sent : s <= n}  BY <1>1, <1>3
<1>7. UNCHANGED <<sent, (Start + 1)..rn_seq>>  OBVIOUS
<1>8. QED  BY <1>5, <1>6, <1>7 DEF Channel!Deliver

\* An AckNack releases what it acknowledges.
LEMMA ChannelReleases ==
  ASSUME Inv, NEW m \in up, HandleAckNack(m), rn_seq' # rn_seq
  PROVE  Channel!Release
<1> DEFINE released == (Start + 1)..rn_seq
           acked == rn_seq'
<1>1. UNCHANGED <<seq, proxy>>  BY DEF HandleAckNack
<1>2. delivered' = delivered /\ Frontier' = Frontier
      /\ have_seen_heartbeat' = have_seen_heartbeat
  BY <1>1 DEF proxy, history, buffers, sync, Frontier, Source
<1>3. Inv'  BY HandleAckNackInv
<1>4. /\ Start \in Nat /\ rn_seq \in Nat /\ acked \in Nat /\ Start <= rn_seq
      /\ delivered = (Start + 1)..(Frontier - 1)
  BY <1>3, Constants DEF Inv, WriterInv, ReaderInv
<1>5. rn_seq < acked
  <2>1. rn_seq' = IF m.base - 1 <= rn_seq THEN rn_seq
                  ELSE IF m.base - 1 <= seq THEN m.base - 1 ELSE seq
    BY DEF HandleAckNack
  <2>2. m.base \in 1..MAX_SEQ_NUMBER  BY DEF Inv, NetworkInv, Honest, ToWriter
  <2>3. seq \in Nat /\ rn_seq <= seq /\ m.base \in Nat
    BY <2>2, Constants DEF Inv, WriterInv
  <2>4. QED  BY <1>4, <2>1, <2>3
<1>6. Frontier \in Nat /\ acked < Frontier
  <2>1. rn_seq' = Start \/ rn_seq' < Frontier'  BY <1>3, NextBounded DEF Bounded
  <2>2. Frontier \in Nat  BY FrontierBounds
  <2>3. QED  BY <1>2, <1>4, <1>5, <2>1, <2>2
<1> HIDE DEF acked
<1>7. acked \in delivered \ released  BY <1>4, <1>5, <1>6
<1>8. (Start + 1)..acked = {s \in delivered : s <= acked}  BY <1>4, <1>6
<1>9. ((Start + 1)..rn_seq)' = {s \in delivered : s <= acked}
  BY <1>8 DEF acked
<1>10. UNCHANGED <<(Start + 1)..seq, delivered>>  BY <1>1, <1>2
<1>11. QED  BY <1>7, <1>9, <1>10 DEF Channel!Release

\* Writing a sample appends it.
LEMMA ChannelWrites ==
  ASSUME Inv, WriteSample
  PROVE  Channel!Write
<1>1. Start \in Nat /\ seq \in Nat /\ Start <= seq
  BY Constants DEF Inv, WriterInv
<1>2. seq' = seq + 1 /\ UNCHANGED <<rn_seq, delivered>>
  BY DEF WriteSample, match, proxy, history
<1>3. seq \in {Start} \cup ((Start + 1)..seq)  BY <1>1
<1>4. ((Start + 1)..seq)' = (Start + 1)..(seq + 1)  BY <1>2
<1>5. UNCHANGED <<delivered, (Start + 1)..rn_seq>>  BY <1>2
<1>6. QED  BY <1>3, <1>4, <1>5 DEF Channel!Write

\* With KEEP_ALL, losses, copies and overtaking on the network, water marks and
\* the two reorder buffers show nowhere but in delay.
THEOREM Refinement == KeepAll => (Spec => ImplementsChannel)
<1> SUFFICES ASSUME KeepAll  PROVE Spec => ImplementsChannel
  OBVIOUS
<1>1. Init => Channel!Init
  <2> SUFFICES ASSUME Init  PROVE Channel!Init
    OBVIOUS
  <2>1. seq = Start /\ rn_seq = Start /\ delivered = {}  BY DEF Init
  <2>2. (Start + 1)..Start = {}  BY Constants
  <2>3. QED  BY <2>1, <2>2 DEF Channel!Init
<1>2. Inv /\ Inv' /\ [Next]_vars
        => [Channel!Next]_<<(Start + 1)..seq, delivered, (Start + 1)..rn_seq>>
  <2> SUFFICES ASSUME Inv, Inv', [Next]_vars,
                      ~ UNCHANGED <<(Start + 1)..seq, delivered, (Start + 1)..rn_seq>>
               PROVE  Channel!Next
    OBVIOUS
  <2>1. ~ UNCHANGED <<seq, rn_seq, delivered>>  OBVIOUS
  <2>2. CASE Write \/ Resume
    <3>1. WriteSample  BY <2>2 DEF Write, Resume
    <3>2. QED  BY <3>1, ChannelWrites DEF Channel!Next
  <2>3. ASSUME NEW m \in up, HandleAckNack(m)  PROVE Channel!Next
    <3>1. UNCHANGED <<seq, delivered>>  BY <2>3 DEF HandleAckNack, proxy, history
    <3>2. rn_seq' # rn_seq  BY <2>1, <3>1
    <3>3. QED  BY <2>3, <3>2, ChannelReleases DEF Channel!Next
  <2>4. CASE Throttle \/ Timeout \/ Send \/ SendHeartbeat
    <3>1. UNCHANGED <<seq, rn_seq, delivered>>
      BY <2>4 DEF Throttle, Timeout, Send, SendHeartbeat, writer, cache, match, proxy, history
    <3>2. QED  BY <2>1, <3>1
  <2>5. CASE Reader
    <3>1. UNCHANGED <<seq, rn_seq>> /\ delivered \subseteq delivered'
      BY <2>5, ReaderDelivers
    <3>2. delivered' # delivered  BY <2>1, <3>1
    <3>3. QED  BY <3>1, <3>2, ChannelDelivers DEF Channel!Next
  <2>6. CASE UNCHANGED vars
    <3>1. UNCHANGED <<seq, rn_seq, delivered>>
      BY <2>6 DEF vars, writer, cache, match, proxy, history
    <3>2. QED  BY <2>1, <3>1
  <2>7. QED  BY <2>2, <2>3, <2>4, <2>5, <2>6 DEF Next, Writer
<1>3. Spec => []Inv  BY Invariance
<1>4. QED  BY <1>1, <1>2, <1>3, PTL DEF Spec, ImplementsChannel, Channel!Spec
=============================================================================
