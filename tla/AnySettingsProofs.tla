------------------------- MODULE AnySettingsProofs -------------------------
(***************************************************************************)
(* What Reliability keeps whatever the history, the water marks and the    *)
(* size of the reorder buffers: types, reorder buffers that are in order   *)
(* and not over their limit, and a writer that forgets nothing too early.  *)
(*                                                                         *)
(* Buffers overflow here, gaps lie in them, and with KEEP_LAST samples are *)
(* dropped unacknowledged, so what a buffer holds is described by its      *)
(* shape only (ReorderProofs) and not, as in ReliabilityProofs, exactly.   *)
(***************************************************************************)
EXTENDS Reliability, ReorderProofs

\* The reorder buffers hold at most max_samples elements, every interval has
\* one, and none could have been delivered yet.
BuffersSound == WellKept(primary) /\ WellKept(secondary)

-----------------------------------------------------------------------------
(* The inductive invariant: the types, by owner, and the buffers.          *)

WriterTyped ==
  /\ seq \in Start..MaxSeq /\ seq_xmit \in Start..seq
  /\ whc \subseteq (rn_seq + 1)..seq
  /\ rn_seq \in Start..seq
  /\ {has_replied_to_hb, retransmitting} \subseteq BOOLEAN
  /\ app \in {"idle", "throttled", "packing"}
  /\ packet \subseteq ToReader /\ (app = "packing") = (packet # {})

ReaderTyped ==
  /\ {have_seen_heartbeat, ack_requested, acknack_xevent} \subseteq BOOLEAN
  /\ last_seq \in Seqs
  /\ in_sync \in {"OUT_OF_SYNC", "TLCATCHUP", "SYNC"}
  /\ end_of_tl_seq \in 0..MAX_SEQ_NUMBER
  /\ gap \subseteq 1..MaxSeq
  /\ delivered \subseteq 1..MaxSeq /\ disordered \subseteq delivered

BuffersFit == Fits(primary, MaxSeq) /\ Fits(secondary, MaxSeq)

NetworkTyped == down \subseteq ToReader /\ up \subseteq ToWriter

SoundInv == WriterTyped /\ ReaderTyped /\ BuffersFit /\ BuffersSound /\ NetworkTyped

-----------------------------------------------------------------------------
(* What the definitions give.                                              *)

\* The settings are numbers.
LEMMA Constants ==
  /\ Start \in Nat /\ MaxSeq \in Nat /\ Start <= MaxSeq
  /\ WhcHigh \in Nat /\ WhcLow \in Nat /\ WhcLow <= WhcHigh
  /\ MaxSamples \in Nat /\ 1 <= MaxSamples
  /\ MAX_SEQ_NUMBER = MaxSeq + 1 /\ Seqs = 0..MaxSeq
BY SeqAssumption, HistoryAssumption, MaxSamplesAssumption DEF MAX_SEQ_NUMBER, Seqs

\* The counters of the writer are numbers, in this order.
LEMMA WriterNumbers ==
  ASSUME WriterTyped
  PROVE  /\ Start \in Nat /\ rn_seq \in Nat /\ seq \in Nat /\ seq_xmit \in Nat /\ MaxSeq \in Nat
         /\ Start <= rn_seq /\ rn_seq <= seq /\ Start <= seq_xmit /\ seq_xmit <= seq
         /\ Start <= seq /\ seq <= MaxSeq /\ whc \subseteq Nat /\ whc \subseteq 1..seq
<1>1. Start \in Nat /\ MaxSeq \in Nat /\ seq \in Start..MaxSeq /\ seq_xmit \in Start..seq
      /\ rn_seq \in Start..seq /\ whc \subseteq (rn_seq + 1)..seq
  BY Constants DEF WriterTyped
<1>2. (rn_seq + 1)..seq \subseteq 1..seq  BY <1>1
<1>3. QED  BY <1>1, <1>2

\* The network makes no message up, neither when messages are sent
LEMMA TakenIn ==
  ASSUME NEW net, NEW msgs, NEW max, NEW kept \in Into(net, msgs, max)
  PROVE  kept \subseteq net \cup msgs
BY DEF Into

\* nor when one is received.
LEMMA TakenOut ==
  ASSUME NEW net, NEW m, NEW kept \in Without(net, m)
  PROVE  kept \subseteq net
BY DEF Without

\* The parts make up the whole.
LEMMA SoundIsTyped == SoundInv => TypeOK
<1> SUFFICES ASSUME SoundInv  PROVE TypeOK
  OBVIOUS
<1>1. {primary, secondary} \subseteq Reorders(1..MAX_SEQ_NUMBER)
  <2>1. 1..MaxSeq \subseteq 1..MAX_SEQ_NUMBER  BY Constants
  <2>2. ASSUME NEW r, Fits(r, MaxSeq)  PROVE r \in Reorders(1..MAX_SEQ_NUMBER)
    BY <2>1, <2>2, Constants DEF Fits, Reorders
  <2>3. QED  BY <2>2 DEF SoundInv, BuffersFit
<1>2. QED
  BY <1>1 DEF SoundInv, WriterTyped, ReaderTyped, NetworkTyped, TypeOK

-----------------------------------------------------------------------------
(* The messages.                                                           *)

\* A heartbeat announces a range of numbers.
LEMMA HeartbeatTyped ==
  ASSUME NEW n \in Nat, n <= MaxSeq, NEW c \in SUBSET (1..n), NEW x \in Nat, NEW b \in BOOLEAN
  PROVE  HeartbeatOf(c, n, x, b) \in ToReader
<1> DEFINE first == IF c = {} THEN n + 1 ELSE Least(c)
           last == IF c = {} \/ b \/ x >= n THEN n
                   ELSE IF x >= first THEN x ELSE first - 1
<1>1. MaxSeq \in Nat  BY Constants
<1>2. first \in Nat /\ 1 <= first /\ first <= n + 1
  <2>1. CASE c = {}  BY <2>1
  <2>2. CASE c # {}
    <3>1. c \subseteq Nat  OBVIOUS
    <3>2. Least(c) \in c  BY <2>2, <3>1, LeastOf
    <3>3. Least(c) \in 1..n  BY <3>2
    <3>4. first = Least(c)  BY <2>2
    <3> HIDE DEF first
    <3>5. QED  BY <3>3, <3>4
  <2>3. QED  BY <2>1, <2>2
<1> HIDE DEF first
<1>3. last \in Nat /\ last <= n  BY <1>2
<1>4. HeartbeatOf(c, n, x, b) = [type |-> "heartbeat", first |-> first, last |-> last]
  BY DEF HeartbeatOf, first
<1> HIDE DEF last
<1>5. first \in 1..MAX_SEQ_NUMBER /\ last \in Seqs  BY <1>1, <1>2, <1>3, Constants
<1>6. QED  BY <1>4, <1>5 DEF ToReader, Heartbeats

\* The samples of the cache from s on are not before the gap's end.
LEMMA GrowGapTyped ==
  ASSUME WriterTyped, NEW c \in SUBSET (1..seq), NEW s
  PROVE  GrowGap(c, s) \in Nat /\ GrowGap(c, s) <= seq + 1
<1> DEFINE later == {t \in c : t >= s}
<1>1. seq \in Nat /\ seq_xmit \in Nat /\ seq_xmit <= seq  BY WriterNumbers
<1>2. CASE later = {}
  <2>1. GrowGap(c, s) = seq_xmit + 1  BY <1>2 DEF GrowGap
  <2>2. QED  BY <1>1, <2>1
<1>3. CASE later # {}
  <2>1. later \subseteq 1..seq /\ later \subseteq Nat
    <3>1. c \subseteq 1..seq /\ 1..seq \subseteq Nat  BY <1>1
    <3> HIDE DEF later
    <3>2. QED  BY <3>1 DEF later
  <2>2. GrowGap(c, s) = IF Least(later) > seq_xmit THEN seq_xmit ELSE Least(later)
    BY <1>3 DEF GrowGap
  <2> HIDE DEF later
  <2>3. Least(later) \in later  BY <1>3, <2>1, LeastOf
  <2>4. Least(later) \in Nat /\ Least(later) <= seq
    <3>1. Least(later) \in 1..seq  BY <2>1, <2>3
    <3>2. QED  BY <1>1, <3>1
  <2>5. QED  BY <1>1, <2>2, <2>4
<1>4. QED  BY <1>2, <1>3

\* A gap is about numbers.
LEMMA GapTyped ==
  ASSUME WriterTyped, NEW c \in SUBSET (1..seq), NEW m, NEW lost \in SUBSET (1..MaxSeq),
         lost # {}
  PROVE  GapOf(c, m, lost) \in ToReader
<1> DEFINE start == Least(lost)
           end == RunEnd(lost, start)
           grown == IF end = m.end THEN start..(GrowGap(c, end) - 1) ELSE start..(end - 1)
           all == grown \cup {s \in lost : s >= end}
           last == IF all = {} THEN start - 1 ELSE Greatest(all)
<1>1. seq \in Nat /\ seq <= MaxSeq /\ MaxSeq \in Nat  BY WriterNumbers
<1>2. lost \subseteq Nat /\ \A t \in lost : t <= MaxSeq  BY <1>1
<1>3. start \in lost  BY <1>2, LeastOf
<1> HIDE DEF start
<1>4. start \in Nat /\ 1 <= start /\ start <= MaxSeq  BY <1>1, <1>3
<1>5. end \in Nat /\ end \in {start} \cup {t + 1 : t \in lost}
  BY <1>1, <1>2, <1>4, RunEndOf
<1>6. end <= MaxSeq + 1  BY <1>1, <1>2, <1>4, <1>5
<1> HIDE DEF end
<1>7. grown \subseteq 1..MaxSeq
  <2> DEFINE e1 == IF end = m.end THEN GrowGap(c, end) ELSE end
  <2>1. grown = start..(e1 - 1)  OBVIOUS
  <2>2. GrowGap(c, end) \in Nat /\ GrowGap(c, end) <= seq + 1  BY GrowGapTyped
  <2>3. e1 \in Nat /\ e1 <= MaxSeq + 1  BY <1>1, <1>5, <1>6, <2>2
  <2> HIDE DEF e1, grown
  <2>4. QED  BY <1>1, <1>4, <2>1, <2>3
<1> HIDE DEF grown
<1>8. all \subseteq 1..MaxSeq  BY <1>7
<1>9. last \in Seqs
  <2>1. CASE all = {}  BY <1>1, <1>4, <2>1, Constants
  <2>2. CASE all # {}
    <3>1. all \subseteq Nat /\ \A t \in all : t <= MaxSeq  BY <1>1, <1>8
    <3> HIDE DEF all
    <3>2. Greatest(all) \in all  BY <1>1, <2>2, <3>1, GreatestOf
    <3>3. Greatest(all) \in 1..MaxSeq  BY <1>8, <3>2 DEF all
    <3>4. last = Greatest(all)  BY <2>2
    <3> HIDE DEF last
    <3>5. QED  BY <1>1, <3>3, <3>4, Constants
  <2>3. QED  BY <2>1, <2>2
<1>10. GapOf(c, m, lost) = [type |-> "gap", seqs |-> all, last |-> last]
  BY DEF GapOf, start, end, grown
<1> HIDE DEF all, last
<1>11. QED  BY <1>8, <1>9, <1>10 DEF ToReader, Gaps

\* An AckNack is answered with messages to the reader.
LEMMA AnswerTyped ==
  ASSUME WriterTyped, NEW c \in SUBSET (1..seq), NEW n, NEW m \in ToWriter
  PROVE  Answer(c, n, m) \subseteq ToReader
<1> DEFINE wanted == {s \in m.missing : s <= seq_xmit}
           again == {s \in wanted \cap c : m.base <= n => s > n}
           lost == wanted \ again
<1>1. wanted \subseteq 1..MaxSeq  BY DEF ToWriter
<1>2. again \subseteq 1..MaxSeq /\ lost \in SUBSET (1..MaxSeq)  BY <1>1
<1>3. {Data(s) : s \in again} \subseteq ToReader  BY <1>2 DEF ToReader
<1>4. (IF lost = {} THEN {} ELSE {GapOf(c, m, lost)}) \subseteq ToReader
  <2> HIDE DEF lost
  <2>1. QED  BY <1>2, GapTyped
<1>5. HeartbeatOf(c, seq, seq_xmit, FALSE) \in ToReader
  BY WriterNumbers, HeartbeatTyped
<1>6. QED  BY <1>3, <1>4, <1>5 DEF Answer
-----------------------------------------------------------------------------
(* The steps of the writer.                                                *)

\* They leave the reader alone.
LEMMA WriterStepSound ==
  ASSUME SoundInv, UNCHANGED proxy, WriterTyped', down' \subseteq ToReader, up' \subseteq up
  PROVE  SoundInv'
<1>1. /\ UNCHANGED <<have_seen_heartbeat, last_seq, in_sync, end_of_tl_seq, primary,
                     secondary, gap>>
      /\ UNCHANGED <<ack_requested, acknack_xevent, delivered, disordered>>
  BY DEF proxy, sync, buffers, acking, history
<1>2. ReaderTyped'  BY <1>1 DEF SoundInv, ReaderTyped
<1>3. BuffersFit' /\ BuffersSound'  BY <1>1 DEF SoundInv, BuffersFit, BuffersSound
<1>4. NetworkTyped'  BY DEF SoundInv, NetworkTyped
<1>5. QED  BY <1>2, <1>3, <1>4 DEF SoundInv

\* A sample is numbered, cached and packed.
LEMMA WriteSampleSound ==
  ASSUME SoundInv, WriteSample
  PROVE  SoundInv'
<1>1. WriterTyped  BY DEF SoundInv
<1>2. /\ Start \in Nat /\ rn_seq \in Nat /\ seq \in Nat /\ seq_xmit \in Nat /\ MaxSeq \in Nat
      /\ Start <= rn_seq /\ rn_seq <= seq /\ Start <= seq_xmit /\ seq_xmit <= seq
      /\ seq <= MaxSeq /\ whc \subseteq (rn_seq + 1)..seq
  BY <1>1, WriterNumbers DEF WriterTyped
<1>3. /\ seq < MaxSeq /\ seq' = seq + 1 /\ rn_seq' = rn_seq /\ seq_xmit' = seq_xmit
      /\ UNCHANGED <<has_replied_to_hb, retransmitting, proxy, down, up>>
      /\ app' = "packing" /\ whc' = Inserted(whc, seq')
      /\ \E piggyback \in SUBSET {HeartbeatOf(whc', seq', seq_xmit, TRUE)} :
           packet' = {Data(seq')} \cup piggyback
  BY DEF WriteSample, match
<1>4. whc' \subseteq whc \cup {seq'}  BY <1>3 DEF Inserted
<1>5. whc' \subseteq (rn_seq' + 1)..seq'
  <2>1. seq' \in (rn_seq + 1)..seq' /\ (rn_seq + 1)..seq \subseteq (rn_seq + 1)..seq'
    BY <1>2, <1>3
  <2>2. QED  BY <1>2, <1>3, <1>4, <2>1
<1>6. packet' \subseteq ToReader /\ packet' # {}
  <2>1. (rn_seq' + 1)..seq' \subseteq 1..seq'  BY <1>2, <1>3
  <2>2. whc' \in SUBSET (1..seq') /\ seq' \in Nat /\ seq' <= MaxSeq  BY <1>2, <1>3, <1>5, <2>1
  <2>3. HeartbeatOf(whc', seq', seq_xmit, TRUE) \in ToReader
    BY <1>2, <2>2, HeartbeatTyped
  <2>4. seq' \in 1..MaxSeq  BY <1>2, <1>3
  <2>5. Data(seq') \in ToReader  BY <2>4 DEF ToReader
  <2>6. QED  BY <1>3, <2>3, <2>5
<1>7. seq' \in Start..MaxSeq /\ seq_xmit' \in Start..seq' /\ rn_seq' \in Start..seq'
  BY <1>2, <1>3
<1>8. WriterTyped'
  BY <1>1, <1>3, <1>5, <1>6, <1>7 DEF WriterTyped, ToReader, Heartbeats, Gaps, Seqs, MAX_SEQ_NUMBER
<1>9. QED  BY <1>3, <1>8, WriterStepSound DEF SoundInv, NetworkTyped

\* The other steps of the application and the event thread.
LEMMA SendSound ==
  ASSUME SoundInv, Throttle \/ Timeout \/ Send \/ SendHeartbeat
  PROVE  SoundInv'
<1>1. WriterTyped /\ down \subseteq ToReader /\ packet \subseteq ToReader
  BY DEF SoundInv, NetworkTyped, WriterTyped
<1>2. /\ Start \in Nat /\ seq \in Nat /\ seq_xmit \in Nat /\ seq_xmit <= seq /\ Start <= seq
      /\ seq <= MaxSeq /\ whc \in SUBSET (1..seq)
  BY <1>1, WriterNumbers
<1>3. \A b \in BOOLEAN : HeartbeatOf(whc, seq, seq_xmit, b) \in ToReader
  BY <1>2, HeartbeatTyped
<1>4. down' \subseteq ToReader
  <2>1. ASSUME NEW msgs, msgs \subseteq ToReader, ToNetwork(msgs)  PROVE down' \subseteq ToReader
    BY <1>1, <2>1, TakenIn DEF ToNetwork
  <2>2. QED  BY <1>1, <1>3, <2>1 DEF Throttle, Timeout, Send, SendHeartbeat
<1>5. UNCHANGED <<proxy, up>>
  BY DEF Throttle, Timeout, Send, SendHeartbeat
<1>6. /\ UNCHANGED <<seq, whc, rn_seq, has_replied_to_hb, retransmitting>>
      /\ seq_xmit' \in {seq_xmit, seq}
      /\ app' \in {"idle", "throttled", "packing"}
      /\ packet' \subseteq packet /\ (app' = "packing") = (packet' # {})
  <2>1. CASE Throttle
    BY <1>1, <2>1 DEF Throttle, cache, match, WriterTyped
  <2>2. CASE Timeout
    BY <1>1, <2>2 DEF Timeout, cache, match, WriterTyped
  <2>3. CASE Send
    BY <1>1, <2>3 DEF Send, match
  <2>4. CASE SendHeartbeat
    BY <1>1, <2>4 DEF SendHeartbeat, writer, cache, match, WriterTyped
  <2>5. QED  BY <2>1, <2>2, <2>3, <2>4
<1>7. seq_xmit' \in Start..seq'  BY <1>1, <1>2, <1>6 DEF WriterTyped
<1>8. WriterTyped'
  BY <1>1, <1>6, <1>7 DEF WriterTyped, ToReader, Heartbeats, Gaps, Seqs, MAX_SEQ_NUMBER
<1>9. QED  BY <1>4, <1>5, <1>8, WriterStepSound

\* An AckNack takes what it acknowledges out of the cache, and is answered.
LEMMA HandleAckNackSound ==
  ASSUME SoundInv, NEW m \in up, HandleAckNack(m)
  PROVE  SoundInv'
<1> DEFINE acked == IF m.base - 1 <= rn_seq THEN rn_seq
                    ELSE IF m.base - 1 <= seq THEN m.base - 1 ELSE seq
           kept == {s \in whc : s > acked}
           msgs == IF m.preemptive THEN {HeartbeatOf(kept, seq, seq_xmit, FALSE)}
                   ELSE Answer(kept, acked, m)
<1>1. WriterTyped /\ m \in ToWriter /\ down \subseteq ToReader
  BY DEF SoundInv, NetworkTyped
<1>2. /\ Start \in Nat /\ rn_seq \in Nat /\ seq \in Nat /\ seq_xmit \in Nat /\ MaxSeq \in Nat
      /\ Start <= rn_seq /\ rn_seq <= seq /\ seq <= MaxSeq
      /\ whc \subseteq (rn_seq + 1)..seq /\ whc \subseteq 1..seq
  BY <1>1, WriterNumbers DEF WriterTyped
<1>3. m.base \in Nat
  <2>1. m.base \in 1..MAX_SEQ_NUMBER  BY <1>1 DEF ToWriter
  <2>2. QED  BY <1>2, <2>1, Constants
<1>4. acked \in Nat /\ rn_seq <= acked /\ acked <= seq  BY <1>2, <1>3
<1>5. /\ rn_seq' = acked /\ whc' = kept /\ up' \subseteq up
      /\ UNCHANGED <<seq, seq_xmit, app, packet, proxy>>
      /\ retransmitting' \in BOOLEAN /\ has_replied_to_hb' \in BOOLEAN
      /\ down' \subseteq down \cup msgs
  BY TakenIn, TakenOut DEF HandleAckNack, ToNetwork
<1> HIDE DEF acked
<1>6. kept \in SUBSET (1..seq) /\ kept \subseteq (acked + 1)..seq
  <2>1. ASSUME NEW s \in kept  PROVE s \in (acked + 1)..seq
    <3>1. s \in (rn_seq + 1)..seq /\ s > acked  BY <1>2
    <3>2. QED  BY <1>2, <1>4, <3>1
  <2>2. QED  BY <1>2, <2>1
<1> HIDE DEF kept
<1>7. msgs \subseteq ToReader
  BY <1>1, <1>2, <1>6, HeartbeatTyped, AnswerTyped
<1> HIDE DEF msgs
<1>8. WriterTyped'
  <2>1. rn_seq' \in Start..seq' /\ whc' \subseteq (rn_seq' + 1)..seq'  BY <1>2, <1>4, <1>5, <1>6
  <2>2. QED
    BY <1>1, <1>5, <2>1 DEF WriterTyped, ToReader, Heartbeats, Gaps, Seqs, MAX_SEQ_NUMBER
<1>9. QED  BY <1>1, <1>5, <1>7, <1>8, WriterStepSound
-----------------------------------------------------------------------------
(* The steps of the reader.                                                *)

\* A buffer as it should be.
Good(r) == Fits(r, MaxSeq) /\ WellKept(r)

\* They leave the writer alone.
LEMMA ReaderStepSound ==
  ASSUME SoundInv, UNCHANGED writer, down' \subseteq down, up' \subseteq ToWriter,
         ReaderTyped', Good(primary'), Good(secondary')
  PROVE  SoundInv'
<1>1. UNCHANGED <<seq, seq_xmit, whc, rn_seq, has_replied_to_hb, retransmitting, app, packet>>
  BY DEF writer, cache, match
<1>2. WriterTyped'
  BY <1>1 DEF SoundInv, WriterTyped
<1>3. NetworkTyped'  BY DEF SoundInv, NetworkTyped
<1>4. BuffersFit' /\ BuffersSound'  BY DEF Good, BuffersFit, BuffersSound
<1>5. QED  BY <1>2, <1>3, <1>4 DEF SoundInv

\* What is delivered is samples.
LEMMA DeliverSound ==
  ASSUME ReaderTyped, NEW chain, chain \subseteq 1..MaxSeq, Deliver(chain)
  PROVE  delivered' \subseteq 1..MaxSeq /\ disordered' \subseteq delivered'
BY DEF ReaderTyped, Deliver

LEMMA ChainSound ==
  ASSUME NEW r, Good(r), NEW r1, NEW S, S \subseteq 1..MaxSeq
  PROVE  Chain(r, r1, S) \subseteq 1..MaxSeq
<1>1. r.samples \subseteq 1..MaxSeq  BY DEF Good, Fits
<1>2. QED  BY <1>1 DEF Chain

\* A reader out of sync, catching up or in sync goes on as one of them.
LEMMA SyncedSound ==
  ASSUME ReaderTyped, NEW n
  PROVE  Synced(n) \in {"OUT_OF_SYNC", "TLCATCHUP", "SYNC"}
BY DEF ReaderTyped, Synced

\* The gap a heartbeat stands for keeps a buffer good, empty as it may be.
LEMMA StartGapSound ==
  ASSUME NEW r, Good(r), NEW b \in 1..(MaxSeq + 1)
  PROVE  Good(Gap(r, 1, b))
<1>1. MaxSeq \in Nat /\ r.next \in Nat /\ 1 <= r.next
  BY Constants, FewElements DEF Good
<1>2. CASE b = 1
  <2>1. b <= r.next  BY <1>1, <1>2
  <2>2. Gap(r, 1, b) = r  BY <2>1 DEF Gap
  <2>3. QED  BY <2>2
<1>3. CASE b # 1
  <2>1. 1 \in 1..MaxSeq /\ 1 < b  BY <1>1, <1>3
  <2>2. QED  BY <1>1, <2>1, GapKept DEF Good
<1>4. QED  BY <1>2, <1>3

\* A heartbeat moves the buffers on, or leaves them.
LEMMA HandleHeartbeatSound ==
  ASSUME SoundInv, NEW m \in down, HandleHeartbeat(m)
  PROVE  SoundInv'
<1>1. /\ ReaderTyped /\ Good(primary) /\ Good(secondary) /\ m \in ToReader /\ up \subseteq ToWriter
  BY DEF SoundInv, BuffersFit, BuffersSound, NetworkTyped, Good
<1>2. MaxSeq \in Nat /\ m.first \in 1..(MaxSeq + 1) /\ m.last \in 0..MaxSeq
  <2>1. m.type = "heartbeat"  BY DEF HandleHeartbeat
  <2>2. m \in Heartbeats  BY <1>1, <2>1 DEF ToReader, Data, Gaps
  <2>3. QED  BY <2>2, Constants DEF Heartbeats
<1>3. /\ UNCHANGED <<writer, gap, up>> /\ down' \subseteq down /\ have_seen_heartbeat' = TRUE
      /\ last_seq' \in {m.last, last_seq} /\ end_of_tl_seq' \in {m.last, end_of_tl_seq}
      /\ ack_requested' \in {ack_requested, TRUE} /\ acknack_xevent' \in {acknack_xevent, TRUE}
      /\ \E b \in {m.first, m.last + 1} : primary' = Gap(primary, 1, b)
      /\ secondary' \in {secondary, Gap(secondary, 1, m.first)}
      /\ \E n : in_sync' = Synced(n)
      /\ Deliver(CASE in_sync = "SYNC" -> Chain(primary, primary', {})
                   [] in_sync = "OUT_OF_SYNC" -> Chain(secondary, secondary', {})
                   [] OTHER -> {})
  BY TakenOut DEF HandleHeartbeat
<1>4. m.last + 1 \in 1..(MaxSeq + 1)  BY <1>2
<1>5. Good(primary') /\ Good(secondary')  BY <1>1, <1>2, <1>3, <1>4, StartGapSound
<1>6. in_sync' \in {"OUT_OF_SYNC", "TLCATCHUP", "SYNC"}  BY <1>1, <1>3, SyncedSound
<1>7. delivered' \subseteq 1..MaxSeq /\ disordered' \subseteq delivered'
  BY <1>1, <1>3, ChainSound, DeliverSound
<1>8. last_seq' \in Seqs /\ end_of_tl_seq' \in 0..MAX_SEQ_NUMBER
  <2>1. m.last \in Seqs /\ m.last \in 0..MAX_SEQ_NUMBER  BY <1>2, Constants
  <2>2. QED  BY <1>1, <1>3, <2>1 DEF ReaderTyped
<1>9. ReaderTyped'
  BY <1>1, <1>3, <1>6, <1>7, <1>8 DEF ReaderTyped, Seqs, MAX_SEQ_NUMBER
<1>10. QED  BY <1>1, <1>3, <1>5, <1>9, ReaderStepSound

\* A sample is kept, delivered or thrown away.
LEMMA HandleDataSound ==
  ASSUME SoundInv, NEW m \in down, HandleData(m)
  PROVE  SoundInv'
<1>1. /\ ReaderTyped /\ Good(primary) /\ Good(secondary) /\ m \in ToReader /\ up \subseteq ToWriter
  BY DEF SoundInv, BuffersFit, BuffersSound, NetworkTyped, Good
<1>2. MaxSeq \in Nat /\ m.seq \in 1..MaxSeq
  <2>1. m.type = "data"  BY DEF HandleData
  <2>2. m \in {Data(s) : s \in 1..MaxSeq}  BY <1>1, <2>1 DEF ToReader, Heartbeats, Gaps
  <2>3. QED  BY <2>2, Constants DEF Data
<1>3. /\ UNCHANGED <<writer, have_seen_heartbeat, end_of_tl_seq, gap, ack_requested,
                     acknack_xevent, up>>
      /\ down' \subseteq down
      /\ last_seq' \in {m.seq, last_seq}
      /\ primary' = Sample(primary, m.seq)
      /\ secondary' \in {secondary, Sample(secondary, m.seq)}
      /\ in_sync' = in_sync \/ \E n : in_sync' = Synced(n)
      /\ Deliver(IF in_sync = "SYNC" THEN Chain(primary, primary', {m.seq})
                 ELSE Chain(secondary, secondary', {m.seq}))
  BY TakenOut DEF HandleData, acking
<1>4. Good(primary') /\ Good(secondary')
  BY <1>1, <1>2, <1>3, SampleKept DEF Good
<1>5. in_sync' \in {"OUT_OF_SYNC", "TLCATCHUP", "SYNC"}
  BY <1>1, <1>3, SyncedSound DEF ReaderTyped
<1>6. delivered' \subseteq 1..MaxSeq /\ disordered' \subseteq delivered'
  <2>1. {m.seq} \subseteq 1..MaxSeq  BY <1>2
  <2>2. QED  BY <1>1, <1>3, <2>1, ChainSound, DeliverSound
<1>7. last_seq' \in Seqs
  <2>1. m.seq \in Seqs  BY <1>2, Constants
  <2>2. QED  BY <1>1, <1>3, <2>1 DEF ReaderTyped
<1>8. ReaderTyped'
  BY <1>1, <1>3, <1>5, <1>6, <1>7 DEF ReaderTyped, Seqs, MAX_SEQ_NUMBER
<1>9. QED  BY <1>1, <1>3, <1>4, <1>8, ReaderStepSound

\* The intervals of a gap are handled
LEMMA HandleGapSound ==
  ASSUME SoundInv, NEW m \in down, HandleGap(m)
  PROVE  SoundInv'
<1>1. /\ ReaderTyped /\ Good(primary) /\ Good(secondary) /\ m \in ToReader /\ up \subseteq ToWriter
  BY DEF SoundInv, BuffersFit, BuffersSound, NetworkTyped, Good
<1>2. m.seqs \subseteq 1..MaxSeq /\ m.last \in Seqs
  <2>1. m.type = "gap"  BY DEF HandleGap
  <2>2. m \in Gaps  BY <1>1, <2>1 DEF ToReader, Data, Heartbeats
  <2>3. QED  BY <2>2 DEF Gaps
<1>3. /\ UNCHANGED <<writer, have_seen_heartbeat, in_sync, end_of_tl_seq, primary, secondary,
                     ack_requested, acknack_xevent, delivered, disordered, up>>
      /\ down' \subseteq down /\ gap' = m.seqs /\ last_seq' \in {m.last, last_seq}
  BY TakenOut DEF HandleGap, sync, buffers, acking, history
<1>4. ReaderTyped'
  BY <1>1, <1>2, <1>3 DEF ReaderTyped, Seqs, MAX_SEQ_NUMBER
<1>5. QED  BY <1>1, <1>3, <1>4, ReaderStepSound

\* one after the other.
LEMMA HandleOneGapSound ==
  ASSUME SoundInv, HandleOneGap
  PROVE  SoundInv'
<1> DEFINE a == Least(gap)
           b == RunEnd(gap, a)
<1>1. /\ ReaderTyped /\ Good(primary) /\ Good(secondary) /\ up \subseteq ToWriter
      /\ gap \subseteq 1..MaxSeq /\ MaxSeq \in Nat /\ gap # {}
  BY Constants DEF SoundInv, BuffersFit, BuffersSound, NetworkTyped, Good, ReaderTyped,
                   HandleOneGap, Unlocked
<1>2. /\ UNCHANGED <<writer, have_seen_heartbeat, end_of_tl_seq, last_seq, ack_requested,
                     acknack_xevent, down, up>>
      /\ gap' = {s \in gap : s >= b}
      /\ primary' = Gap(primary, a, b)
      /\ secondary' \in {secondary, Gap(secondary, a, b)}
      /\ \E n : in_sync' = Synced(n)
      /\ Deliver(CASE in_sync = "SYNC" -> Chain(primary, primary', {})
                   [] in_sync = "OUT_OF_SYNC" -> Chain(secondary, secondary', {})
                   [] OTHER -> {})
  BY DEF HandleOneGap, acking
<1>3. gap \subseteq Nat /\ \A t \in gap : t <= MaxSeq  BY <1>1
<1>4. a \in gap  BY <1>1, <1>3, LeastOf
<1> HIDE DEF a
<1>5. a \in 1..MaxSeq /\ a \in Nat  BY <1>1, <1>4
<1>6. b \in Nat /\ b \in {a} \cup {t + 1 : t \in gap} /\ a <= b /\ b \notin gap
  BY <1>1, <1>3, <1>5, RunEndOf
<1> HIDE DEF b
<1>7. b \in 1..(MaxSeq + 1) /\ a < b
  <2>1. b # a  BY <1>4, <1>6
  <2>2. b <= MaxSeq + 1  BY <1>1, <1>3, <1>5, <1>6
  <2>3. QED  BY <1>1, <1>5, <1>6, <2>1, <2>2
<1>8. Good(primary') /\ Good(secondary')
  BY <1>1, <1>2, <1>5, <1>7, GapKept DEF Good
<1>9. in_sync' \in {"OUT_OF_SYNC", "TLCATCHUP", "SYNC"}  BY <1>1, <1>2, SyncedSound
<1>10. delivered' \subseteq 1..MaxSeq /\ disordered' \subseteq delivered'
  BY <1>1, <1>2, ChainSound, DeliverSound
<1>11. ReaderTyped'
  BY <1>1, <1>2, <1>9, <1>10 DEF ReaderTyped, Seqs, MAX_SEQ_NUMBER
<1>12. QED  BY <1>1, <1>2, <1>8, <1>11, ReaderStepSound

\* An AckNack asks for some of the numbers there are.
LEMMA AckNackTyped ==
  ASSUME NEW r, Good(r), NEW last \in Seqs
  PROVE  /\ AckNack(r.next, BitmapEnd(r, last), Missing(r, last), FALSE) \in ToWriter
         /\ AckNack(r.next, r.next, {}, FALSE) \in ToWriter
<1>1. /\ MaxSeq \in Nat /\ MaxSamples \in Nat /\ last \in Nat /\ last <= MaxSeq
      /\ r.next \in Nat /\ 1 <= r.next /\ r.next <= MaxSeq + 1
  BY Constants, FewElements DEF Good
<1> DEFINE end == BitmapEnd(r, last)
<1>2. end \in Nat /\ 1 <= end /\ end <= MaxSeq + 1  BY <1>1 DEF BitmapEnd
<1> HIDE DEF end
<1>3. Missing(r, last) \subseteq 1..MaxSeq
  <2>1. r.next..(end - 1) \subseteq 1..MaxSeq  BY <1>1, <1>2
  <2>2. QED  BY <2>1 DEF Missing, end
<1>4. r.next \in 1..MAX_SEQ_NUMBER /\ end \in 1..MAX_SEQ_NUMBER  BY <1>1, <1>2, Constants
<1>5. QED  BY <1>3, <1>4 DEF AckNack, ToWriter, end

\* The messages ignored, and the AckNack event.
LEMMA AckSound ==
  ASSUME SoundInv,
         (\E m \in down : Ignore(m)) \/ PreemptiveAckNack \/ SendNack \/ SendAck \/ SuppressAck
  PROVE  SoundInv'
<1>1. /\ ReaderTyped /\ Good(primary) /\ Good(secondary) /\ up \subseteq ToWriter
      /\ last_seq \in Seqs
  BY DEF SoundInv, BuffersFit, BuffersSound, NetworkTyped, Good, ReaderTyped
<1>2. Good(Source)  BY <1>1 DEF Source
<1>3. AckNack(1, 1, {}, TRUE) \in ToWriter
  <2>1. 1 \in 1..MAX_SEQ_NUMBER  BY Constants
  <2>2. QED  BY <2>1 DEF AckNack, ToWriter
<1>4. /\ AckNack(Source.next, BitmapEnd(Source, last_seq), Missing(Source, last_seq), FALSE)
           \in ToWriter
      /\ AckNack(Source.next, Source.next, {}, FALSE) \in ToWriter
  BY <1>1, <1>2, AckNackTyped
<1>5. up' \subseteq ToWriter
  <2>1. ASSUME NEW m \in ToWriter, ToWriterNetwork(m)  PROVE up' \subseteq ToWriter
    BY <1>1, <2>1, TakenIn DEF ToWriterNetwork
  <2>2. QED
    BY <1>1, <1>3, <1>4, <2>1 DEF Ignore, PreemptiveAckNack, SendNack, SendAck, SuppressAck
<1>6. /\ UNCHANGED <<writer, have_seen_heartbeat, last_seq, in_sync, end_of_tl_seq, primary,
                     secondary, gap, delivered, disordered>>
      /\ down' \subseteq down
      /\ {ack_requested', acknack_xevent'} \subseteq BOOLEAN
  <2>1. CASE \E m \in down : Ignore(m)
    BY <1>1, <2>1, TakenOut DEF Ignore, proxy, sync, buffers, acking, history, ReaderTyped
  <2>2. CASE PreemptiveAckNack
    BY <1>1, <2>2 DEF PreemptiveAckNack, proxy, sync, buffers, acking, history, ReaderTyped
  <2>3. CASE SendNack
    BY <1>1, <2>3 DEF SendNack, sync, buffers, history, ReaderTyped
  <2>4. CASE SendAck
    BY <1>1, <2>4 DEF SendAck, sync, buffers, history, ReaderTyped
  <2>5. CASE SuppressAck
    BY <1>1, <2>5 DEF SuppressAck, sync, buffers, history, ReaderTyped
  <2>6. QED  BY <2>1, <2>2, <2>3, <2>4, <2>5
<1>7. ReaderTyped'
  BY <1>1, <1>6 DEF ReaderTyped, Seqs, MAX_SEQ_NUMBER
<1>8. QED  BY <1>1, <1>5, <1>6, <1>7, ReaderStepSound

-----------------------------------------------------------------------------
(* The theorems.                                                           *)

\* The invariant holds at first,
LEMMA InitSound == Init => SoundInv
<1> SUFFICES ASSUME Init  PROVE SoundInv
  OBVIOUS
<1>1. Start \in Nat /\ MaxSeq \in Nat /\ Start <= MaxSeq /\ 0 \in Seqs
      /\ MAX_SEQ_NUMBER \in 0..MAX_SEQ_NUMBER
  BY Constants
<1>2. WriterTyped
  <2>1. seq \in Start..MaxSeq /\ seq_xmit \in Start..seq /\ rn_seq \in Start..seq
    BY <1>1 DEF Init
  <2>2. whc = {} /\ packet = {} /\ app = "idle" /\ app # "packing"
        /\ {has_replied_to_hb, retransmitting} \subseteq BOOLEAN
    BY DEF Init
  <2>3. QED  BY <2>1, <2>2 DEF WriterTyped
<1>3. ReaderTyped  BY <1>1 DEF Init, ReaderTyped
<1>4. BuffersFit /\ BuffersSound
  BY <1>1, EmptyKept DEF Init, BuffersFit, BuffersSound
<1>5. NetworkTyped  BY DEF Init, NetworkTyped
<1>6. QED  BY <1>2, <1>3, <1>4, <1>5 DEF SoundInv

\* and every step keeps it.
LEMMA NextSound ==
  ASSUME SoundInv, [Next]_vars
  PROVE  SoundInv'
<1>1. CASE Write \/ Resume
  BY <1>1, WriteSampleSound DEF Write, Resume
<1>2. CASE Throttle \/ Timeout \/ Send \/ SendHeartbeat
  BY <1>2, SendSound
<1>3. ASSUME NEW m \in up, HandleAckNack(m)  PROVE SoundInv'
  BY <1>3, HandleAckNackSound
<1>4. ASSUME NEW m \in down, HandleHeartbeat(m)  PROVE SoundInv'
  BY <1>4, HandleHeartbeatSound
<1>5. ASSUME NEW m \in down, HandleData(m)  PROVE SoundInv'
  BY <1>5, HandleDataSound
<1>6. ASSUME NEW m \in down, HandleGap(m)  PROVE SoundInv'
  BY <1>6, HandleGapSound
<1>7. CASE HandleOneGap
  BY <1>7, HandleOneGapSound
<1>8. CASE (\E m \in down : Ignore(m)) \/ PreemptiveAckNack \/ SendNack \/ SendAck
           \/ SuppressAck
  BY <1>8, AckSound
<1>9. CASE UNCHANGED vars
  <2>1. UNCHANGED <<proxy, down, up>>  BY <1>9 DEF vars
  <2>2. UNCHANGED <<seq, seq_xmit, whc, rn_seq, has_replied_to_hb, retransmitting, app, packet>>
    BY <1>9 DEF vars, writer, cache, match
  <2>3. WriterTyped'  BY <2>2 DEF SoundInv, WriterTyped
  <2>4. QED  BY <2>1, <2>3, WriterStepSound DEF SoundInv, NetworkTyped
<1>10. QED
  BY <1>1, <1>2, <1>3, <1>4, <1>5, <1>6, <1>7, <1>8, <1>9 DEF Next, Writer, Reader

LEMMA Soundness == Spec => []SoundInv
<1>1. Init => SoundInv  BY InitSound
<1>2. SoundInv /\ [Next]_vars => SoundInv'  BY NextSound
<1>3. QED  BY <1>1, <1>2, PTL DEF Spec

\* The counters, the cache, the buffers and the messages keep their types, with
\* any history, water marks and buffers.
THEOREM TypeCorrect == Spec => []TypeOK
<1>1. SoundInv => TypeOK  BY SoundIsTyped
<1>2. QED  BY <1>1, Soundness, PTL

\* Overflowing or not, holding gaps or not, a reorder buffer is never over
\* max_samples, has an element in every interval, and holds back nothing that it
\* could deliver: what nn_reorder_gap and nn_reorder_rsample assert of it.
THEOREM BuffersStaySound == Spec => []BuffersSound
<1>1. SoundInv => BuffersSound  BY DEF SoundInv
<1>2. QED  BY <1>1, Soundness, PTL
-----------------------------------------------------------------------------
(* What is not acknowledged.                                               *)

\* The later samples of its instance.
After(s) == {t \in (s + 1)..seq : InstanceOf[t] = InstanceOf[s]}

\* They are finitely many.
LEMMA AfterFinite ==
  ASSUME NEW s \in Nat, seq \in Nat
  PROVE  IsFiniteSet(After(s)) /\ Cardinality(After(s)) \in Nat
<1>1. IsFiniteSet((s + 1)..seq)
  <2>1. s + 1 \in Int /\ seq \in Int  OBVIOUS
  <2>2. QED  BY <2>1, FS_Interval
<1>2. IsFiniteSet(After(s))  BY <1>1, FS_Subset DEF After
<1>3. QED  BY <1>2, FS_CardinalityType

\* What is overwritten stays so.
LEMMA OverwrittenStays ==
  ASSUME NEW s \in Nat, seq \in Nat, seq' \in Nat, seq <= seq', Overwritten(s)
  PROVE  Overwritten(s)'
<1>1. After(s) \subseteq After(s)'  BY DEF After
<1>2. IsFiniteSet(After(s)') /\ Cardinality(After(s)') \in Nat
  <2>1. seq' \in Nat => IsFiniteSet(After(s)') /\ Cardinality(After(s)') \in Nat
    <3>1. ASSUME seq' \in Nat  PROVE IsFiniteSet((s + 1)..seq')
      <4>1. s + 1 \in Int /\ seq' \in Int  BY <3>1
      <4>2. QED  BY <4>1, FS_Interval
    <3>2. QED  BY <3>1, FS_Subset, FS_CardinalityType DEF After
  <2>2. QED  BY <2>1
<1>3. Cardinality(After(s)) <= Cardinality(After(s)')  BY <1>1, <1>2, FS_Subset
<1>4. Cardinality(After(s)) \in Nat  BY AfterFinite
<1>5. Depth \in Nat  BY HistoryAssumption
<1>6. QED  BY <1>2, <1>3, <1>4, <1>5 DEF Overwritten, After

\* A sample pruned for a new one has Depth later ones of its instance.
LEMMA PrunedOverwritten ==
  ASSUME WriterTyped, seq' = seq + 1, NEW s \in whc, s \notin Inserted(whc, seq')
  PROVE  Overwritten(s)'
<1> DEFINE n == seq'
           same == {t \in whc : InstanceOf[t] = InstanceOf[n]}
           later == same \ {s}
<1>1. /\ seq \in Nat /\ n \in Nat /\ n = seq + 1 /\ whc \subseteq 1..seq /\ s \in Nat
      /\ Depth \in Nat
  BY WriterNumbers, HistoryAssumption
<1>2. Depth > 0 /\ Cardinality(same) >= Depth /\ s = Least(same)
  BY DEF Inserted
<1>3. same \subseteq Nat /\ same \subseteq 1..seq
  <2>1. 1..seq \subseteq Nat /\ whc \subseteq 1..seq  BY <1>1
  <2>2. same \subseteq whc  OBVIOUS
  <2> HIDE DEF same
  <2>3. QED  BY <2>1, <2>2
<1>4. IsFiniteSet(same) /\ Cardinality(same) \in Nat
  <2>1. IsFiniteSet(1..seq)
    <3>1. 1 \in Int /\ seq \in Int  BY <1>1
    <3>2. QED  BY <3>1, FS_Interval
  <2> HIDE DEF same
  <2>2. QED  BY <1>3, <2>1, FS_Subset, FS_CardinalityType
<1>5. s \in same /\ \A t \in same : s <= t
  <2>1. same # {}
    <3> HIDE DEF same
    <3>1. QED  BY <1>1, <1>2, <1>4, FS_EmptySet
  <2> HIDE DEF same
  <2>2. QED  BY <1>2, <1>3, <2>1, LeastOf
<1>6. Cardinality(later) = Cardinality(same) - 1 /\ IsFiniteSet(later)
  <2> HIDE DEF same
  <2>1. QED  BY <1>4, <1>5, FS_RemoveElement
<1>7. n \notin later
  <2>1. ~(n \in 1..seq)  BY <1>1
  <2>2. QED  BY <1>3, <2>1
<1>8. Cardinality(later \cup {n}) = Cardinality(same) /\ IsFiniteSet(later \cup {n})
  <2>1. Cardinality(later \cup {n}) = Cardinality(later) + 1 /\ IsFiniteSet(later \cup {n})
    <3> HIDE DEF later
    <3>1. QED  BY <1>6, <1>7, FS_AddElement
  <2> HIDE DEF later, same
  <2>2. QED  BY <1>4, <1>6, <2>1
<1>9. later \cup {n} \subseteq After(s)'
  <2>1. ASSUME NEW t \in later  PROVE t \in (s + 1)..n /\ InstanceOf[t] = InstanceOf[s]
    <3>1. t \in same /\ t # s /\ t \in 1..seq  BY <1>3
    <3>2. s <= t  BY <1>5, <3>1
    <3>3. InstanceOf[t] = InstanceOf[s]  BY <1>5, <3>1
    <3> HIDE DEF n, same, later
    <3>4. QED  BY <1>1, <3>1, <3>2, <3>3
  <2>2. n \in (s + 1)..n /\ InstanceOf[n] = InstanceOf[s]
    <3>1. s \in 1..seq /\ InstanceOf[n] = InstanceOf[s]  BY <1>3, <1>5
    <3> HIDE DEF n, same, later
    <3>2. QED  BY <1>1, <3>1
  <2> HIDE DEF later
  <2>3. QED  BY <2>1, <2>2 DEF After
<1>10. IsFiniteSet(After(s)') /\ Cardinality(After(s)') \in Nat
  <2>1. IsFiniteSet((s + 1)..n)
    <3>1. s + 1 \in Int /\ n \in Int  BY <1>1
    <3> HIDE DEF n
    <3>2. QED  BY <3>1, FS_Interval
  <2>2. QED  BY <2>1, FS_Subset, FS_CardinalityType DEF After
<1>11. Cardinality(later \cup {n}) <= Cardinality(After(s)')
  <2> HIDE DEF later, n
  <2>1. QED  BY <1>9, <1>10, FS_Subset
<1> HIDE DEF later, same
<1>12. Cardinality(After(s)') >= Depth  BY <1>1, <1>2, <1>4, <1>8, <1>10, <1>11
<1>13. QED  BY <1>2, <1>12 DEF Overwritten, After

\* The writer forgets what is acknowledged or overwritten, and nothing else.
LEMMA RecoverableStep ==
  ASSUME SoundInv, SoundInv', Recoverable, [Next]_vars
  PROVE  Recoverable'
<1>1. /\ WriterTyped /\ seq \in Nat /\ seq' \in Nat /\ rn_seq \in Nat
  <2>1. WriterTyped'  BY DEF SoundInv
  <2>2. seq' \in Start..MaxSeq  BY <2>1 DEF WriterTyped
  <2>3. QED  BY <2>2, WriterNumbers, Constants DEF SoundInv
<1>2. CASE Write \/ Resume
  <2>1. seq' = seq + 1 /\ whc' = Inserted(whc, seq') /\ rn_seq' = rn_seq
    BY <1>2 DEF Write, Resume, WriteSample, match
  <2> SUFFICES ASSUME NEW s \in (rn_seq + 1)..seq'  PROVE s \in whc' \/ Overwritten(s)'
    BY <2>1 DEF Recoverable
  <2>2. s \in Nat /\ (s = seq' \/ s \in (rn_seq + 1)..seq)  BY <1>1, <2>1
  <2>3. CASE s = seq'
    <3>1. seq' \notin whc
      <4>1. whc \subseteq 1..seq  BY <1>1, WriterNumbers
      <4>2. QED  BY <1>1, <2>1, <4>1
    <3>2. ASSUME Depth > 0, NEW same, same = {t \in whc : InstanceOf[t] = InstanceOf[seq']},
                 Cardinality(same) >= Depth
          PROVE  Least(same) # seq'
      <4>1. same \subseteq 1..seq /\ same \subseteq Nat /\ IsFiniteSet(same)
        <5>1. whc \subseteq 1..seq  BY <1>1, WriterNumbers
        <5>2. IsFiniteSet(1..seq)
          <6>1. 1 \in Int /\ seq \in Int  BY <1>1
          <6>2. QED  BY <6>1, FS_Interval
        <5>3. same \subseteq 1..seq  BY <3>2, <5>1
        <5>4. 1..seq \subseteq Nat  BY <1>1
        <5>5. QED  BY <5>2, <5>3, <5>4, FS_Subset
      <4>2. same # {}
        <5>1. Depth \in Nat  BY HistoryAssumption
        <5>2. QED  BY <3>2, <5>1, FS_EmptySet
      <4>3. Least(same) \in same  BY <4>1, <4>2, LeastOf
      <4>4. QED  BY <3>1, <3>2, <4>3
    <3>3. seq' \in Inserted(whc, seq')  BY <3>2 DEF Inserted
    <3>4. QED  BY <2>1, <2>3, <3>3
  <2>4. CASE s \in (rn_seq + 1)..seq /\ s \in whc
    BY <1>1, <2>1, <2>4, PrunedOverwritten
  <2>5. CASE s \in (rn_seq + 1)..seq /\ Overwritten(s)
    BY <1>1, <2>1, <2>2, <2>5, OverwrittenStays
  <2>6. QED  BY <2>2, <2>3, <2>4, <2>5 DEF Recoverable
<1>3. ASSUME NEW m \in up, HandleAckNack(m)  PROVE Recoverable'
  <2>1. seq' = seq /\ whc' = {s \in whc : s > rn_seq'}  BY <1>3 DEF HandleAckNack
  <2>2. rn_seq' \in Nat /\ rn_seq <= rn_seq'
    <3>1. m \in ToWriter  BY DEF SoundInv, NetworkTyped
    <3>2. m.base \in 1..MAX_SEQ_NUMBER  BY <3>1 DEF ToWriter
    <3>3. m.base \in Nat /\ rn_seq <= seq  BY <1>1, <3>2, Constants, WriterNumbers
    <3>4. rn_seq' = IF m.base - 1 <= rn_seq THEN rn_seq
                    ELSE IF m.base - 1 <= seq THEN m.base - 1 ELSE seq
      BY <1>3 DEF HandleAckNack
    <3>5. QED  BY <1>1, <3>3, <3>4
  <2> SUFFICES ASSUME NEW s \in (rn_seq' + 1)..seq  PROVE s \in whc' \/ Overwritten(s)'
    BY <2>1 DEF Recoverable
  <2>3. s \in (rn_seq + 1)..seq /\ s > rn_seq' /\ s \in Nat
    <3>1. \A a \in Nat : rn_seq <= a =>
            \A x \in (a + 1)..seq : x \in (rn_seq + 1)..seq /\ x > a /\ x \in Nat
      BY <1>1
    <3>2. QED  BY <2>2, <3>1
  <2>4. s \in whc \/ Overwritten(s)  BY <2>3 DEF Recoverable
  <2>5. CASE s \in whc  BY <2>1, <2>3, <2>5
  <2>6. CASE Overwritten(s)  BY <1>1, <2>1, <2>3, <2>6, OverwrittenStays
  <2>7. QED  BY <2>4, <2>5, <2>6
<1>4. CASE UNCHANGED <<seq, whc, rn_seq>>
  BY <1>4 DEF Recoverable, Overwritten
<1>5. CASE Throttle \/ Timeout \/ Send \/ SendHeartbeat
  <2>1. UNCHANGED <<seq, whc, rn_seq>>
    BY <1>5 DEF Throttle, Timeout, Send, SendHeartbeat, writer, cache, match
  <2>2. QED  BY <1>4, <2>1
<1>6. CASE Reader \/ UNCHANGED vars
  <2>1. UNCHANGED writer
    BY <1>6 DEF Reader, HandleHeartbeat, HandleData, HandleGap, Ignore, HandleOneGap,
                PreemptiveAckNack, SendNack, SendAck, SuppressAck, vars
  <2>2. UNCHANGED <<seq, whc, rn_seq>>  BY <2>1 DEF writer, cache, match
  <2>3. QED  BY <1>4, <2>2
<1>7. QED  BY <1>2, <1>3, <1>5, <1>6 DEF Next, Writer

\* What the reader has not acknowledged can be sent again, unless KEEP_LAST has
\* dropped it for Depth later samples of its instance.
THEOREM StillThere == Spec => []Recoverable
<1>1. Init => Recoverable
  <2> SUFFICES ASSUME Init  PROVE Recoverable
    OBVIOUS
  <2>1. (Start + 1)..Start = {}  BY Constants
  <2>2. QED  BY <2>1 DEF Init, Recoverable
<1>2. SoundInv /\ SoundInv' /\ Recoverable /\ [Next]_vars => Recoverable'
  BY RecoverableStep
<1>3. QED  BY <1>1, <1>2, Soundness, PTL DEF Spec
=============================================================================
