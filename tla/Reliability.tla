---------------------------- MODULE Reliability ----------------------------
(***************************************************************************)
(* Reliable delivery in Cyclone DDS: a volatile reliable writer, one       *)
(* matched volatile reliable reader in another process, and the network.   *)
(*   - the application writes (write_sample_eot), blocks when the writer   *)
(*     history cache is over its high-water mark (throttle_writer), and    *)
(*     sends the packet it made without the writer's lock;                 *)
(*   - the writer's event thread sends heartbeats, its receive thread      *)
(*     answers the reader's AckNacks with samples, gaps and heartbeats;    *)
(*   - the reader's receive thread puts what arrives in two reorder        *)
(*     buffers, the proxy writer's (primary) and the reader's own          *)
(*     (secondary), used until the reader is in sync, and delivers; its    *)
(*     event thread sends the AckNacks.                                    *)
(* Handlers run under the lock of the writer or of the proxy writer, so    *)
(* each is one action; the sending of a packet and the intervals of a gap  *)
(* are steps of their own.                                                 *)
(*                                                                         *)
(* A message may be lost, duplicated and overtaken.  Time is left out:     *)
(* a delay that may have passed or not is a choice, so an old heartbeat or *)
(* AckNack may be accepted, which the code does 500 ms after the last one, *)
(* and a heartbeat asks for an answer or not (final) when it arrives.      *)
(* Samples are one fragment, a water mark counts samples, and the adaptive *)
(* growth of the cache and the limits on retransmission are left out.      *)
(***************************************************************************)
EXTENDS Reorder

CONSTANTS
  Start,        \* the writer's seq when the reader is matched
  MaxSeq,       \* bound: the last sample the application writes
  Depth,        \* history depth of KEEP_LAST; 0 for KEEP_ALL
  InstanceOf,   \* the instance each sample updates
  WhcHigh,      \* whc_high and
  WhcLow,       \* whc_low, in samples (KEEP_ALL)
  MaxDown,      \* bound: messages in flight to the reader
  MaxUp,        \* bound: messages in flight to the writer
  Duplicates    \* whether the network may duplicate a message

ASSUME SeqAssumption == Start \in Nat /\ MaxSeq \in Nat /\ Start <= MaxSeq
ASSUME HistoryAssumption == Depth \in Nat /\ WhcHigh \in Nat /\ WhcLow \in 0..WhcHigh
ASSUME NetworkAssumption == {MaxDown, MaxUp} \subseteq Nat \ {0} /\ Duplicates \in BOOLEAN

VARIABLES
  seq,                  \* wr->seq
  seq_xmit,             \* the last sample sent
  whc,                  \* the samples in the writer history cache
  rn_seq,               \* rn->seq: the last sample the reader acknowledged
  has_replied_to_hb, retransmitting,
  app,                  \* the writing thread: "idle", "throttled", "packing"
  packet,               \* the messages it packed and has not sent
  have_seen_heartbeat,
  last_seq,             \* pwr->last_seq: the last sample known to exist
  in_sync, end_of_tl_seq,
  primary,              \* pwr->reorder
  secondary,            \* wn->u.not_in_sync.reorder
  gap,                  \* what is left of the GAP being handled
  ack_requested,        \* a heartbeat since the last AckNack asked for one
  acknack_xevent,       \* whether the AckNack event is scheduled
  delivered,            \* the samples delivered to the reader,
  disordered,           \* and those delivered again or after a later one
  down, up              \* messages on their way to the reader, to the writer

cache == <<seq, seq_xmit, whc>>
match == <<rn_seq, has_replied_to_hb, retransmitting>>
writer == <<cache, match, app, packet>>
sync == <<in_sync, end_of_tl_seq>>
buffers == <<primary, secondary>>
acking == <<ack_requested, acknack_xevent>>
history == <<delivered, disordered>>
proxy == <<have_seen_heartbeat, last_seq, sync, buffers, gap, acking, history>>
vars == <<writer, proxy, down, up>>

Seqs == 0..MaxSeq
MAX_SEQ_NUMBER == MaxSeq + 1

Data(s) == [type |-> "data", seq |-> s]
Heartbeats == [type : {"heartbeat"}, first : 1..MAX_SEQ_NUMBER, last : Seqs]
Gaps == [type : {"gap"}, seqs : SUBSET (1..MaxSeq), last : Seqs]
ToReader == {Data(s) : s \in 1..MaxSeq} \cup Heartbeats \cup Gaps
ToWriter == [base : 1..MAX_SEQ_NUMBER, end : 1..MAX_SEQ_NUMBER,
             missing : SUBSET (1..MaxSeq), preemptive : BOOLEAN]

TypeOK ==
  /\ seq \in Start..MaxSeq /\ seq_xmit \in Start..seq
  /\ whc \subseteq (rn_seq + 1)..seq
  /\ rn_seq \in Start..seq
  /\ {has_replied_to_hb, retransmitting, have_seen_heartbeat, ack_requested,
      acknack_xevent} \subseteq BOOLEAN
  /\ app \in {"idle", "throttled", "packing"}
  /\ packet \subseteq ToReader /\ (app = "packing") = (packet # {})
  /\ last_seq \in Seqs
  /\ in_sync \in {"OUT_OF_SYNC", "TLCATCHUP", "SYNC"}
  /\ end_of_tl_seq \in 0..MAX_SEQ_NUMBER
  /\ {primary, secondary} \subseteq Reorders(1..MAX_SEQ_NUMBER)
  /\ gap \subseteq 1..MaxSeq
  /\ delivered \subseteq 1..MaxSeq /\ disordered \subseteq delivered
  /\ down \subseteq ToReader /\ up \subseteq ToWriter

Init ==
  /\ seq = Start /\ seq_xmit = Start /\ whc = {} /\ rn_seq = Start
  /\ has_replied_to_hb = FALSE /\ retransmitting = FALSE
  /\ app = "idle" /\ packet = {}
  /\ have_seen_heartbeat = FALSE /\ last_seq = 0
  /\ in_sync = "OUT_OF_SYNC" /\ end_of_tl_seq = MAX_SEQ_NUMBER
  /\ primary = Empty /\ secondary = Empty /\ gap = {}
  /\ ack_requested = FALSE /\ acknack_xevent = TRUE
  /\ delivered = {} /\ disordered = {}
  /\ down = {} /\ up = {}
----------------------------------------------------------------------------
(* The network. *)

\* Messages are sent: some of them are lost, and of those in flight some when
\* there are too many.
Into(net, msgs, max) ==
  {kept \in SUBSET (net \cup msgs) :
     /\ Cardinality(kept) <= max
     /\ net \subseteq kept \/ Cardinality(net \cup msgs) > max}
\* A message is taken out, or stays behind to be received again.
Without(net, m) == {net \ {m}} \cup (IF Duplicates THEN {net} ELSE {})

ToNetwork(msgs) == down' \in Into(down, msgs, MaxDown)
----------------------------------------------------------------------------
(* The writer. *)

\* add_Heartbeat: the range of samples that the cache c of a writer at n, sent
\* up to x, announces.  A synchronous one (packed with a sample) announces what
\* is not sent yet.
HeartbeatOf(c, n, x, issync) ==
  LET first == IF c = {} THEN n + 1 ELSE Least(c)
      last  == IF c = {} \/ issync \/ x >= n THEN n
               ELSE IF x >= first THEN x ELSE first - 1
  IN  [type |-> "heartbeat", first |-> first, last |-> last]

\* Mutant of Inserted: a depth of 0 is taken for one, not for KEEP_ALL.
InsertedAlwaysPruned(c, s) ==
  LET same == {t \in c : InstanceOf[t] = InstanceOf[s]}
  IN  (c \cup {s}) \ (IF Cardinality(same) > Depth THEN {Least(same)} ELSE {})

\* whc_insert: with KEEP_LAST the oldest of more than Depth samples of an
\* instance is pruned, acknowledged or not.
Inserted(c, s) ==
  LET same == {t \in c : InstanceOf[t] = InstanceOf[s]}
  IN  (c \cup {s}) \ (IF Depth > 0 /\ Cardinality(same) >= Depth THEN {Least(same)} ELSE {})

\* KEEP_LAST writers are never throttled: their water marks are INT32_MAX.
Overfull == Depth = 0 /\ Cardinality(whc) > WhcHigh
\* Mutant of MayContinue: below the low-water mark.
MayContinueBelow == Cardinality(whc) < WhcLow /\ ~retransmitting
\* writer_may_continue
MayContinue == Cardinality(whc) <= WhcLow /\ ~retransmitting

\* The rest of write_sample_eot: the sample is numbered and cached, and packed
\* with or without a heartbeat (writer_hbcontrol_piggyback).
WriteSample ==
  /\ seq < MaxSeq
  /\ seq' = seq + 1
  /\ whc' = Inserted(whc, seq')
  /\ \E piggyback \in SUBSET {HeartbeatOf(whc', seq', seq_xmit, TRUE)} :
       packet' = {Data(seq')} \cup piggyback
  /\ app' = "packing"
  /\ UNCHANGED <<seq_xmit, match, proxy, down, up>>

Write == app = "idle" /\ ~Overfull /\ WriteSample

\* throttle_writer: what is packed goes out with a heartbeat that asks for an
\* answer, and the thread waits.
Throttle ==
  /\ app = "idle" /\ Overfull /\ seq < MaxSeq
  /\ app' = "throttled"
  /\ ToNetwork({HeartbeatOf(whc, seq, seq_xmit, TRUE)})
  /\ UNCHANGED <<cache, match, packet, proxy, up>>

Resume == app = "throttled" /\ MayContinue /\ WriteSample

\* max_blocking_time has passed: the sample is dropped and the write fails.
Timeout ==
  /\ app = "throttled"
  /\ app' = "idle"
  /\ UNCHANGED <<cache, match, packet, proxy, down, up>>

\* Mutant of Send: the number of the next sample, not of the last one sent.
SendNextSeq ==
  /\ app = "packing"
  /\ ToNetwork(packet)
  /\ seq_xmit' = seq + 1
  /\ app' = "idle" /\ packet' = {}
  /\ UNCHANGED <<seq, whc, match, proxy, up>>

\* nn_xpack_send, and the update of seq_xmit when the messages are released.
Send ==
  /\ app = "packing"
  /\ ToNetwork(packet)
  /\ seq_xmit' = seq
  /\ app' = "idle" /\ packet' = {}
  /\ UNCHANGED <<seq, whc, match, proxy, up>>

\* Mutant of MustHaveHeartbeat: once the reader has replied there are no more.
MustHaveHeartbeatOnce == ~has_replied_to_hb

\* writer_must_have_hb_scheduled
MustHaveHeartbeat == ~has_replied_to_hb \/ \E s \in whc : rn_seq < s

\* handle_xevk_heartbeat
SendHeartbeat ==
  /\ MustHaveHeartbeat
  /\ ToNetwork({HeartbeatOf(whc, seq, seq_xmit, FALSE)})
  /\ UNCHANGED <<writer, proxy, up>>

\* grow_gap_to_next_seq
GrowGap(c, s) ==
  LET later == {t \in c : t >= s}
  IN  IF later = {} THEN seq_xmit + 1
      ELSE IF Least(later) > seq_xmit THEN seq_xmit ELSE Least(later)

\* nn_gap_info: the numbers asked for that are gone.  The first interval, when
\* it reaches the end of the bitmap, is taken on to the next sample there is.
GapOf(c, m, lost) ==
  LET start == Least(lost)
      end == RunEnd(lost, start)
      grown == IF end = m.end THEN start..(GrowGap(c, end) - 1) ELSE start..(end - 1)
      all == grown \cup {s \in lost : s >= end}
  IN  [type |-> "gap", seqs |-> all,
       last |-> IF all = {} THEN start - 1 ELSE Greatest(all)]

\* What a NACK is answered with, by a cache c acknowledged up to n: what is
\* there again, a gap for what is not, and a heartbeat.  Nothing that is
\* acknowledged is sent again to a reader that is behind that.
Answer(c, n, m) ==
  LET wanted == {s \in m.missing : s <= seq_xmit}
      again  == {s \in wanted \cap c : m.base <= n => s > n}
      lost   == wanted \ again
  IN  {Data(s) : s \in again}
        \cup (IF lost = {} THEN {} ELSE {GapOf(c, m, lost)})
        \cup (IF wanted = {} THEN {} ELSE {HeartbeatOf(c, seq, seq_xmit, FALSE)})

\* handle_AckNack, with ddsi_remove_acked_messages
HandleAckNack(m) ==
  LET acked == IF m.base - 1 <= rn_seq THEN rn_seq ELSE IF m.base - 1 <= seq THEN m.base - 1 ELSE seq
      kept == {s \in whc : s > acked}
      again == {s \in m.missing : Data(s) \in Answer(kept, acked, m)}
  IN  /\ m \in up
      /\ up' \in Without(up, m)
      /\ rn_seq' = acked
      /\ whc' = kept
      /\ retransmitting' = (again # {} \/ (retransmitting /\ (acked > rn_seq => kept # {})))
      /\ has_replied_to_hb' = (has_replied_to_hb \/ (m.missing = {} /\ m.base - 1 >= rn_seq))
      /\ ToNetwork(IF m.preemptive THEN {HeartbeatOf(kept, seq, seq_xmit, FALSE)}
                   ELSE Answer(kept, acked, m))
      /\ UNCHANGED <<seq, seq_xmit, app, packet, proxy>>
----------------------------------------------------------------------------
(* The reader.  Its handlers hold the lock of the proxy writer. *)

Unlocked == gap = {}

\* Mutant of Synced: caught up as soon as a heartbeat was seen.
SyncedEarly(last_deliv_seq) ==
  IF in_sync = "SYNC" THEN "SYNC"
  ELSE IF ~have_seen_heartbeat' THEN "OUT_OF_SYNC"
  ELSE IF last_deliv_seq >= end_of_tl_seq' THEN "SYNC" ELSE "TLCATCHUP"

\* maybe_set_reader_in_sync(last_deliv_seq), once the buffers are updated
Synced(last_deliv_seq) ==
  LET caught_up == in_sync = "TLCATCHUP"
                     \/ (have_seen_heartbeat' /\ secondary'.next = primary'.next)
  IN  IF in_sync = "SYNC" THEN "SYNC"
      ELSE IF ~caught_up THEN "OUT_OF_SYNC"
      ELSE IF last_deliv_seq >= end_of_tl_seq' THEN "SYNC" ELSE "TLCATCHUP"

\* deliver_user_data_synchronously
Deliver(chain) ==
  /\ delivered' = delivered \cup chain
  /\ disordered' = disordered \cup {s \in chain : \E t \in delivered : s <= t}

\* handle_Heartbeat: the first one decides where the proxy writer starts.
HandleHeartbeat(m) ==
  /\ Unlocked
  /\ m \in down /\ m.type = "heartbeat"
  /\ down' \in Without(down, m)
  /\ have_seen_heartbeat' = TRUE
  /\ last_seq' = IF m.last > last_seq THEN m.last ELSE last_seq
  /\ primary' = Gap(primary, 1, IF have_seen_heartbeat THEN m.first ELSE m.last + 1)
  /\ end_of_tl_seq' = IF in_sync # "SYNC" /\ end_of_tl_seq = MAX_SEQ_NUMBER
                      THEN m.last ELSE end_of_tl_seq
  /\ secondary' = IF in_sync = "OUT_OF_SYNC" THEN Gap(secondary, 1, m.first) ELSE secondary
  /\ Deliver(CASE in_sync = "SYNC" -> Chain(primary, primary', {})
               [] in_sync = "OUT_OF_SYNC" -> Chain(secondary, secondary', {})
               [] OTHER -> {})
  /\ in_sync' = Synced((IF in_sync = "OUT_OF_SYNC" THEN secondary' ELSE primary').next - 1)
  /\ ack_requested' \in {ack_requested, TRUE}       \* a heartbeat is final, or not
  /\ acknack_xevent' \in {acknack_xevent, TRUE}     \* sched_acknack_if_needed
  /\ UNCHANGED <<writer, gap, up>>

\* handle_regular: before a heartbeat has been seen a sample is ignored.
HandleData(m) ==
  /\ Unlocked
  /\ m \in down /\ m.type = "data"
  /\ down' \in Without(down, m)
  /\ have_seen_heartbeat
  /\ UNCHANGED <<writer, have_seen_heartbeat, end_of_tl_seq, gap, acking, up>>
  /\ last_seq' = IF m.seq > last_seq THEN m.seq ELSE last_seq
  /\ primary' = Sample(primary, m.seq)
  /\ secondary' = IF in_sync = "SYNC" THEN secondary ELSE Sample(secondary, m.seq)
  /\ Deliver(IF in_sync = "SYNC" THEN Chain(primary, primary', {m.seq})
             ELSE Chain(secondary, secondary', {m.seq}))
  /\ in_sync' = IF secondary'.next > secondary.next THEN Synced(m.seq) ELSE in_sync

\* handle_Gap: the lock is taken, and released after the last interval.
HandleGap(m) ==
  /\ Unlocked
  /\ m \in down /\ m.type = "gap"
  /\ down' \in Without(down, m)
  /\ have_seen_heartbeat
  /\ gap' = m.seqs
  /\ last_seq' = IF m.last > last_seq THEN m.last ELSE last_seq
  /\ UNCHANGED <<writer, have_seen_heartbeat, sync, buffers, acking, history, up>>

\* handle_one_gap.  The secondary buffer of a reader in TLCATCHUP is not told.
HandleOneGap ==
  LET a == Least(gap)
      b == RunEnd(gap, a)
  IN  /\ ~Unlocked
      /\ gap' = {s \in gap : s >= b}
      /\ primary' = Gap(primary, a, b)
      /\ secondary' = IF in_sync = "OUT_OF_SYNC" THEN Gap(secondary, a, b) ELSE secondary
      /\ Deliver(CASE in_sync = "SYNC" -> Chain(primary, primary', {})
                   [] in_sync = "OUT_OF_SYNC" -> Chain(secondary, secondary', {})
                   [] OTHER -> {})
      /\ UNCHANGED <<have_seen_heartbeat, end_of_tl_seq>>
      /\ in_sync' = Synced(b - 1)
      /\ UNCHANGED <<writer, last_seq, acking, down, up>>

\* Both ignore what comes before the first heartbeat.
Ignore(m) ==
  /\ m \in down /\ m.type # "heartbeat" /\ ~have_seen_heartbeat
  /\ down' \in Without(down, m)
  /\ UNCHANGED <<writer, proxy, up>>

\* Mutant of Source: the proxy writer's buffer always.
SourcePrimary == primary

\* add_AckNack_getsource: an out-of-sync reader speaks for its own buffer.
Source == IF in_sync = "OUT_OF_SYNC" THEN secondary ELSE primary

AckNack(base, end, missing, preemptive) ==
  [base |-> base, end |-> end, missing |-> missing, preemptive |-> preemptive]

ToWriterNetwork(m) == up' \in Into(up, {m}, MaxUp)

\* make_preemptive_acknack: until a heartbeat has come, one is asked for.
PreemptiveAckNack ==
  /\ acknack_xevent /\ ~have_seen_heartbeat
  /\ ToWriterNetwork(AckNack(1, 1, {}, TRUE))
  /\ UNCHANGED <<writer, proxy, down>>

\* make_and_resched_acknack: what is missing is asked for, after a heartbeat or
\* on its own, and the event is scheduled again.
SendNack ==
  /\ Unlocked /\ acknack_xevent /\ have_seen_heartbeat
  /\ Missing(Source, last_seq) # {}
  /\ ToWriterNetwork(AckNack(Source.next, BitmapEnd(Source, last_seq),
                             Missing(Source, last_seq), FALSE))
  /\ ack_requested' = FALSE
  /\ UNCHANGED <<writer, have_seen_heartbeat, last_seq, sync, buffers, gap,
                 acknack_xevent, history, down>>

\* The writer asked for an answer, and nothing is missing or it is too early to
\* ask for it again: a pure acknowledgement.
SendAck ==
  /\ Unlocked /\ acknack_xevent /\ have_seen_heartbeat
  /\ ack_requested
  /\ ToWriterNetwork(AckNack(Source.next, Source.next, {}, FALSE))
  /\ ack_requested' = FALSE
  /\ acknack_xevent' = (Missing(Source, last_seq) # {})
  /\ UNCHANGED <<writer, have_seen_heartbeat, last_seq, sync, buffers, gap, history, down>>

\* Neither is due (AANR_SUPPRESSED_ACK): the event is not scheduled again.
SuppressAck ==
  /\ Unlocked /\ acknack_xevent /\ have_seen_heartbeat
  /\ acknack_xevent' = FALSE
  /\ UNCHANGED <<writer, have_seen_heartbeat, last_seq, sync, buffers, gap,
                 ack_requested, history, down, up>>
----------------------------------------------------------------------------
Writer == \/ Write \/ Throttle \/ Resume \/ Timeout \/ Send \/ SendHeartbeat
          \/ \E m \in up : HandleAckNack(m)
Reader == \/ \E m \in down : HandleHeartbeat(m) \/ HandleData(m) \/ HandleGap(m) \/ Ignore(m)
          \/ HandleOneGap
          \/ PreemptiveAckNack \/ SendNack \/ SendAck \/ SuppressAck
Next == Writer \/ Reader

Spec == Init /\ [][Next]_vars

(***************************************************************************)
(* Fairness: the threads run, and the network, which may lose any message, *)
(* does not lose every one: of heartbeats that ask for an answer, AckNacks *)
(* and retransmissions sent again and again, some arrive and are handled.  *)
(* Nothing is assumed of the first transmission of a sample, of gaps, or   *)
(* of max_blocking_time, which may be infinite.                            *)
(***************************************************************************)
Nacks == {m \in ToWriter : m.missing # {}}
Acks == {m \in ToWriter : m.missing = {} /\ ~m.preemptive}
Arriving == HeartbeatOf(whc, seq, seq_xmit, FALSE) \in down'
Resending(m) == down' \cap {Data(s) : s \in m.missing} # {}

Fairness ==
  /\ WF_vars(Send) /\ WF_vars(Resume) /\ WF_vars(HandleOneGap)
  /\ SF_vars(SendHeartbeat /\ Arriving)
  /\ SF_vars(\E m \in down : HandleHeartbeat(m) /\ ack_requested' /\ acknack_xevent')
  /\ SF_vars(SendNack /\ Nacks \cap up' # {})
  /\ SF_vars(SendAck /\ Acks \cap up' # {})
  /\ SF_vars(\E m \in up : HandleAckNack(m) /\ Resending(m))
  /\ SF_vars(\E m \in up : HandleAckNack(m) /\ m.missing = {})
  /\ \A s \in 1..MaxSeq : SF_vars(HandleData(Data(s)))

FairSpec == Spec /\ Fairness
----------------------------------------------------------------------------
(* Properties. *)

\* A sample that KEEP_LAST dropped for Depth later ones of its instance.
Overwritten(s) ==
  Depth > 0 /\ Cardinality({t \in (s + 1)..seq : InstanceOf[t] = InstanceOf[s]}) >= Depth

\* What the reader acknowledged and the writer forgot was delivered to the
\* reader's application, or overwritten by later samples of its instance.
AckedWasDelivered ==
  \A s \in (Start + 1)..rn_seq : s \in delivered \/ Overwritten(s)

\* However the network loses, repeats and reorders messages, the reader sees
\* each sample once, in the order of writing.
InOrder == disordered = {}

\* What the reader has not acknowledged can still be sent again.
Recoverable ==
  \A s \in (rn_seq + 1)..seq : s \in whc \/ Overwritten(s)

\* With KEEP_ALL, water marks and reorder buffers hide nothing but delay: the
\* writer, the reader and the network between them are a reliable channel.
Channel == INSTANCE ReliableChannel
  WITH sent <- (Start + 1)..seq, received <- delivered, released <- (Start + 1)..rn_seq
ImplementsChannel == Channel!Spec

\* With KEEP_ALL a sample that is written is delivered in the end, even if its
\* first transmission is lost and the application writes no more,
EverythingArrives ==
  \A s \in (Start + 1)..MaxSeq : (seq >= s) ~> (s \in delivered)

\* and a blocked writer goes on, without its max_blocking_time having to pass.
ThrottledGoesOn == (app = "throttled") ~> (app # "throttled")
=============================================================================
