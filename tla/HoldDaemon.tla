----------------------------- MODULE HoldDaemon -----------------------------
(***************************************************************************)
(* The D1 hold daemon, scripts/d1_hold_daemon.py: a process that owns the  *)
(* only DDS publisher of the arm.  Handler threads, one per socket         *)
(* request, put the messages of a batch into a queue one at a time; a      *)
(* single writer thread takes them, writes them to the publisher's stdin   *)
(* and, when the queue stays empty for a heartbeat period, replays the     *)
(* retained pose.  A state file lets a daemon restarted in the same boot   *)
(* take up the hold again.                                                 *)
(*                                                                         *)
(* Time is abstract: the writer may time out whenever its queue is empty,  *)
(* and the grace after a client's pose may end at any moment.              *)
(***************************************************************************)
EXTENDS Naturals, Sequences, FiniteSets

CONSTANTS
    Handlers,     \* handler threads of the socket server
    Poses,        \* arm poses a funcode-2 message can carry
    NoPose,       \* last_pose is None
    Nobody,       \* owner of a queue item nobody waits for
    Batches,      \* message batches clients ask to publish
    MaxFaults,    \* bound: failed spawns, failed or lost writes, failed saves
    MaxTimeouts,  \* bound: calls that give up after 8 s
    MaxStops      \* bound: crashes, SIGTERMs and reboots

\* A JSON message reduced to what the daemon tells apart: funcode 6 with
\* power 1, funcode 5 with mode 1 or 0, funcode 2, and every other one.
Funcodes == {"power", "couple", "release", "pose", "other"}
Message  == [fc : Funcodes, pose : Poses \cup {NoPose}]
Supplies(b, fc) == \E i \in DOMAIN b : b[i].fc = fc

ASSUME HoldAssumption ==
    /\ NoPose \notin Poses
    /\ Nobody \notin Handlers
    /\ \A b \in Batches : /\ b \in Seq(Message)
                          /\ b # <<>>
                          /\ \A i \in DOMAIN b :
                                 b[i].fc = "pose" <=> b[i].pose \in Poses
    /\ MaxFaults \in Nat
    /\ MaxTimeouts \in Nat
    /\ MaxStops \in Nat

VARIABLES
    daemon,     \* "up", "stopping" (stop_event set) or "down"
    writer,     \* the writer thread: "get", "beat", "stopped" or "dead"
    hold,       \* desired_coupled, power_enabled, last_pose
    recent,     \* the client published a pose less than the grace ago
    pub,        \* the publisher process is alive
    queue,      \* _write_q
    call,       \* publish() in each handler: where it is, messages left
    file,       \* the state file, and whether this boot wrote it
    arm,        \* external: what the arm was last told
    faults, timeouts, stops   \* how much of each bound is used

vars == <<daemon, writer, hold, recent, pub, queue, call, file, arm,
          faults, timeouts, stops>>

Held    == [coupled : BOOLEAN, power : BOOLEAN, pose : Poses \cup {NoPose}]
Item    == [kind : {"msg", "save"}, msg : Message, to : Handlers \cup {Nobody}]
Call    == [pc : {"idle", "send", "wait", "save"}, todo : Seq(Message)]

Off      == [coupled |-> FALSE, power |-> FALSE, pose |-> NoPose]
Idle     == [pc |-> "idle", todo |-> <<>>]
SaveItem == [kind |-> "save", msg |-> [fc |-> "other", pose |-> NoPose],
             to   |-> Nobody]

Holding  == hold.coupled /\ hold.pose # NoPose

-----------------------------------------------------------------------------
(* What a message does to the daemon's memory and to the arm.              *)

\* _apply_message_side_effects_locked: power is never cleared, a release
\* forgets the pose.
Apply(h, m) ==
    [coupled |-> (h.coupled /\ m.fc # "release") \/ m.fc = "couple",
     power   |-> h.power \/ m.fc = "power",
     pose    |-> IF m.fc = "pose" THEN m.pose
                 ELSE IF m.fc = "release" THEN NoPose ELSE h.pose]

\* External: the arm keeps its last target when it is released.
Hears(a, m) ==
    [coupled |-> (a.coupled /\ m.fc # "release") \/ m.fc = "couple",
     power   |-> a.power \/ m.fc = "power",
     pose    |-> IF m.fc = "pose" THEN m.pose ELSE a.pose]

\* _restore_hold_locked: power if enabled, couple, then the retained pose;
\* nothing at all unless the daemon is holding.
Powered  == [arm EXCEPT !.power = @ \/ hold.power]
Restored == IF Holding
            THEN [Powered EXCEPT !.coupled = TRUE, !.pose = hold.pose]
            ELSE arm

\* Mutant of Ensured: a respawned publisher is used without a restore.
EnsuredNoRestore == arm

\* _ensure_publisher_locked when it succeeds, and the arm states in which a
\* publisher that dies on the way may leave the arm.
Ensured == IF pub THEN arm ELSE Restored
CutShort ==
    IF pub \/ ~Holding
    THEN {arm}
    ELSE {arm, Powered, [Powered EXCEPT !.coupled = TRUE], Restored}

Fault == faults < MaxFaults /\ faults' = faults + 1

\* Mutant of Answered: an error leaves the handler waiting.
AnsweredOnlyOk(to, ok) ==
    IF to = Nobody \/ ~ok THEN call
    ELSE [call EXCEPT ![to] = [pc   |-> IF Len(@.todo) = 1 THEN "save" ELSE "send",
                               todo |-> Tail(@.todo)]]

\* The handler that waits for an item is woken by done.set(): it goes on
\* with the batch, saves after the last message, or returns the error.
Answered(to, ok) ==
    IF to = Nobody THEN call
    ELSE [call EXCEPT ![to] =
            IF ok THEN [pc   |-> IF Len(@.todo) = 1 THEN "save" ELSE "send",
                        todo |-> Tail(@.todo)]
            ELSE Idle]

-----------------------------------------------------------------------------
(* publish(), one step per queue operation, in a handler thread.           *)

\* The batch is refused (no step) when it couples, supplies no pose and
\* none is retained; the lock is dropped before anything is queued.
Publish(h, b) ==
    /\ daemon = "up"
    /\ call[h] = Idle
    /\ ~ (Supplies(b, "couple") /\ hold.pose = NoPose /\ ~Supplies(b, "pose"))
    /\ call' = [call EXCEPT ![h] = [pc |-> "send", todo |-> b]]
    /\ UNCHANGED <<daemon, writer, hold, recent, pub, queue, file, arm,
                   faults, timeouts, stops>>

\* Mutant of Enqueue: the next message is queued without waiting.
EnqueueNoWait(h) ==
    /\ daemon # "down"
    /\ call[h].pc = "send"
    /\ queue' = Append(queue, [kind |-> "msg", msg |-> Head(call[h].todo),
                               to |-> h])
    /\ call' = [call EXCEPT ![h] =
                   [pc   |-> IF Len(@.todo) = 1 THEN "wait" ELSE "send",
                    todo |-> IF Len(@.todo) = 1 THEN @.todo ELSE Tail(@.todo)]]
    /\ UNCHANGED <<daemon, writer, hold, recent, pub, file, arm,
                   faults, timeouts, stops>>

Enqueue(h) ==
    /\ daemon # "down"
    /\ call[h].pc = "send"
    /\ queue' = Append(queue, [kind |-> "msg", msg |-> Head(call[h].todo),
                               to |-> h])
    /\ call' = [call EXCEPT ![h].pc = "wait"]
    /\ UNCHANGED <<daemon, writer, hold, recent, pub, file, arm,
                   faults, timeouts, stops>>

\* Mutant of GiveUp: the call goes on with the next message of its batch.
GiveUpGoesOn(h) ==
    /\ daemon # "down"
    /\ call[h].pc = "wait"
    /\ timeouts < MaxTimeouts
    /\ timeouts' = timeouts + 1
    /\ call' = Answered(h, TRUE)
    /\ queue' = [i \in DOMAIN queue |->
                    IF queue[i].to = h THEN [queue[i] EXCEPT !.to = Nobody]
                    ELSE queue[i]]
    /\ UNCHANGED <<daemon, writer, hold, recent, pub, file, arm, faults, stops>>

\* done.wait(8 s) expires: the call returns, its message stays queued.
GiveUp(h) ==
    /\ daemon # "down"
    /\ call[h].pc = "wait"
    /\ timeouts < MaxTimeouts
    /\ timeouts' = timeouts + 1
    /\ call' = [call EXCEPT ![h] = Idle]
    /\ queue' = [i \in DOMAIN queue |->
                    IF queue[i].to = h THEN [queue[i] EXCEPT !.to = Nobody]
                    ELSE queue[i]]
    /\ UNCHANGED <<daemon, writer, hold, recent, pub, file, arm, faults, stops>>

\* Mutant of Finish: nothing asks the writer to save.
FinishNoSave(h) ==
    /\ daemon # "down"
    /\ call[h].pc = "save"
    /\ call' = [call EXCEPT ![h] = Idle]
    /\ UNCHANGED <<daemon, writer, hold, recent, pub, queue, file, arm,
                   faults, timeouts, stops>>

\* The last message was written: queue a save and return ok at once.
Finish(h) ==
    /\ daemon # "down"
    /\ call[h].pc = "save"
    /\ queue' = Append(queue, SaveItem)
    /\ call' = [call EXCEPT ![h] = Idle]
    /\ UNCHANGED <<daemon, writer, hold, recent, pub, file, arm,
                   faults, timeouts, stops>>

-----------------------------------------------------------------------------
(* The writer thread.                                                      *)

Takes(kind) ==
    /\ daemon = "up"
    /\ writer = "get"
    /\ queue # <<>>
    /\ Head(queue).kind = kind
    /\ queue' = Tail(queue)

\* The message is written and takes effect.  A publisher that dies with the
\* message still in its stdin loses it unnoticed.
WriteMsg ==
    /\ Takes("msg")
    /\ hold' = Apply(hold, Head(queue).msg)
    /\ recent' = (recent \/ Head(queue).msg.fc = "pose")
    /\ call' = Answered(Head(queue).to, TRUE)
    /\ \/ /\ arm' = Hears(Ensured, Head(queue).msg)
          /\ pub' = TRUE
          /\ UNCHANGED faults
       \/ /\ Fault
          /\ arm' \in CutShort
          /\ pub' = FALSE
    /\ UNCHANGED <<daemon, writer, file, timeouts, stops>>

\* Mutant of WriteFails: the error is swallowed and the call goes on.
WriteFailsUnseen ==
    /\ Takes("msg")
    /\ Fault
    /\ arm' \in CutShort
    /\ pub' = FALSE
    /\ call' = Answered(Head(queue).to, TRUE)
    /\ UNCHANGED <<daemon, writer, hold, recent, file, timeouts, stops>>

\* The publisher does not start, dies during the restore or breaks the pipe:
\* the message is dropped and its call gets the error.
WriteFails ==
    /\ Takes("msg")
    /\ Fault
    /\ arm' \in CutShort
    /\ pub' = FALSE
    /\ call' = Answered(Head(queue).to, FALSE)
    /\ UNCHANGED <<daemon, writer, hold, recent, file, timeouts, stops>>

SaveState ==
    /\ Takes("save")
    /\ file' = [boot |-> TRUE, hold |-> hold]
    /\ UNCHANGED <<daemon, writer, hold, recent, pub, call, arm,
                   faults, timeouts, stops>>

\* The file cannot be written: the exception ends the writer thread, the
\* rest of the daemon stays up.
SaveFails ==
    /\ Takes("save")
    /\ Fault
    /\ writer' = "dead"
    /\ UNCHANGED <<daemon, hold, recent, pub, call, file, arm, timeouts, stops>>

\* queue.get times out; by the time the lock is taken the queue may be
\* longer again.
GetTimesOut ==
    /\ daemon = "up"
    /\ writer = "get"
    /\ queue = <<>>
    /\ writer' = "beat"
    /\ UNCHANGED <<daemon, hold, recent, pub, queue, call, file, arm,
                   faults, timeouts, stops>>

\* Mutant of Heartbeat: it is written to a live publisher only.
HeartbeatNoEnsure ==
    /\ daemon = "up"
    /\ writer = "beat"
    /\ writer' = "get"
    /\ \/ /\ ~Holding \/ recent \/ ~pub
          /\ UNCHANGED <<arm, pub, faults>>
       \/ /\ Holding /\ ~recent /\ pub
          /\ arm' = [arm EXCEPT !.pose = hold.pose]
          /\ UNCHANGED <<pub, faults>>
       \/ /\ Holding /\ ~recent /\ pub
          /\ Fault
          /\ pub' = FALSE
          /\ UNCHANGED arm
    /\ UNCHANGED <<daemon, hold, recent, queue, call, file, timeouts, stops>>

\* _emit_heartbeat_locked: silent when not holding or while the client
\* streams poses itself.
Heartbeat ==
    /\ daemon = "up"
    /\ writer = "beat"
    /\ writer' = "get"
    /\ \/ /\ ~Holding \/ recent
          /\ UNCHANGED <<arm, pub, faults>>
       \/ /\ Holding /\ ~recent
          /\ arm' = [Ensured EXCEPT !.pose = hold.pose]
          /\ pub' = TRUE
          /\ UNCHANGED faults
       \/ /\ Holding /\ ~recent
          /\ Fault
          /\ arm' \in CutShort
          /\ pub' = FALSE
    /\ UNCHANGED <<daemon, hold, recent, queue, call, file, timeouts, stops>>

\* stop_event is looked at before and after every get: whatever is queued
\* is left there.
WriterStops ==
    /\ daemon = "stopping"
    /\ writer \in {"get", "beat"}
    /\ writer' = "stopped"
    /\ UNCHANGED <<daemon, hold, recent, pub, queue, call, file, arm,
                   faults, timeouts, stops>>

-----------------------------------------------------------------------------
(* The environment of the threads: time, the publisher, the process.       *)

GraceEnds ==
    /\ recent
    /\ recent' = FALSE
    /\ UNCHANGED <<daemon, writer, hold, pub, queue, call, file, arm,
                   faults, timeouts, stops>>

PublisherDies ==
    /\ pub
    /\ Fault
    /\ pub' = FALSE
    /\ UNCHANGED <<daemon, writer, hold, recent, queue, call, file, arm,
                   timeouts, stops>>

\* SIGTERM: the server stops accepting, close() sets stop_event.
Terminate ==
    /\ daemon = "up"
    /\ stops < MaxStops
    /\ stops' = stops + 1
    /\ daemon' = "stopping"
    /\ UNCHANGED <<writer, hold, recent, pub, queue, call, file, arm,
                   faults, timeouts>>

\* The process is gone, with its queue, its handler threads and, at the end
\* of its stdin, its publisher.
Gone ==
    /\ daemon' = "down"
    /\ writer' = "stopped"
    /\ recent' = FALSE
    /\ pub' = FALSE
    /\ queue' = <<>>
    /\ call' = [h \in Handlers |-> Idle]
    /\ UNCHANGED <<hold, arm, faults, timeouts>>

Exit ==
    /\ daemon = "stopping"
    /\ writer \in {"stopped", "dead"}
    /\ Gone
    /\ UNCHANGED <<file, stops>>

Crash ==
    /\ daemon # "down"
    /\ stops < MaxStops
    /\ stops' = stops + 1
    /\ Gone
    /\ UNCHANGED file

\* The state file outlives a reboot, its boot_id no longer matches.
Reboot ==
    /\ stops < MaxStops
    /\ stops' = stops + 1
    /\ file' = [file EXCEPT !.boot = FALSE]
    /\ Gone

\* Mutants of Loaded: couple without a pose is taken over; the pose itself is
\* what "and" yields.
LoadedPoseless(f) == IF f.boot THEN f.hold ELSE Off
LoadedTruthy(f) ==
    IF ~f.boot THEN Off
    ELSE [f.hold EXCEPT !.coupled = IF @ THEN f.hold.pose ELSE FALSE]

\* _load_same_boot_state
Loaded(f) ==
    IF ~f.boot THEN Off
    ELSE [f.hold EXCEPT !.coupled = @ /\ f.hold.pose # NoPose]

\* The supervisor starts the daemon again; flock keeps it the only one.
Start ==
    /\ daemon = "down"
    /\ daemon' = "up"
    /\ writer' = "get"
    /\ hold' = Loaded(file)
    /\ UNCHANGED <<recent, pub, queue, call, file, arm, faults, timeouts, stops>>

-----------------------------------------------------------------------------
Init ==
    /\ daemon = "down"
    /\ writer = "stopped"
    /\ hold = Off
    /\ recent = FALSE
    /\ pub = FALSE
    /\ queue = <<>>
    /\ call = [h \in Handlers |-> Idle]
    /\ file = [boot |-> FALSE, hold |-> Off]
    /\ arm = Off
    /\ faults = 0
    /\ timeouts = 0
    /\ stops = 0

Handler(h) == Enqueue(h) \/ GiveUp(h) \/ Finish(h)
Writer == WriteMsg \/ WriteFails \/ SaveState \/ SaveFails
          \/ GetTimesOut \/ Heartbeat \/ WriterStops
Process == Start \/ Terminate \/ Exit \/ Crash \/ Reboot

Next ==
    \/ \E h \in Handlers, b \in Batches : Publish(h, b)
    \/ \E h \in Handlers : Handler(h)
    \/ Writer
    \/ GraceEnds
    \/ PublisherDies
    \/ Process

Spec == Init /\ [][Next]_vars

\* Threads that can run do run, the grace ends, a stopping process exits and
\* scripts/nx_d1_hold_supervise.sh restarts one that is down.
Fairness ==
    /\ WF_vars(Writer)
    /\ \A h \in Handlers : WF_vars(Enqueue(h)) /\ WF_vars(Finish(h))
    /\ WF_vars(GraceEnds)
    /\ WF_vars(Exit)
    /\ WF_vars(Start)

FairSpec == Spec /\ Fairness

-----------------------------------------------------------------------------
(* Properties.                                                             *)

TypeOK ==
    /\ daemon \in {"up", "stopping", "down"}
    /\ writer \in {"get", "beat", "stopped", "dead"}
    /\ hold \in Held
    /\ recent \in BOOLEAN
    /\ pub \in BOOLEAN
    /\ queue \in Seq(Item)
    /\ call \in [Handlers -> Call]
    /\ file \in [boot : BOOLEAN, hold : Held]
    /\ arm \in Held
    /\ faults \in 0..MaxFaults
    /\ timeouts \in 0..MaxTimeouts
    /\ stops \in 0..MaxStops

\* publish() has at most one message of its batch in the queue, the first of
\* those still to be written, and it waits exactly while that message is
\* there: batches reach the bus in order, and no call waits for nothing.
OneInFlight ==
    /\ \A i \in DOMAIN queue : queue[i].to # Nobody =>
           /\ queue[i].kind = "msg"
           /\ call[queue[i].to].pc = "wait"
           /\ queue[i].msg = Head(call[queue[i].to].todo)
           /\ \A j \in DOMAIN queue : queue[j].to = queue[i].to => j = i
    /\ \A h \in Handlers : call[h].pc = "wait" =>
           \E i \in DOMAIN queue : queue[i].to = h

NoFailures == faults = 0 /\ timeouts = 0

\* The daemon that would be restarted now would hold what this one holds, or
\* the difference is still on its way to the state file: a batch in progress
\* or a queued save.  (A failed or timed-out batch is never saved.)
SavedOrPending ==
    daemon # "down" /\ NoFailures =>
        \/ hold = Loaded(file)
        \/ file.boot /\ hold = file.hold
        \/ \E i \in DOMAIN queue : queue[i].kind = "save"
        \/ \E h \in Handlers : call[h] # Idle

\* When every batch that couples ends with a pose, as those of
\* service.couple_and_hold_pose do, a daemon that is coupled without a pose
\* (no heartbeat keeps the arm up) has one on its way, whatever releases of
\* other clients land in between and wherever the daemon is restarted.
CoupledPoseComing ==
    daemon # "down" /\ NoFailures /\ hold.coupled /\ hold.pose = NoPose =>
        \E h \in Handlers : Supplies(call[h].todo, "pose")

\* hold_active in the daemon's status is what service.arm_coupled goes by to
\* skip coupling before a motion ("non reinviare funcode 5 se gia' in
\* coppia"): then the arm has been told to couple.  (The freshness of the
\* heartbeat, the rest of hold_active, is left out.)
HoldActiveMeansTold ==
    daemon = "up" /\ pub /\ Holding => arm.coupled

\* What is left of each batch, and the messages of batches that gave up.
Todo == [h \in Handlers |-> call[h].todo]
Late == {queue[i].msg : i \in {j \in DOMAIN queue :
            queue[j].kind = "msg" /\ queue[j].to = Nobody}}
Register == INSTANCE HoldRegister
    WITH Clients <- Handlers, Blank <- Off, up <- daemon # "down",
         value <- hold, todo <- Todo, late <- Late, saved <- file

\* Handler threads, queue and writer show no more than a memory to which the
\* messages of each batch apply one at a time, in order and once: a batch that
\* fails applies up to some message, and one that gave up may apply one more.
ImplementsRegister == Register!Spec

\* Every publish() call returns, or its process ends, unless a failed save
\* has ended the writer thread.
CallsReturn ==
    \A h \in Handlers : call[h] # Idle ~> call[h] = Idle \/ writer = "dead"

\* Publisher deaths, lost writes and restarts heal: while the daemon means to
\* hold, the arm is told so again, as long as the writer thread lives.
HeldPoseReachesArm ==
    daemon = "up" /\ Holding ~>
        \/ ~ (daemon = "up" /\ Holding)
        \/ writer = "dead"
        \/ arm.coupled /\ arm.pose = hold.pose

\* test_d1_hold_daemon.py: coupling without a pose is refused, so the daemon
\* is never left coupled with no pose and no call under way.
CoupleWithoutPoseRejected ==
    ~ /\ daemon = "up" /\ NoFailures
      /\ hold.coupled /\ hold.pose = NoPose
      /\ \A h \in Handlers : call[h] = Idle

=============================================================================
