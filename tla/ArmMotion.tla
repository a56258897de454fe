----------------------------- MODULE ArmMotion -----------------------------
(***************************************************************************)
(* The motion requests of the D1 arm dashboard, served by threads of one   *)
(* process (Flask, threaded): go2_dashboard/d1_jog/service.py on top of    *)
(* motion_guard.py, the jog thread of jog_stream.py, the waypoint moves of *)
(* program_runner.py and tcp_motion.py.                                    *)
(*                                                                         *)
(* A step is one critical section, one publish or one read of shared state *)
(* a decision is taken on.  The hold daemon is reduced to what a publish   *)
(* does to the arm's coupling: HoldDaemon models it.  Poses, speeds and    *)
(* the number of waypoints are left out.  The daemon is the external one   *)
(* (D1_HOLD_DAEMON_EXTERNAL=1, scripts/nx_d1_jog_env.sh).                  *)
(***************************************************************************)
EXTENDS MotionGuard, Naturals

CONSTANTS
    Threads,     \* request threads; a program thread goes on as its request's
    Stream,      \* the jog thread of jog_stream.py
    Ops,         \* the requests that come in
    MaxFaults,   \* bound: publishes, status queries and pose reads that fail
    MaxLocks     \* bound: battery locks

AllOps == {"jog", "jogkeep", "jbegin", "jend", "cbegin", "cend", "tcp", "zero",
           "couple", "hold", "release", "reset", "maintain", "move", "run"}

ASSUME MotionAssumption ==
    /\ Stream \notin Threads
    /\ Ops \subseteq AllOps
    /\ MaxFaults \in Nat
    /\ MaxLocks \in Nat

VARIABLES
    req,       \* each thread's request, where it is, the kind it acquired, and
               \* whether a hold was answered ok since it came in
    stream,    \* jog_stream: armed, running, and where its loop is
    runner,    \* program_runner: _running and _stop_requested
    coupled,   \* service._arm_coupled
    arm,       \* external: the arm is coupled, hold_active of the daemon
    ghost,     \* history the properties speak of
    faults, locks

vars == <<guard, req, stream, runner, coupled, arm, ghost, faults, locks>>
bus  == <<arm, ghost, faults>>

Movers == Threads \cup {Stream}
Idle   == [op |-> "none", pc |-> "idle", has |-> "none", told |-> FALSE]

Doing(t)   == req[t].op
At(t, p)   == req[t].pc = p
Goto(t, p) == req' = [req EXCEPT ![t].pc = p]
GotoWith(t, p, k) == req' = [req EXCEPT ![t].pc = p, ![t].has = k]
Return(t)  == req' = [req EXCEPT ![t] = Idle]
Begin(t, op, p) ==
    /\ req[t] = Idle
    /\ op \in Ops
    /\ req' = [req EXCEPT ![t] = [Idle EXCEPT !.op = op, !.pc = p]]

\* A request that preempts nothing: what it sends late is counted from here.
Enter(t, op, p) ==
    /\ Begin(t, op, p)
    /\ ghost' = [ghost EXCEPT !.late[t] = 0]
    /\ UNCHANGED <<arm, faults>>

KindOf(op) ==
    CASE op \in {"jog", "jbegin", "jend"}       -> "joint"
      [] op \in {"tcp", "cbegin", "cend"}       -> "cartesian"
      [] op \in {"move", "run"}                 -> "program"
      [] op = "zero"                            -> "zero"
      [] OTHER                                  -> "admin"

\* The kind a mover works under: the one its thread acquired, or that of the
\* session the jog thread streams for.
Holds(m) ==
    IF m # Stream THEN req[m].has
    ELSE IF stream.armed THEN "cartesian" ELSE "none"

\* Threads between begin_safety_preempt and end_safety_preempt.
Handling(t) == req[t].pc \in {"stop", "force", "choose", "soft", "hard", "held",
                              "unheld", "unpower", "released"}
SourceOf(op) == IF op \in {"hold", "release"} THEN op ELSE "abort"

-----------------------------------------------------------------------------
(* Publishing, and what else can fail.                                     *)

Fault == faults < MaxFaults /\ faults' = faults + 1

\* A batch reaches the arm.  The ghosts count what anybody but the handlers
\* sends while the arm is preempted, and note whose hold a release has undone.
LateAfter(m) ==
    IF Preempted /\ (m = Stream \/ ~Handling(m)) /\ ghost.late[m] < 4
    THEN [ghost.late EXCEPT ![m] = @ + 1] ELSE ghost.late
UndoneAfter(m, what) ==
    IF what = "release"
    THEN ghost.undone \cup {t \in Threads \ {m} : Handling(t)} ELSE ghost.undone
Reaches(m, what) ==
    /\ arm' = (what = "couple" \/ (arm /\ what # "release"))
    /\ ghost' = [ghost EXCEPT !.late = LateAfter(m), !.undone = UndoneAfter(m, what)]

PublishOk(m, what) == Reaches(m, what) /\ UNCHANGED faults
\* The reply is an error; the batch may have arrived all the same.
PublishFails(m, what) == Fault /\ (Reaches(m, what) \/ UNCHANGED <<arm, ghost>>)
Publish(m, what) == PublishOk(m, what) \/ PublishFails(m, what)

\* arm_coupled(): the daemon's answer replaces the cached flag; no answer
\* counts as not coupled.
AskArm(answer) ==
    /\ \/ answer = arm /\ UNCHANGED faults
       \/ answer = FALSE /\ Fault
    /\ coupled' = answer

\* halt_completely
Halt == stream' = [stream EXCEPT !.armed = FALSE, !.running = FALSE]

\* Whoever takes or drops kind k (every kind: "all") overruns the other movers
\* that work under it: the guard protects them no longer.
OverrunAfter(t, k) ==
    {m \in Movers \ {t} : /\ Holds(m) # "none"
                          /\ m \in ghost.overrun \/ k \in {Holds(m), "all"}}
Touch(t, k) == ghost' = [ghost EXCEPT !.overrun = OverrunAfter(t, k)]

-----------------------------------------------------------------------------
(* Steps several requests share.                                           *)

\* motion_claim_plane
Claim(t) ==
    /\ At(t, "claim")
    /\ \/ MayClaim(KindOf(Doing(t))) /\ guard' = Claimed(KindOf(Doing(t)))
          /\ Goto(t, "acquire")
       \/ ~MayClaim(KindOf(Doing(t))) /\ Return(t) /\ UNCHANGED guard
    /\ UNCHANGED <<stream, runner, coupled, bus, locks>>

\* motion_try_acquire, of a request that has come to it
AfterAcquire(op) ==
    CASE op = "jbegin" -> "ask"
      [] op = "cbegin" -> "flag"
      [] op = "tcp"    -> "halt"
      [] op = "run"    -> "clear"
      [] OTHER         -> "inside"
Acquire(t) ==
    LET k == KindOf(Doing(t))
    IN /\ At(t, "acquire")
       /\ \/ /\ MayAcquire(k)
             /\ guard' = Acquired(k)
             /\ GotoWith(t, AfterAcquire(Doing(t)), k)
             /\ Touch(t, k)
          \/ /\ ~MayAcquire(k)
             /\ IF Doing(t) \in {"jbegin", "cbegin", "tcp"} THEN Goto(t, "unplane")
                ELSE Return(t)
             /\ UNCHANGED <<guard, ghost>>
       /\ UNCHANGED <<stream, runner, coupled, arm, faults, locks>>

\* motion_release in the request's finally; the program's wrapper also
\* clears _running.
Leave(t) ==
    LET k == KindOf(Doing(t))
    IN /\ At(t, "leave")
       /\ guard' = Released(k)
       /\ Touch(t, k)
       /\ IF Doing(t) \in {"tcp", "cbegin", "cend", "jend"}
          THEN GotoWith(t, "unplane", "none")
          ELSE Return(t)
       /\ runner' = [runner EXCEPT !.running = @ /\ Doing(t) # "run"]
       /\ UNCHANGED <<stream, coupled, arm, faults, locks>>

\* motion_release_plane
Unplane(t) ==
    /\ At(t, "unplane")
    /\ guard' = Unclaimed(KindOf(Doing(t)))
    /\ IF Doing(t) = "jend" THEN Goto(t, "rest") ELSE Return(t)
    /\ UNCHANGED <<stream, runner, coupled, bus, locks>>

-----------------------------------------------------------------------------
(* Coupling: ensure_coupled_for_motion, and the user's Coppia ON.          *)

CoupleBegin(t) ==
    /\ Enter(t, "couple", "admin")
    /\ UNCHANGED <<guard, stream, runner, coupled, locks>>

\* Already held: go on; otherwise a pose is read and coupled to.
Ask(t) ==
    /\ At(t, "ask")
    /\ \/ /\ AskArm(TRUE)
          /\ IF Doing(t) = "jbegin" THEN Return(t) ELSE Goto(t, "acquire")
       \/ AskArm(FALSE) /\ Goto(t, "admin")
       \/ arm = FALSE /\ Fault /\ coupled' = FALSE /\ Return(t)
    /\ UNCHANGED <<guard, stream, runner, arm, ghost, locks>>

\* couple_and_hold_pose, ensure_coupled: under the kind admin
Admin(t) ==
    /\ At(t, "admin")
    /\ \/ /\ MayAcquire("admin")
          /\ guard' = Acquired("admin")
          /\ GotoWith(t, "power", "admin")
          /\ Touch(t, "admin")
       \/ /\ ~MayAcquire("admin")
          /\ Goto(t, "refused")
          /\ UNCHANGED <<guard, ghost>>
    /\ UNCHANGED <<stream, runner, coupled, arm, faults, locks>>

Power(t) ==
    /\ At(t, "power")
    /\ \/ PublishOk(t, "couple") /\ coupled' = TRUE /\ Goto(t, "powered")
       \/ PublishFails(t, "couple") /\ UNCHANGED coupled /\ Goto(t, "unpowered")
    /\ UNCHANGED <<guard, stream, runner, locks>>

Unadmin(t) ==
    /\ req[t].pc \in {"powered", "unpowered"}
    /\ guard' = Released("admin")
    /\ Touch(t, "admin")
    /\ IF At(t, "powered") /\ Doing(t) \in {"move", "run"}
       THEN GotoWith(t, "acquire", "none")
       ELSE Return(t)
    /\ UNCHANGED <<stream, runner, coupled, arm, faults, locks>>

\* The answer asks the user for Coppia ON; what was acquired before stays.
Refused(t) ==
    /\ At(t, "refused")
    /\ Return(t)
    /\ UNCHANGED <<guard, stream, runner, coupled, bus, locks>>

-----------------------------------------------------------------------------
(* Joint jog: jog_pose_deg, alone or within a session of the joint plane.  *)

JointBegin(t) ==
    /\ Enter(t, "jbegin", "claim")
    /\ Halt
    /\ UNCHANGED <<guard, runner, coupled, locks>>

JointEnd(t) ==
    /\ Enter(t, "jend", "leave")
    /\ UNCHANGED <<guard, stream, runner, coupled, locks>>

Jog(t) ==
    /\ ~Preempted
    /\ Enter(t, "jog", "acquire")
    /\ UNCHANGED <<guard, stream, runner, coupled, locks>>

\* keep_lock: the guard is not asked.
JogInSession(t) ==
    /\ ~Preempted
    /\ Enter(t, "jogkeep", "inside")
    /\ UNCHANGED <<guard, stream, runner, coupled, locks>>

JogReady(t) ==
    /\ At(t, "inside") /\ Doing(t) \in {"jog", "jogkeep"}
    /\ IF guard.plane # "joint" THEN Halt ELSE UNCHANGED stream
    /\ IF coupled THEN Goto(t, "pose")
       ELSE IF Doing(t) = "jog" THEN Goto(t, "leave") ELSE Return(t)
    /\ UNCHANGED <<guard, runner, coupled, bus, locks>>

JogPose(t) ==
    /\ At(t, "pose")
    /\ Publish(t, "motion")
    /\ IF Doing(t) = "jog" THEN Goto(t, "leave") ELSE Return(t)
    /\ UNCHANGED <<guard, stream, runner, coupled, locks>>

-----------------------------------------------------------------------------
(* Cartesian jog and TCP moves.                                            *)

CartesianBegin(t) ==
    /\ Enter(t, "cbegin", "claim")
    /\ Halt
    /\ UNCHANGED <<guard, runner, coupled, locks>>

\* The flag, not the daemon, says coupled; jog_start looks at the preemption
\* once, then takes the pose and sees to the daemon.
CartesianReady(t) ==
    /\ At(t, "flag")
    /\ \/ Goto(t, IF coupled /\ ~Preempted THEN "arm" ELSE "leave") /\ UNCHANGED faults
       \/ Fault /\ Goto(t, "leave")
    /\ UNCHANGED <<guard, stream, runner, coupled, arm, ghost, locks>>

\* The jog thread goes on under the request's kind.
JogStart(t) ==
    /\ At(t, "arm")
    /\ stream' = [stream EXCEPT !.armed = TRUE, !.running = TRUE]
    /\ Return(t)
    /\ ghost' = [ghost EXCEPT !.overrun =
                    IF t \in @ THEN (@ \ {t}) \cup {Stream} ELSE @ \ {Stream}]
    /\ UNCHANGED <<guard, runner, coupled, arm, faults, locks>>

\* jog_stop: the loop decelerates on.
CartesianEnd(t) ==
    /\ Enter(t, "cend", "halt")
    /\ stream' = [stream EXCEPT !.running = FALSE]
    /\ UNCHANGED <<guard, runner, coupled, locks>>

\* After the ramp, or 2 s later, the loop is disarmed and the pose held.
CartesianHalt(t) ==
    /\ At(t, "halt") /\ Doing(t) = "cend"
    /\ Halt
    /\ Goto(t, "rest")
    /\ UNCHANGED <<guard, runner, coupled, bus, locks>>

TcpBegin(t) ==
    /\ Enter(t, "tcp", "claim")
    /\ UNCHANGED <<guard, stream, runner, coupled, locks>>

TcpReady(t) ==
    /\ At(t, "halt") /\ Doing(t) = "tcp"
    /\ Halt
    /\ \/ Goto(t, IF ~Preempted /\ coupled THEN "tcheck" ELSE "leave") /\ UNCHANGED faults
       \/ Fault /\ Goto(t, "leave")
    /\ UNCHANGED <<guard, runner, coupled, arm, ghost, locks>>

\* Mutant of TcpCheck: the preemption is looked at once, before the first.
TcpCheckBlind(t) ==
    /\ At(t, "tcheck")
    /\ Goto(t, "tsend")
    /\ UNCHANGED <<guard, stream, runner, coupled, bus, locks>>

\* execute_waypoints_local looks at nothing but the preemption.
TcpCheck(t) ==
    /\ At(t, "tcheck")
    /\ Goto(t, IF Preempted THEN "leave" ELSE "tsend")
    /\ UNCHANGED <<guard, stream, runner, coupled, bus, locks>>

TcpSend(t) ==
    /\ At(t, "tsend")
    /\ \/ PublishOk(t, "motion") /\ \E p \in {"tcheck", "leave"} : Goto(t, p)
       \/ PublishFails(t, "motion") /\ Goto(t, "leave")
    /\ UNCHANGED <<guard, stream, runner, coupled, locks>>

\* _stream_loop: a preemption disarms it, otherwise an armed loop makes a step;
\* once jog_stop was called it may also have come to rest.
StreamTop ==
    /\ stream.pc = "top" /\ stream.armed
    /\ IF Preempted THEN Halt ELSE stream' = [stream EXCEPT !.pc = "ready"]
    /\ UNCHANGED <<guard, req, runner, coupled, bus, locks>>

\* _send_servo_target
StreamReady ==
    /\ stream.pc = "ready"
    /\ stream' = [stream EXCEPT !.pc = IF Preempted THEN "failed"
                                       ELSE IF stream.armed THEN "send" ELSE "top"]
    /\ UNCHANGED <<guard, req, runner, coupled, bus, locks>>

StreamSend ==
    /\ stream.pc \in {"send", "again"}
    /\ \/ PublishOk(Stream, "motion") /\ stream' = [stream EXCEPT !.pc = "top"]
       \/ /\ PublishFails(Stream, "motion")
          /\ \/ stream.pc = "send" /\ stream' = [stream EXCEPT !.pc = "again"]
             \/ stream' = [stream EXCEPT !.pc = "failed"]
    /\ UNCHANGED <<guard, req, runner, coupled, locks>>

StreamFailed ==
    /\ stream.pc = "failed"
    /\ stream' = [stream EXCEPT !.pc = "top", !.running = FALSE]
    /\ UNCHANGED <<guard, req, runner, coupled, bus, locks>>

-----------------------------------------------------------------------------
(* go_zero: funcode 7, a wait, and a hold whose first message couples.     *)

ZeroBegin(t) ==
    /\ Enter(t, "zero", "acquire")
    /\ runner' = [runner EXCEPT !.stop = FALSE]
    /\ UNCHANGED <<guard, stream, coupled, locks>>

ZeroFold(t) ==
    /\ At(t, "inside") /\ Doing(t) = "zero"
    /\ Halt
    /\ Publish(t, "motion")
    /\ Goto(t, "folded")
    /\ UNCHANGED <<guard, runner, coupled, locks>>

\* The flag stays as it is; without feedback nothing is sent.
ZeroHold(t) ==
    /\ At(t, "folded")
    /\ \/ Halt /\ Publish(t, "couple")
       \/ Fault /\ UNCHANGED <<stream, arm, ghost>>
    /\ Goto(t, "leave")
    /\ UNCHANGED <<guard, runner, coupled, locks>>

-----------------------------------------------------------------------------
(* Preemption: the hold button, a program's abort, motor_release.          *)

Preempt(t, s) ==
    /\ guard' = PreemptBegun(s)
    /\ ghost' = [ghost EXCEPT !.overrun = OverrunAfter(t, "all"), !.undone = @ \ {t}]
    /\ UNCHANGED <<stream, runner, coupled, arm, faults, locks>>

HoldBegin(t)    == Begin(t, "hold", "stop") /\ Preempt(t, "hold")
ReleaseBegin(t) == Begin(t, "release", "stop") /\ Preempt(t, "release")
\* The abort drops the program's own kind with every other.
AbortBegin(t) ==
    /\ At(t, "abort")
    /\ GotoWith(t, "stop", "none")
    /\ Preempt(t, "abort")

\* request_stop
HoldStop(t) ==
    /\ At(t, "stop")
    /\ runner' = [runner EXCEPT !.stop = TRUE]
    /\ Halt
    /\ Goto(t, "force")
    /\ UNCHANGED <<guard, coupled, bus, locks>>

\* motion_force_idle
HoldForce(t) ==
    /\ At(t, "force")
    /\ Halt
    /\ guard' = Forced
    /\ Touch(t, "all")
    /\ coupled' = (coupled /\ Doing(t) # "release")
    /\ Goto(t, IF Doing(t) = "release" THEN "unpower" ELSE "choose")
    /\ UNCHANGED <<runner, arm, faults, locks>>

\* Mutant of HoldChoose: an abort is soft without asking for the coupling.
HoldChooseUnasked(t) ==
    /\ At(t, "choose")
    /\ Goto(t, IF Doing(t) = "hold" THEN "hard" ELSE "soft")
    /\ UNCHANGED <<guard, stream, runner, coupled, bus, locks>>

\* The button's hold is hard.  An abort's is soft as long as the arm is
\* coupled.  Without a pose there is no hold.
HoldChoose(t) ==
    /\ At(t, "choose")
    /\ \/ Fault /\ Goto(t, "unheld") /\ UNCHANGED coupled
       \/ Doing(t) = "hold" /\ Goto(t, "hard") /\ UNCHANGED <<coupled, faults>>
       \/ /\ Doing(t) # "hold"
          /\ \E answer \in BOOLEAN : /\ AskArm(answer)
                                     /\ Goto(t, IF answer THEN "soft" ELSE "hard")
    /\ UNCHANGED <<guard, stream, runner, arm, ghost, locks>>

\* couple_and_hold_pose without the guard
HoldHard(t) ==
    /\ At(t, "hard")
    /\ \/ PublishOk(t, "couple") /\ coupled' = TRUE /\ Goto(t, "held")
       \/ PublishFails(t, "couple") /\ UNCHANGED coupled /\ Goto(t, "unheld")
    /\ UNCHANGED <<guard, stream, runner, locks>>

\* soft_hold_measured: nothing is sent when the flag says uncoupled, or when
\* there is no pose.
HoldSoft(t) ==
    /\ At(t, "soft")
    /\ \/ ~coupled /\ Goto(t, "held") /\ UNCHANGED bus
       \/ coupled /\ PublishOk(t, "pose") /\ Goto(t, "held")
       \/ coupled /\ PublishFails(t, "pose") /\ Goto(t, "unheld")
       \/ Fault /\ Goto(t, "unheld") /\ UNCHANGED <<arm, ghost>>
    /\ UNCHANGED <<guard, stream, runner, coupled, locks>>

Unpower(t) ==
    /\ At(t, "unpower")
    /\ Halt
    /\ Publish(t, "release")
    /\ Goto(t, "released")
    /\ UNCHANGED <<guard, runner, coupled, locks>>

\* Where the request goes on, and whom its hold was for.
AfterHold(t) ==
    [u \in Threads |->
        IF u = t
        THEN CASE Doing(t) = "move" -> [req[t] EXCEPT !.pc = "leave"]
               [] Doing(t) = "run"  -> [req[t] EXCEPT !.pc = "ending"]
               [] OTHER             -> Idle
        ELSE [req[u] EXCEPT !.told = @ \/ (At(t, "held") /\ req[u] # Idle)]]

\* Mutant of HoldEnd: the preemption ends only when the hold was ok.
HoldEndOnlyOk(t) ==
    /\ req[t].pc \in {"held", "unheld", "released"}
    /\ guard' = IF At(t, "unheld") THEN guard ELSE PreemptEnded(SourceOf(Doing(t)))
    /\ req' = AfterHold(t)
    /\ UNCHANGED <<stream, runner, coupled, bus, locks>>

\* The finally: end_safety_preempt with the source that began.
HoldEnd(t) ==
    /\ req[t].pc \in {"held", "unheld", "released"}
    /\ guard' = PreemptEnded(SourceOf(Doing(t)))
    /\ req' = AfterHold(t)
    /\ ghost' = [ghost EXCEPT
         !.late   = IF guard'.preempt = "none" THEN [m \in Movers |-> 0] ELSE @,
         !.undone = @ \ {t}]
    /\ UNCHANGED <<stream, runner, coupled, arm, faults, locks>>

\* motion_reset; page_handoff, which holds the pose after it.
ResetBegin(t) ==
    /\ Enter(t, "reset", "reset")
    /\ Halt
    /\ UNCHANGED <<guard, runner, coupled, locks>>

Reset(t) ==
    /\ At(t, "reset")
    /\ guard' = Forced
    /\ Touch(t, "all")
    /\ Return(t) \/ Goto(t, "rest")
    /\ UNCHANGED <<stream, runner, coupled, arm, faults, locks>>

-----------------------------------------------------------------------------
(* hold_pose_stream: the pose once more, funcode 2, asking neither the    *)
(* guard nor the preemption: where a move arrives ("near") and returns     *)
(* ("there"), where a program has ended ("ended"), where a session, a page *)
(* or a maintain request ends ("rest").                                    *)

\* /api/arm/maintain, /api/joints/hold
MaintainBegin(t) ==
    /\ Enter(t, "maintain", "rest")
    /\ UNCHANGED <<guard, stream, runner, coupled, locks>>

Near(t)  == req[t].pc \in {"near", "nearhold"}
There(t) == req[t].pc \in {"there", "therehold"}
Ended(t) == req[t].pc \in {"ended", "endedhold"}
Rests(t) == req[t].pc \in {"rest", "resthold"}

\* What comes after it, sent or not, well or badly.
PoseDone(t) ==
    \/ Near(t) /\ Goto(t, "there")
    \/ There(t) /\ Goto(t, IF Doing(t) = "run" THEN "next" ELSE "leave")
    \/ Ended(t) /\ Goto(t, "leave")
    \/ Rests(t) /\ IF Doing(t) = "cend" THEN Goto(t, "leave") ELSE Return(t)

\* Nothing is sent when the flag says uncoupled, or when no pose was given
\* and none is cached.
PoseAsked(t) ==
    /\ \/ At(t, "near")  /\ coupled /\ Goto(t, "nearhold")
       \/ At(t, "there") /\ coupled /\ Goto(t, "therehold")
       \/ At(t, "ended") /\ coupled /\ Goto(t, "endedhold")
       \/ At(t, "rest")  /\ coupled /\ Goto(t, "resthold")
       \/ req[t].pc \in {"near", "there"} /\ ~coupled /\ PoseDone(t)
       \/ req[t].pc \in {"ended", "rest"} /\ PoseDone(t)
    /\ UNCHANGED <<guard, stream, runner, coupled, bus, locks>>

\* _stream_pose_hold
PoseSent(t) ==
    /\ req[t].pc \in {"nearhold", "therehold", "endedhold", "resthold"}
    /\ Publish(t, "pose")
    /\ PoseDone(t)
    /\ UNCHANGED <<guard, stream, runner, coupled, locks>>

-----------------------------------------------------------------------------
(* Programs and moves to a point: move_to_servo_deg_smooth, once under a   *)
(* lock of its own ("move") or per waypoint of a program ("run").          *)

\* Mutants of Interrupted
InterruptedByPreempt == Preempted
InterruptedByStop    == runner.stop

Interrupted == Preempted \/ runner.stop

\* The endpoint clears the stop flag, whoever set it.
MoveBegin(t) ==
    /\ Enter(t, "move", "start")
    /\ Halt
    /\ runner' = [runner EXCEPT !.stop = FALSE]
    /\ UNCHANGED <<guard, coupled, locks>>

MoveStart(t) ==
    /\ At(t, "start")
    /\ IF Preempted THEN Return(t) ELSE Goto(t, "ask")
    /\ UNCHANGED <<guard, stream, runner, coupled, bus, locks>>

RunBegin(t) ==
    /\ ~runner.running /\ ~Preempted
    /\ Enter(t, "run", "ask")
    /\ Halt
    /\ UNCHANGED <<guard, runner, coupled, locks>>

\* The stop flag is cleared; the program's thread starts.
RunClear(t) ==
    /\ At(t, "clear")
    /\ runner' = [running |-> TRUE, stop |-> FALSE]
    /\ Goto(t, "next")
    /\ UNCHANGED <<guard, stream, coupled, bus, locks>>

\* The next waypoint, if there is one: a move under keep_lock does not couple.
RunNext(t) ==
    /\ At(t, "next")
    /\ \/ /\ Goto(t, "ending")
          /\ UNCHANGED <<stream, coupled, faults>>
       \/ /\ ~Interrupted
          /\ \E answer \in BOOLEAN :
                /\ AskArm(answer)
                /\ IF answer THEN Halt /\ Goto(t, "check")
                   ELSE Goto(t, "ending") /\ UNCHANGED stream
    /\ UNCHANGED <<guard, runner, arm, ghost, locks>>

MoveReady(t) ==
    /\ At(t, "inside") /\ Doing(t) = "move"
    /\ \/ runner.stop /\ Goto(t, "leave") /\ UNCHANGED <<stream, faults>>
       \/ ~runner.stop /\ Halt /\ Goto(t, "check") /\ UNCHANGED faults
       \/ ~runner.stop /\ Halt /\ Fault /\ Goto(t, "leave")
    /\ UNCHANGED <<guard, runner, coupled, arm, ghost, locks>>

\* Where a move that failed without a hold goes.
GiveUp(t) ==
    Goto(t, IF Doing(t) = "run" THEN "ending" ELSE "leave")

\* Before a waypoint
MoveCheck(t) ==
    /\ At(t, "check")
    /\ Goto(t, IF Interrupted THEN "abort" ELSE "send")
    /\ UNCHANGED <<guard, stream, runner, coupled, bus, locks>>

MoveSend(t) ==
    /\ At(t, "send")
    /\ \/ PublishOk(t, "motion") /\ Goto(t, "sent")
       \/ PublishFails(t, "motion") /\ GiveUp(t)
    /\ UNCHANGED <<guard, stream, runner, coupled, locks>>

\* After it: the next one, or the wait for the motion to end.
MoveSent(t) ==
    /\ At(t, "sent")
    /\ IF Interrupted THEN Goto(t, "abort") ELSE \E p \in {"check", "settle"} : Goto(t, p)
    /\ UNCHANGED <<guard, stream, runner, coupled, bus, locks>>

MoveSettled(t) ==
    /\ At(t, "settle")
    /\ Goto(t, IF Interrupted THEN "abort" ELSE "wait")
    /\ UNCHANGED <<guard, stream, runner, coupled, bus, locks>>

\* wait_until_at_target: arrived, or interrupted, or out of time.  A program
\* alone passes a stop_check.
MoveWaited(t) ==
    /\ At(t, "wait")
    /\ \/ Goto(t, "abort")
       \/ Doing(t) = "run" /\ ~Interrupted /\ Goto(t, "near")
       \/ Doing(t) = "move" /\ ~Preempted /\ Goto(t, "near")
    /\ UNCHANGED <<guard, stream, runner, coupled, bus, locks>>

RunEnding(t) ==
    /\ At(t, "ending")
    /\ runner' = [runner EXCEPT !.running = FALSE]
    /\ Goto(t, "ended")
    /\ UNCHANGED <<guard, stream, coupled, bus, locks>>

-----------------------------------------------------------------------------
(* The battery protector, another thread of the process: its hold is a     *)
(* "hold" request, the lock and the override are set on their own.         *)

SetBatteryLock ==
    /\ locks < MaxLocks
    /\ locks' = locks + 1
    /\ guard' = [Forced EXCEPT !.lock = TRUE]
    /\ ghost' = [ghost EXCEPT !.overrun = {m \in Movers : Holds(m) # "none"}]
    /\ UNCHANGED <<req, stream, runner, coupled, arm, faults>>

ClearBatteryLock ==
    /\ guard' = [guard EXCEPT !.lock = FALSE]
    /\ UNCHANGED <<req, stream, runner, coupled, bus, locks>>

\* begin_battery_override, its expiry, end_battery_override
BatteryOverride ==
    /\ guard.lock \/ guard.override
    /\ guard' = [guard EXCEPT !.override = ~@]
    /\ UNCHANGED <<req, stream, runner, coupled, bus, locks>>

-----------------------------------------------------------------------------
Init ==
    /\ GuardInit
    /\ req = [t \in Threads |-> Idle]
    /\ stream = [armed |-> FALSE, running |-> FALSE, pc |-> "top"]
    /\ runner = [running |-> FALSE, stop |-> FALSE]
    /\ coupled = FALSE
    /\ arm \in BOOLEAN     \* the daemon outlives the dashboard
    /\ ghost = [late |-> [m \in Movers |-> 0], undone |-> {}, overrun |-> {}]
    /\ faults = 0
    /\ locks = 0

Arrive(t) ==
    \/ CoupleBegin(t) \/ JointBegin(t) \/ JointEnd(t) \/ Jog(t) \/ JogInSession(t)
    \/ CartesianBegin(t) \/ CartesianEnd(t) \/ TcpBegin(t) \/ ZeroBegin(t)
    \/ HoldBegin(t) \/ ReleaseBegin(t) \/ ResetBegin(t) \/ MaintainBegin(t)
    \/ MoveBegin(t) \/ RunBegin(t)

\* A request goes on.
Serve(t) ==
    \/ Claim(t) \/ Acquire(t) \/ Leave(t) \/ Unplane(t)
    \/ Ask(t) \/ Admin(t) \/ Power(t) \/ Unadmin(t) \/ Refused(t)
    \/ JogReady(t) \/ JogPose(t)
    \/ CartesianReady(t) \/ JogStart(t) \/ CartesianHalt(t)
    \/ TcpReady(t) \/ TcpCheck(t) \/ TcpSend(t)
    \/ ZeroFold(t) \/ ZeroHold(t)
    \/ AbortBegin(t) \/ HoldStop(t) \/ HoldForce(t) \/ HoldChoose(t)
    \/ HoldHard(t) \/ HoldSoft(t) \/ Unpower(t) \/ HoldEnd(t) \/ Reset(t)
    \/ MoveStart(t) \/ RunClear(t) \/ RunNext(t) \/ MoveReady(t)
    \/ MoveCheck(t) \/ MoveSend(t) \/ MoveSent(t) \/ MoveSettled(t) \/ MoveWaited(t)
    \/ RunEnding(t) \/ PoseAsked(t) \/ PoseSent(t)

StreamStep == StreamTop \/ StreamReady \/ StreamSend \/ StreamFailed
Battery    == SetBatteryLock \/ ClearBatteryLock \/ BatteryOverride

Next ==
    \/ \E t \in Threads : Arrive(t) \/ Serve(t)
    \/ StreamStep
    \/ Battery

Spec == Init /\ [][Next]_vars

\* Threads run; requests and the battery owe nothing.
Fairness == WF_vars(StreamStep) /\ \A t \in Threads : WF_vars(Serve(t))
FairSpec == Spec /\ Fairness

-----------------------------------------------------------------------------
(* Properties.                                                             *)

Steps == {"idle", "claim", "acquire", "leave", "unplane", "ask", "admin", "power",
          "powered", "unpowered", "refused", "inside", "pose", "flag", "arm", "halt",
          "tcheck", "tsend", "folded", "stop", "force", "choose", "soft", "hard",
          "held", "unheld", "unpower", "released", "abort", "reset", "start", "clear",
          "next", "check", "send", "sent", "settle", "wait", "ending",
          "near", "nearhold", "there", "therehold", "ended", "endedhold", "rest",
          "resthold"}

TypeOK ==
    /\ GuardType
    /\ req \in [Threads -> [op : AllOps \cup {"none"}, pc : Steps,
                            has : Kinds \cup {"none"}, told : BOOLEAN]]
    /\ stream \in [armed : BOOLEAN, running : BOOLEAN,
                   pc : {"top", "ready", "send", "again", "failed"}]
    /\ runner \in [running : BOOLEAN, stop : BOOLEAN]
    /\ coupled \in BOOLEAN /\ arm \in BOOLEAN
    /\ ghost \in [late : [Movers -> 0..4], undone : SUBSET Threads, overrun : SUBSET Movers]
    /\ faults \in 0..MaxFaults /\ locks \in 0..MaxLocks

\* Of the movers whose kind nobody took or dropped under them (a forced reset,
\* a preemption, a re-entrant acquire), at most one works under the guard,
\* whatever was overrun before: motion_guard.try_acquire and motion_release,
\* with what the requests do with them.
Exclusive ==
    \A m, n \in Movers \ ghost.overrun :
        (Holds(m) # "none" /\ Holds(n) # "none") => m = n

\* Once the arm is preempted a request sends no more than it can between two
\* looks at the flag: the batch it was about to send; go_zero's hold besides; a
\* move its pose on arrival and again when it returns; a program these two and
\* the pose it ends with (program_runner.py:197, 505, 561).  The jog thread
\* sends its batch and its one retry.
Unlooked(op) == CASE op \in {"zero", "move"} -> 2 [] op = "run" -> 3 [] OTHER -> 1
PreemptStopsMovers ==
    /\ \A t \in Threads : Doing(t) \notin {"none", "hold", "release"} =>
          ghost.late[t] <= Unlooked(Doing(t))
    /\ ghost.late[Stream] <= 2

\* The arm is never left preempted: while it is, the handler that began last is
\* still at work, whichever order holds, releases and aborts end in and
\* whatever fails in them (the finally of request_emergency_hold, motor_release).
PreemptHasOwner ==
    Preempted => \E t \in Threads : Handling(t) /\ SourceOf(Doing(t)) = guard.preempt

\* A hold that was answered ok leaves the arm coupled, unless a release
\* overtook it: the soft hold of an abort does nothing for an arm that is not.
HoldLeavesCoupled ==
    \A t \in Threads : At(t, "held") => arm \/ t \in ghost.undone

\* A thread that sends waypoints stops when it is told to.
InLoop(t) ==
    req[t].pc \in {"check", "send", "sent", "settle", "wait", "next"} \/ Near(t) \/ There(t)
StopEndsPrograms ==
    \A t \in Threads : (InLoop(t) /\ runner.stop) ~> (~InLoop(t) \/ ~runner.stop)

\* "Stop immediato: ferma i flussi" (service.py:798): a thread that looks at
\* the flags after a hold was answered ok sends no more.
HoldStopsMotion ==
    [][\A t \in Threads : req[t].told =>
          ~(MoveCheck(t) /\ req'[t].pc = "send")
          /\ ~(TcpCheck(t) /\ req'[t].pc = "tsend")]_vars
=============================================================================
