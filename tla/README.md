# Verification of the Go2 and D1 control stack

TLA+ models, TLC runs and TLAPS proofs for the programs that move the robot: the
motion and hold stack of the D1 arm (`go2_dashboard/d1_jog/`,
`scripts/d1_hold_daemon.py`), the protectors that lay the robot down
(`go2_dashboard/go2_thermal_*.py`, `go2_battery_protect.py`), the low-level
deployment controller (`go2_deploy/`), and the reliable delivery of the
middleware under all of them (`cyclonedds/`). Paths below are relative to `src/`.

## 1. The system

The arm falls when nobody holds it, and jerks when it is coupled at the wrong
moment. Two processes share the work: a *hold daemon* that owns the only DDS
publisher and keeps the arm up, and the *arm dashboard*, a threaded Flask server
whose requests move it. The robot under the arm has a dashboard of its own, whose
watchdogs lay it down when its motors are hot or its battery is empty. A C++
controller replaces all of that when a learned gait is deployed. All of them talk
through Cyclone DDS.

| part | source | state | operations |
|---|---|---|---|
| hold daemon | `scripts/d1_hold_daemon.py`, `nx_d1_hold_supervise.sh` | retained pose, coupled, power; write queue; publisher process; state file | `publish`, `status`; writer loop: message, save, heartbeat; load, close; restart by the supervisor |
| hold client | `go2_dashboard/d1_hold_client.py` | none | one request per connection, with a timeout |
| motion guard | `go2_dashboard/d1_jog/motion_guard.py` | kind, plane, preemption and its source, battery lock, override | acquire, release, claim, release plane, force idle, begin and end of a preemption, lock |
| arm service | `d1_jog/service.py` | cached `_arm_coupled`, pose cache | couple, hold, release, zero, joint and cartesian sessions, TCP move, reset |
| jog stream | `d1_jog/jog_stream.py` | armed, running, pose, speed | start, update, stop, halt; its loop |
| program runner | `d1_jog/program_runner.py` | `_running`, `_stop_requested`, status | move to a point, run, stop |
| TCP move | `d1_jog/tcp_motion.py` | none | plan, send waypoints |
| arm endpoints | `d1_jog/app.py` | camera and job caches | routes; scan and pick sequences made of the operations above |
| battery protector | `go2_battery_protect.py` | lock, cooldown, sequence running | tick: stop arm, fold, crouch, lock; clear |
| thermal protector | `go2_thermal_protect.py`, `go2_thermal_runtime.py`, `go2_thermal_settings.py`, `go2_motor_sport.py` | mode, pending recovery (persisted), cooldowns, settings | tick; manual balance, recovery, stand, crouch |
| motor health server | `motor_health_app.py`, `go2_motor_health.py` | snapshot cache | routes over the two protectors |
| sport lane, operator | `sport_lane.py`, `blueprints/` | last RPC outcome | one sport call per request |
| Hermes | `hermes/` | none that matters | phrases to sport commands and speech |
| vision and grasping | `cameras.py`, `d1_jog/orbbec_capture.py`, `grasp6d.py`, `pick_*.py` | frames, teach model | numeric |
| kinematics | `d1_jog/cartesian.py`, `motion_profile.py` | none | numeric |
| low-level controller | `go2_deploy/include/` | damping, sit, stand or control; start pose, counters, policy history; shared state and command | low-state handler, `StartControl`, `ControlStep`, `LowCmdwriteHandler` |
| reliable delivery | `cyclonedds/src/core/ddsi/src/` (`q_transmit.c`, `q_receive.c`, `q_radmin.c`, `ddsi_acknack.c`, `ddsi_endpoint.c`), `ddsc/src/dds_whc.c` | writer history cache, acknowledged number; two reorder buffers, in-sync state | write, throttle, heartbeat, AckNack, gap, retransmission, delivery |
| other third party | `unitree_sdk2_python/`, the rest of `cyclonedds/`, `unitree_mujoco/`, `D1 550 Workspace/` | | |

How they interact. A request thread acquires a *kind* from the guard, sees to
the coupling, publishes batches to the daemon over a socket and drops the kind.
The jog thread publishes on behalf of a cartesian session. The hold button, a
program's abort and a release *preempt*: they empty the guard under whoever
works, set the program's stop flag, disarm the jog thread, and hold or release;
movers notice at their next look, before which they may send up to three batches. In the daemon, handler threads pass messages
to the writer one at a time; the writer writes, saves, and when idle repeats the
retained pose. The two watchdogs and the request threads of the motor health
server share the sport scripts, one at a time, and `thermal_mode`, which each
writes after a script of seconds. In the deployment controller four threads share
one object under two mutexes that do not cover all of it. A writer and a reader
of the middleware share nothing but messages that may be lost or overtaken.

What is hard: the guard knows kinds and not owners; every check of the
preemption, of the cached coupling, of the stop flag or of the retained pose is
followed by an action in another step; publishes take seconds, may fail and may
have arrived all the same; the publisher may die with messages unread; the
daemon answers before it saves and may be restarted at any point. A watchdog's
tick acts on a mode it read before, and a script that failed may have moved the
robot. The controller's start, its first measurement and its first command are
ordered by sleeps. A reader acknowledges from one buffer and delivers from
another.

What makes each part correct is stated with the runs below; what is hard to
test is listed, line by line, under `hazards` in `PROJECT.json`.

## 2. Modules

| module | what it is |
|---|---|
| `HoldDaemon` | the daemon: queue, writer, publisher, state file, restarts |
| `HoldRegister` | what `HoldDaemon` promises its clients: a single memory of the hold |
| `MotionGuard` | the guard's record and every function on it, as operators |
| `ArmMotion` | the arm's requests, the jog thread and the battery lock over `MotionGuard` |
| `ThermalProtect` | the two watchdogs, the sport scripts and the manual commands |
| `RobotController` | the four threads of the deployment controller |
| `Reorder` | the reorder buffer of the middleware, as operators |
| `Reliability` | a writer, a reader and the network over `Reorder` |
| `ReliableChannel` | what `Reliability` promises: an abstract channel it implements |
| `MC...` | values of the constants, and symmetry, for TLC |
| `...Proofs` | the theorems about the module of that name |
| `AnySettingsProofs` | what holds of `Reliability` whatever the history depth, the buffers and the high-water mark |

### HoldDaemon

| variable | in the code |
|---|---|
| `daemon`, `writer` | the process; `_writer_loop`: at `get`, about to beat, stopped, dead |
| `hold` | `desired_coupled`, `power_enabled`, `last_pose` |
| `recent` | `_client_motion_recent_locked` |
| `pub` | `_publisher_alive_locked` |
| `queue` | `_write_q`, each message with the handler that waits for it |
| `call` | `publish()` in each handler: about to queue, waiting, about to queue the save |
| `file` | the state file, and whether this boot wrote it |
| `arm` | external: what the arm was last told |

`Publish`, `Enqueue`, `GiveUp`, `Finish` are the four points of `publish()`
between which the lock is dropped. `WriteMsg` and `WriteFails` are the whole
`client_msg` branch with the respawn and restore in front of it; a failed
restore may leave the arm anywhere along `CutShort`. `SaveState`, `SaveFails`,
`Heartbeat`, `GetTimesOut`, `WriterStops` are the rest of the loop. `Crash`,
`Terminate` then `Exit`, `Reboot` and `Start` are the process. A message is its
funcode and its pose. Time is abstract: the queue may time out whenever it is
empty, the grace after a client's pose may end at any moment. The age of the
heartbeat, a part of `hold_active`, is left out, as are event history and error
texts.

`HoldRegister` says what a client may rely on without knowing of the queue, the
writer and the locks: one memory of the hold, to which the messages of each client's
batch apply once and in the order of the batch, those of other clients between them. A
batch that is refused or given up has applied up to some message; of one that was
given up the message under way may still apply, late. What is saved is the memory of a
moment, and what a new process starts from. `HoldDaemon` is shown to implement it:
`Todo` is what each handler has left of its batch with what the queue holds of it,
`Late` what the queue holds that nobody waits for.

### MotionGuard and ArmMotion

`MotionGuard` has one operator per function, each the new value of the record.
In `ArmMotion` each thread serves one request at a time; `req[t].pc` is the next
step, one critical section, publish or decisive read each.

| request | code | path |
|---|---|---|
| `jog`, `jogkeep` | `jog_pose_deg` | acquire, inside, pose, leave (`keep_lock`: no guard) |
| `jbegin`, `jend` | `joint_control_begin`, `_end` | claim, acquire, ask, admin, power; leave, unplane, rest |
| `cbegin`, `cend` | `cartesian_begin_jog`, `_end_jog` with `jog_start`, `jog_stop` | claim, acquire, flag, arm; halt, rest, leave, unplane |
| `tcp` | `cartesian_move_tcp`, `tcp_motion` | claim, acquire, halt, (tcheck, tsend)*, leave, unplane |
| `couple` | `enable_all`, `ensure_coupled` | admin, power |
| `zero` | `go_zero` | acquire, inside, folded, leave |
| `hold` | `request_emergency_hold` | stop, force, choose, hard |
| `release` | `motor_release` | stop, force, unpower |
| `reset` | `motion_reset`, `page_handoff` | reset, (rest) |
| `maintain` | `/api/arm/maintain`, `/api/joints/hold` | rest |
| `move` | `move_to_servo_deg_smooth` | start, ask, acquire, inside, (check, send, sent)*, settle, wait, near, there, leave |
| `run` | `run_program`, `_run_program_thread` | ask, acquire, clear, (next, a move from check to there)*, ending, ended, leave |
| abort of the last two | `_hold_measured_pose_for_abort` | stop, force, choose, soft or hard |

`near`, `there`, `ended` and `rest` are the calls of `hold_pose_stream`, which sends
the pose once more and looks at neither the guard nor the preemption: where a move
arrives, where it returns, where a program has ended, and where a session, a page
or a maintain request ends. Each is two steps, the look at the cached flag
(`PoseAsked`) and the publish (`PoseSent`). A soft hold publishes by the same call.

The thread a program starts goes on as its request's thread. The jog thread is
`stream`. `coupled` is the cached flag, `arm` what the daemon reports;
`arm_coupled()` copies one to the other or, unanswered, counts as uncoupled. The
daemon is the external one (`scripts/nx_d1_jog_env.sh` sets it up so), reduced
to what a batch does to the coupling: `HoldDaemon` is its own module.

Abstractions: poses, speeds, the number of waypoints and inverse kinematics
(each loop may end after any waypoint); the reasons of aborts, which are one
source; tracking aborts, off by default; a batch the daemon refuses is a failed
publish. `ghost` is history: the batches of any kind that a request that is not the
handler, or the jog thread, has sent since a preemption began (counted up to four,
from zero for each request that comes in), holds a release has undone, and
`overrun`, the movers under whom somebody took or dropped their kind. A mover leaves
`overrun` when it acquires anew; the jog thread is overrun when the request it goes
on for was.

### ThermalProtect

Whoever moves the robot runs *sport scripts*: a gate (`sport_motion_allowed`), a
wait for `_SPORT_SUBPROCESS_LOCK`, the script, and what is made of its result.
Each thread has a `job`: the scripts left (`todo`), where it is in the one in hand
(`pc`), and whether all went well so far.

| variable | in the code |
|---|---|
| `posture` | external: the robot stands or lies |
| `pending` | `pending_crouch_recovery`, in the runtime file: survives a restart |
| `mode` | `thermal_mode` |
| `lock` | the battery lock, in memory |
| `saw` | the mode the tick under way has read (`_tick`'s local) |
| `owed` | history: the watchdog laid the robot down, and nobody made it stand or forgot it |

`Gate`, `StartScript`, `ScriptDone` or `ScriptFails`, `ScriptResult` are one
script (`invoke_sport_pose`), `Finish` what the caller writes afterwards. `Look`
and `Tick` are `_tick`: it reads the mode, may set another, and decides by the
first. `Request` is a manual stand, crouch, balance or recovery, `LowBattery` and
`Recharged` the battery's critical sequence and its end, `Restart` the service.

Abstractions: a cooldown is a tick that does nothing (`TickLate`); the weight
shift is part of the balance script, whose failure it can only share; a probe that
finds Sport not ready is `Refused`; the temperature changes between ticks, the only
time it is looked at; the settings stay as they are; the state of charge is a
choice; the first two writes of a manual recovery are one step; the runtime file is
written in one step, though `write_text` is not atomic.

`owed` says when the watchdog owes the robot a stand. It is given up where the
code gives it up: a stand or another thread's crouch was carried out, a script failed
after it moved the robot, the service restarted before the crouch was recorded,
or a tick under the battery lock gave the balance up. Two things the
code does are in the model and are no property: a stand that passed its gate and
waits behind the battery's crouch makes the robot stand under the lock, and a
manual stand, or a recovery that failed after its stand, leaves `thermal_mode` at
crouch while the robot stands, so that it is not laid down when it gets hot
(`HotLiesDown` excepts that mode).

### RobotController

| variable | in the code |
|---|---|
| `handler`, `state`, `jpos` | `LowStateMessageHandler`: the message is copied without a lock, then given to `robot_interface` |
| `main` | `StartControl`: wait for START, start the control thread, sleep, start the writer |
| `control` | where the control thread is in `ControlStep` |
| `writer`, `wire` | `LowCmdwriteHandler`, and the last command it published |
| `gamepad` | buttons pressed, and pressed since the last update |
| `fsm`, `start_pos`, `sitting_count`, `standing_count` | the state machine and its interpolations |
| `robot_interface`, `cmd`, `cmd_mutex` | the target asked for; the shared command and its lock |
| `controller`, `obs`, `history`, `actions` | the policy, the frames it reads, its last output |

One action lies between two looks at what another thread writes. `StateCopied`
and `SetState` are the handler, `WaitForStart`, `StartControlThread` and
`StartSendCmd` the main thread. `InteprateGamePad`, `UpdateStateMachine`
with the callbacks, `GetInput`, one of `Sitting`, `Standing`, `Damping`,
`UserControlStep`, then `SetTargets` and `SetGains` (`set_cmd` in two halves) are
`ControlStep`; `WriteBegins` and `WriteEnds` the writer. A joint vector is a
model value, `Unset` before anything was measured; a target is a line and how far
along it; a checksum is what it was computed from. A frame of the history has two
parts, what was measured and the policy's last actions, and each is zero, of this run
of the policy, or older. `ctrl->reset` clears the frames and leaves `actions`, so the
first frame of a run holds the last output of the run before.

Left out: gait, heights and periods the buttons choose, the sticks, the network's
arithmetic, the log, the `simple_rl` controller, and what happens before the
threads start (service switch, parameters).

### Reorder, Reliability and ReliableChannel

One reliable volatile writer, one matched reader in another process, and a network
that loses, duplicates and reorders.

| variable | in the code |
|---|---|
| `seq`, `seq_xmit`, `whc` | the writer's last number, the last one sent, its history cache |
| `rn_seq`, `has_replied_to_hb`, `retransmitting` | what the writer knows of the reader |
| `app`, `packet` | the writing thread: idle, throttled, or packing; what it has packed |
| `primary`, `secondary` | the proxy writer's reorder buffer, the reader's own |
| `in_sync`, `end_of_tl_seq` | `PRMSS_OUT_OF_SYNC`, `TLCATCHUP`, `SYNC` |
| `gap` | what is left of a GAP being handled |
| `ack_requested`, `acknack_xevent` | what the AckNack event goes by |
| `delivered`, `disordered` | history: what the application got, and what it got out of order |
| `down`, `up` | messages in flight |

A buffer (`Reorder`) is its next number, the numbers its intervals cover, and its
elements; the tree and the chains of `q_radmin.c` are left out, what is kept and
dropped when it is full is not. `Write`, `Throttle`, `Resume`, `Timeout` and
`Send` are `write_sample_eot` with the packet that is sent without the
writer's lock; `SendHeartbeat` and `HandleAckNack` the writer's event and receive
threads; `HandleHeartbeat`, `HandleData`, `HandleGap` with `HandleOneGap`,
and the four ways an AckNack event ends are the reader's. Time is left out: a delay
that may have passed is a choice, and a heartbeat is final or not when it is
handled. Left out: fragments, best-effort and transient-local readers, several
readers, limits on retransmission, the adaptive high-water mark, merging of
messages, non-responsive readers, and the delivery queue.

`ReliableChannel` has three variables and three actions: samples are written,
delivered once and in order, and released when delivered. `Reliability` is shown
to implement it with `sent`, `received` and `released` the samples written,
delivered and acknowledged since the reader was matched.

## 3. Runs

| run | bounds | shows |
|---|---|---|
| `HoldSafety` | 2 handlers, couple-and-hold, pose and release batches, 1 timeout, 2 stops | `TypeOK`, `OneInFlight`, `SavedOrPending`, `CoupledPoseComing`, `ImplementsRegister` |
| `HoldFaults` | 1 handler, batches that put a pose before the couple, 2 failures, 1 stop, fair | `HoldActiveMeansTold`, `ImplementsRegister`, `CallsReturn`, `HeldPoseReachesArm` |
| `HoldRace` | 2 handlers | `CoupleWithoutPoseRejected` fails |
| `MotionJog` | 2 threads, jog sessions, TCP, move, maintain, hold, 1 failure; 883,992 states | `TypeOK`, `Exclusive`, `PreemptStopsMovers` |
| `MotionPrograms` | 2 threads, programs, moves, zero, couple, hold, release, reset or page handoff, 1 failure, 1 lock; 1,036,378 states | the last two, `PreemptHasOwner`, `HoldLeavesCoupled` |
| `MotionStop` | 2 threads, programs, moves, holds, 1 failure, fair; 86,962 states | `StopEndsPrograms` |
| `MotionTcp` | 2 threads | `HoldStopsMotion` fails |
| `Thermal` | both watchdogs, 1 request thread with four operations, 3 temperatures, 1 failure or restart, fair; 207,182 states | `TypeOK`, `Remembered`, `GetsUpAgain`, `HotLiesDown`, `LockSettles` |
| `Deploy` | 1 pose, 4 messages of chords, both policies, interpolation and history of length 1, fair; 512,234 states | `TypeOK`, `PublishedWhole`, `StiffFromMeasured`, `StopWins`, `HistoryOfThisRun`, `TargetsFollow`, `StopTakesEffect` |
| `DdsKeepAll` | 3 samples, high-water mark and buffers of 1, 2 messages in flight each way; 408,852 states | `TypeOK`, `AckedWasDelivered`, `InOrder`, `Recoverable`, `ImplementsChannel` |
| `DdsLive` | 3 samples, a cache of 1 unacknowledged sample, 1 message each way, duplicates, fair; 2,888 states | `EverythingArrives`, `ThrottledGoesOn`, `ImplementsChannel` |
| `DdsKeepLast` | 4 samples, history depth 1 | `AckedWasDelivered` fails |

Why the bounds are enough for what is asked.

* Interference in the daemon is between a batch in progress, a batch or release of
  another client, and what a client that gave up has left behind: two handlers and
  one timeout. Two stops let a restarted daemon be stopped before and after its
  first save. Two failures let a publisher die during the restore after it died
  before.
* In `ArmMotion` a conflict is between one mover and one that preempts or contends
  with it, and the jog thread is a third actor; a thread that ends serves again,
  without limit, so longer sequences of requests are in the state space. A
  program's abort preempts on its own, so two threads give overlapping
  preemptions. One failure per run leaves out failures that coincide.
* In `ThermalProtect` three threads (watchdog, battery, request) can be in any of
  their scripts at the same time. The temperatures are one for each answer of the
  thresholds.
* In `RobotController` no thread is multiplied, and none is bounded: the handler
  and the gamepad go on for ever. With one measured pose `Unset` is still told
  apart; with the four messages each chord is seen alone (a button that is held
  already is no press), several at once, and the stop with another. A
  longer interpolation or history repeats the same step; the theorems have neither
  bound.
* In `Reliability` one sample may be missing at the reader while another waits in
  its buffer, and the writer is throttled with the third: with `Start` 1 the
  reader is matched late. `DdsLive` gives up the second message in flight for
  duplicates and fairness.

The theorems of section 4 have none of these bounds.

Deadlock is checked except in `HoldFaults` (a failed save ends the writer thread,
the publisher may die with nothing left to send, and with the bounds used up the
daemon may rest there) and in the runs of `Reliability`, which rest when all
samples are written and acknowledged.

Three runs end in a counterexample, each the code against a statement of the
repository; `findings` in `PROJECT.json` quotes both sides:

* `HoldRace`: a couple without a pose may be applied, for the check and the
  write are two steps.
* `MotionTcp`: a short hold does not stop a TCP move.
* `DdsKeepLast`: with KEEP_LAST, a reader that is catching up may acknowledge the
  latest sample of an instance without delivering it, for a gap or a heartbeat
  does not reach its own buffer, and what the other buffer then releases goes to
  readers in sync only.

Fairness.

* `HoldDaemon`: the writer and the handlers run, the grace ends, a stopping
  process exits and the supervisor starts it again (`while true` in
  `nx_d1_hold_supervise.sh`); clients, failures and stops owe nothing.
* `ArmMotion`: the jog thread and each thread that serves a request go on (every
  wait in them has a time-out); requests and the battery owe nothing. Weak
  fairness suffices: a step of a thread, once possible, stays so.
* `ThermalProtect`: each thread goes on, and gets the sport lock if it is free
  again and again (strong: each script has a time-out, and few threads wait); the watchdog polls, and its cooldowns elapse
  (strong on `Tick`). Requests, the weather, failures and restarts owe nothing.
* `RobotController`: the two periodic threads run, and each gets `cmd_mutex` if it
  is free again and again: both hold it for a fraction of their period and sleep.
  Nothing is assumed of the robot, the user, the handler or the main thread.
* `Reliability`: threads run, and of heartbeats that ask for an answer, AckNacks
  and retransmissions sent again and again some arrive. Nothing is assumed of the
  first transmission of a sample, nor of gaps.

## 4. Proofs

`HoldDaemonProofs`, for all handlers, poses, batches and bounds:

* `TypeCorrect`: `Spec => []TypeOK`.
* `InFlight`: `Spec => []OneInFlight`. The invariant is inductive with the types:
  a message is queued by a call that is then waiting, and taken from the head.
* `HoldActiveMeansTold`, three ways. `HoldActive`: without failures the daemon's
  memory and the arm change together, and a respawn restores all of it.
  `HoldActivePosed`: with any failures, as long as each couple is written on a retained
  pose (`CoupleOnPose`, a condition on the steps). `HoldActiveAlone`: so it is, whatever
  fails, times out or is restarted, for one client whose batches put a pose before the
  couple (`CouplesPosed`), as `couple_and_hold_pose` does; `HoldFaults` is such a run.
  For two clients with failures the property is false: a release of the other one may
  remove the pose before the couple is written, the publisher may die with that couple
  unread, and a respawn without a pose does not repeat it.
* `Saved`: `SavedOrPending`, inductive with the calls' invariant.
* `PoseComing`: `CoupledPoseComing`, from the assumption, named in the theorem,
  that every batch that couples ends with a pose. `HoldRace` shows why it is needed.
* `Refinement`: `Spec => ImplementsRegister`: each step is one of the register's, or
  changes nothing the register shows. It rests on the calls' invariant.

`ArmMotionProofs`, for all threads and sets of requests:

* `TypeCorrect`: `TypeOK`, with `Stages`: which request and kind go with which
  program counter. It is needed since kinds are computed from the request.
* `PreemptOwned`: `PreemptHasOwner`, inductive with the types: a source is
  overwritten only by a handler that begins, and ended only by its own.
* `OneMover`: `Exclusive`, by `Guarded`: the kind of a mover that is not overrun is
  the guard's, and no other such mover holds any. `Exclusive` alone is not
  inductive, for it does not say that the guard knows what is held. It speaks of
  every state, those after a reset or a preemption included: who acquires then is
  protected again, whatever the overrun movers still do.
* `MoversStop`: `PreemptStopsMovers`, by `Spent`: what a request has sent since the
  preemption began and what it may still send before it next looks at the flag
  (`Ahead`, by where it is) are together no more than it can send between two looks
  (`Unlooked`): one batch; two for `go_zero`, whose hold follows its funcode 7, and
  for a move, which sends its pose on arrival and again when it returns; three for
  a program, which sends it once more at its end. Each send takes one from what is
  ahead, and nobody who looks at the flag goes on. The jog thread has its retry.
  `MotionJog` and `MotionPrograms` reach each of these bounds.
* `HeldIsCoupled`: `HoldLeavesCoupled`, by `HeldCoupled`, which begins when an
  abort has asked for the coupling: only a release uncouples, and it notes the
  holds it overtakes. It rests on `Spent` for the range of the counters.

`ThermalProtectProofs`, for all requests, temperatures, thresholds and numbers of
failures:

* `TypeCorrect`: `TypeOK`: one script runs at a time, a job under way has a script.
* `RecoveryRemembered`: `Remembered`. Only the watchdog writes "normal", so the
  strengthening `Watching` says of each of its jobs what it may write of a robot it
  laid down: no tick under way has read "normal", no return has succeeded, and a
  mode that is "normal" is about to be overwritten.

`RobotControllerProofs`, for any poses, chords, interpolation and history lengths
(`Invariance` is the conjunction `IInv`):

* `TypeCorrect`, `WholeCommands` (`PublishedWhole`, by who holds `cmd_mutex`),
  `MeasuredStart` (`StiffFromMeasured`, by `FirstMessage`: before the first
  `SetState` the controller has seen one message and no edge in it),
  `StopHasPriority` (`StopWins`, by `Coherent`: the gains are those of the state, and
  nothing is commanded before the control thread starts), `FreshHistory`
  (`HistoryOfThisRun`, by `FreshStart`: while the last actions are of an earlier run,
  this run has no frame yet), `SmoothTargets` (`TargetsFollow`, by `Counting`: the command
  lies one step behind the counter of its interpolation).

`AnySettingsProofs`, for any history depth, buffers of any size, any high-water
mark, any losses, duplicates and messages in flight, without a hypothesis. It rests
on `ReorderProofs`, lemmas on what a buffer does with a sample and with a gap:

* `TypeCorrect`: `TypeOK`. Types alone are not inductive, for a buffer's next number
  is computed from its elements; `SoundInv` says besides that a buffer fits its
  bound and is well kept.
* `BuffersStaySound`: `BuffersSound`: in both buffers what could be delivered has
  been, each interval has an element, and there are at most `max_samples` of them.
* `StillThere`: `Recoverable`: what the reader has not acknowledged is in the writer's
  cache, or was overwritten as KEEP_LAST allows, also when buffers overflow.

`ReliabilityProofs`, for any number of samples, losses, duplicates and
messages in flight, under the hypothesis `KeepAll` of each theorem (KEEP_ALL, and
buffers that hold the high-water mark):

* `Invariance`: the inductive invariant in three parts. The writer's cache is what
  is not acknowledged, at most one more than the high-water mark. No message in
  flight says anything false: heartbeats and gaps pass over acknowledged samples
  only, an AckNack acknowledges what was delivered. The reader has delivered
  everything before its next number, and the secondary buffer holds what the primary
  one holds. So no buffer ever overflows, and a reader may go over from one to the
  other.
* `AcknowledgedDelivered` (`AckedWasDelivered`), `OnceInOrder` (`InOrder`).
* `Refinement`: `Spec => ImplementsChannel`: each step writes, delivers or releases
  as the channel does, or changes none of the three.

The hypothesis is needed for these three, and each half of it.

* KEEP_LAST: a gap does not reach the secondary buffer. `DdsKeepLast` shows an
  acknowledged sample that was not delivered; with buffers of four samples the two also
  come to count differently what they hold, the secondary one runs ahead of the primary
  one, and a sample is delivered twice.
* KEEP_ALL with buffers smaller than what may be unacknowledged: of five samples and
  buffers of two, the first heartbeat tells of 2, so the primary buffer begins at 3 and
  the secondary one at 1. Both keep 4 and 5; when 2 comes the secondary one drops 5
  for it. 1 and then 3 arrive: the primary one releases up to 5, the secondary one up
  to 4, the reader is in sync, and 5 is acknowledged and dropped from the cache without
  being delivered. TLC finds it in `DdsKeepLast` with `Depth` 0, `MaxSamples` 2,
  `MaxSeq`, `WhcHigh` and `WhcLow` 5 and one message in flight each way.

Only model-checked: the liveness properties (reasoning about fairness is out of
the prover's reach): `CallsReturn`, `HeldPoseReachesArm`, `StopEndsPrograms`,
`GetsUpAgain`, `HotLiesDown`, `LockSettles`, `StopTakesEffect`,
`EverythingArrives`, `ThrottledGoesOn`. Every invariant, action property and refinement
that a passing run checks is a theorem.

## 5. Not modelled, and the plan

Not modelled because a model checker says nothing about it: vision and grasping,
kinematics, speech, rendering, the policy network. Not modelled because it has no
protocol of its own: the sport lane, the operator pages, the program store. Not
modelled because the configuration does not use it: the in-process command daemon
and the one-shot binary, which `publish_messages_stream` bypasses when the hold
daemon is external. Third-party code but for reliable delivery: serialisation, IDL,
discovery, security, bindings, the simulator.

What could come next, in order:

1. `HoldClient`: the client's time-out against the daemon's, retries and late
   batches, composed with `HoldDaemon`.
2. The battery protector's arm sequence composed with `ArmMotion` and
   `ThermalProtect`: levels, the stop and the fold, the late lock.
3. An abstract specification of the guard (one owner at a time, who may be overrun)
   and `ArmMotion` as its refinement.
4. Transient-local readers and several readers in `Reliability`.
