--------------------------- MODULE RobotController ---------------------------
(***************************************************************************)
(* The low-level deployment controller of go2_deploy: four threads around  *)
(* one RobotController object.                                             *)
(*   - the low-state handler copies a message into `state` with no lock,   *)
(*     then hands it to robot_interface under state_mutex;                 *)
(*   - the main thread waits for START on the gamepad, starts the control  *)
(*     thread, and 100 ms later the writer;                                *)
(*   - the control thread (ControlStep, 50 Hz) reads the gamepad, moves the *)
(*     state machine, reads the measurements, computes a target and copies *)
(*     it into `cmd` under cmd_mutex;                                      *)
(*   - the writer (LowCmdwriteHandler, 500 Hz) publishes `cmd` under       *)
(*     cmd_mutex.                                                          *)
(*                                                                         *)
(* A joint vector is a member of Poses, Unset before anything was measured *)
(* (robot_interface.jpos is not initialised).  A target says where it is   *)
(* interpolated from and to and how far.  The button word of the gamepad   *)
(* lies in one aligned word of the message and is read whole; the sticks,  *)
(* which may be torn, are left out, and so are the gait choice, the height,*)
(* clearance and pitch the buttons select.                                 *)
(***************************************************************************)
EXTENDS Naturals, FiniteSets

CONSTANTS
  Poses,            \* the joint vectors the robot may report
  Unset,            \* an uninitialised joint vector
  Buttons,          \* the buttons a message may report as held
  Controllers,      \* the policies argv[1] may name, of {"wtw", "ts"}
  Duration,         \* standing_duration, sitting_duration (100 steps)
  FrameStack        \* frame_stack: frames of history the policy reads

ASSUME DurationAssumption == Duration \in Nat \ {0}
ASSUME FrameStackAssumption == FrameStack \in Nat \ {0}
ASSUME PoseAssumption == Unset \notin Poses
ASSUME ControllerAssumption == Controllers \subseteq {"wtw", "ts"}

VARIABLES
  state,            \* the last LowState_ copied: buttons held, joint vector
  jpos,             \* robot_interface.jpos
  handler,          \* the handler: "idle", or "copied" (before SetState)
  main,             \* the main thread: "waiting", "starting", "sleeping", "done"
  control,          \* the control thread: where it is in ControlStep
  writer,           \* the writer thread: "off", "idle", "sending"
  gamepad,          \* the buttons pressed, and pressed since the last update
  fsm,              \* state_machine.state
  sitting_count, standing_count,
  start_pos,        \* ctrl->start_pos, saved by save_jpos
  robot_interface,  \* what robot_interface asks for: a target and its gains
  controller,       \* the policy in use
  obs, history,     \* single_step_obs and history_obs: when each frame is from
  actions,          \* the policy's last output: of which run it is
  cmd,              \* the LowCmd_ the two threads share
  cmd_mutex,        \* its holder
  wire              \* the last command published

threads == <<handler, main, control, writer>>
policy == <<controller, obs, history, actions>>
machine == <<fsm, sitting_count, standing_count, start_pos>>
vars == <<state, jpos, threads, gamepad, machine, robot_interface, policy,
          cmd, cmd_mutex, wire>>

-----------------------------------------------------------------------------
(* Targets, commands, frames.                                              *)

\* (1 - at/Duration) * from + at/Duration * to
Mix(from, to, at) == [from |-> from, to |-> to, at |-> at]
Zero == Mix(Unset, "zero", 0)
PosStop == Mix(Unset, "stop", 0)
Policy == Mix(Unset, "policy", 0)
StandPos == Mix(Unset, "stand", Duration)

Targets == [from: Poses \cup {Unset}, to: {"zero", "stop", "sit", "stand", "policy"},
            at: 0 .. Duration]
Gains == {"none", "damping", "stand", "ctrl"}

\* crc32_core over the words of the command: what it was computed from
Crc(q, gain) == <<q, gain>>
NoCrc == <<>>
InitCmd == [q |-> PosStop, gain |-> "none", crc |-> NoCrc]
Nothing == [q |-> PosStop, gain |-> "none", crc |-> <<"nothing">>]

\* What is measured and what the policy put out last, the two parts of a frame,
\* are each zero, of this run of the policy, or of an earlier one.
Runs == {"zero", "now", "old"}
Frames == [seen: Runs, acts: Runs]
ZeroFrame == [seen |-> "zero", acts |-> "zero"]
Push(h, f) == [i \in 1 .. FrameStack |-> IF i = FrameStack THEN f ELSE h[i + 1]]
ZeroHistory == [i \in 1 .. FrameStack |-> ZeroFrame]
Older(r) == IF r = "now" THEN "old" ELSE r

-----------------------------------------------------------------------------
(* The gamepad and the state machine.                                      *)

\* Mutant of GamepadUpdate: a button held counts as pressed anew.
GamepadUpdateLevel(held) == [pressed |-> held, on_press |-> held]

\* Button::update of every button: on_press is an edge, pressed a level.
GamepadUpdate(held) == [pressed |-> held, on_press |-> held \ gamepad.pressed]

Chord(button) == button \in gamepad.on_press /\ "L1" \in gamepad.pressed

Sit(s) == IF s = "DAMPING" THEN "SIT" ELSE s
Stand(s) == IF s = "SIT" THEN "STAND" ELSE s
Ctrl(s) == IF s = "STAND" THEN "CTRL" ELSE s
Stops == {"Y", "L1"} \subseteq gamepad.pressed

\* The states UpdateStateMachine passes through, in its order.
AfterSit == IF Chord("R1") THEN Sit(fsm) ELSE fsm
AfterStand == IF Chord("R2") THEN Stand(AfterSit) ELSE AfterSit
AfterCtrl == IF Chord("A") THEN Ctrl(AfterStand) ELSE AfterStand
\* Mutant of AfterStop: Y is looked at before R1, R2 and A.
AfterStopFirst ==
  LET s0 == IF Stops THEN "DAMPING" ELSE fsm
      s1 == IF Chord("R1") THEN Sit(s0) ELSE s0
      s2 == IF Chord("R2") THEN Stand(s1) ELSE s1
  IN IF Chord("A") THEN Ctrl(s2) ELSE s2

AfterStop == IF Stops THEN "DAMPING" ELSE AfterCtrl

Sits == AfterSit # fsm
Stands == AfterStand # AfterSit
Ctrls == AfterCtrl # AfterStand

-----------------------------------------------------------------------------
Init ==
  /\ state = [btn |-> {}, pose |-> Unset]
  /\ jpos = Unset
  /\ handler = "idle" /\ main = "waiting" /\ control = "off" /\ writer = "off"
  /\ gamepad = [pressed |-> {}, on_press |-> {}]
  /\ fsm = "DAMPING" /\ sitting_count = 0 /\ standing_count = 0
  /\ start_pos = Unset
  /\ robot_interface = [q |-> Zero, gain |-> "none"]
  /\ controller \in Controllers
  /\ obs = ZeroFrame /\ history = ZeroHistory /\ actions = "zero"
  /\ cmd = InitCmd /\ cmd_mutex = "free"
  /\ wire = Nothing

(* The low-state handler.  A message reports any buttons and any pose.     *)
StateCopied ==
  /\ handler = "idle"
  /\ \E btn \in Buttons, pose \in Poses : state' = [btn |-> btn, pose |-> pose]
  /\ handler' = "copied"
  /\ UNCHANGED <<jpos, main, control, writer, gamepad, machine, robot_interface,
                 policy, cmd, cmd_mutex, wire>>

SetState ==
  /\ handler = "copied"
  /\ jpos' = state.pose
  /\ handler' = "idle"
  /\ UNCHANGED <<state, main, control, writer, gamepad, machine, robot_interface,
                 policy, cmd, cmd_mutex, wire>>

(* The main thread: StartControl.                                          *)
WaitForStart ==
  /\ main = "waiting"
  /\ gamepad' = GamepadUpdate(state.btn)
  /\ main' = IF "start" \in gamepad'.on_press THEN "starting" ELSE "waiting"
  /\ UNCHANGED <<state, jpos, handler, control, writer, machine, robot_interface,
                 policy, cmd, cmd_mutex, wire>>

StartControlThread ==
  /\ main = "starting"
  /\ robot_interface' = [q |-> Zero, gain |-> "damping"]
  /\ control' = "gamepad"
  /\ main' = "sleeping"
  /\ UNCHANGED <<state, jpos, handler, writer, gamepad, machine, policy, cmd,
                 cmd_mutex, wire>>

StartSendCmd ==
  /\ main = "sleeping"
  /\ writer' = "idle"
  /\ main' = "done"
  /\ UNCHANGED <<state, jpos, handler, control, gamepad, machine, robot_interface,
                 policy, cmd, cmd_mutex, wire>>

-----------------------------------------------------------------------------
(* The control thread: ControlStep, one action between two looks at what   *)
(* another thread writes.                                                  *)

InteprateGamePad ==
  /\ control = "gamepad"
  /\ gamepad' = GamepadUpdate(state.btn)
  /\ control' = "machine"
  /\ UNCHANGED <<state, jpos, handler, main, writer, machine, robot_interface,
                 policy, cmd, cmd_mutex, wire>>

\* SitCallback, StandCallback: the interpolation starts where the joints are.
StartPos == IF Sits \/ Stands THEN jpos ELSE start_pos

\* What the callbacks of this step leave in robot_interface.
Called == CASE Ctrls -> [q |-> StandPos, gain |-> "ctrl"]
            [] ~Ctrls /\ Stands -> [q |-> Mix(StartPos, "stand", 0), gain |-> "stand"]
            [] ~Ctrls /\ ~Stands /\ Sits -> [q |-> Mix(StartPos, "sit", 0), gain |-> "stand"]
            [] OTHER -> robot_interface

\* Mutant of SittingCount: Sit goes on where the last interpolation ended.
SittingCountKept == sitting_count

\* Sit and Stand restart the interpolation.
SittingCount == IF Sits THEN 0 ELSE sitting_count
StandingCount == IF Stands THEN 0 ELSE standing_count

\* Mutant of ResetHistory: reset clears single_step_obs only.
ResetHistoryKept == history

\* ctrl->reset: CtrlCallback forgets the frames of the last run of the policy, but
\* not its last actions.  What stays when the policy is left (Stop) is of an
\* earlier run.
ResetObs == IF Ctrls THEN ZeroFrame ELSE obs
ResetHistory == IF Ctrls THEN ZeroHistory ELSE history
Left(r) == IF AfterStop = "CTRL" THEN r ELSE Older(r)
LeftFrame(f) == [seen |-> Left(f.seen), acts |-> Left(f.acts)]

UpdateStateMachine ==
  /\ control = "machine"
  /\ fsm' = AfterStop
  /\ start_pos' = StartPos
  /\ sitting_count' = SittingCount
  /\ standing_count' = StandingCount
  /\ robot_interface' = Called
  /\ obs' = LeftFrame(ResetObs)
  /\ history' = [i \in 1 .. FrameStack |-> LeftFrame(ResetHistory[i])]
  /\ actions' = Left(actions)
  /\ control' = "input"
  /\ UNCHANGED <<state, jpos, handler, main, writer, gamepad, controller, cmd,
                 cmd_mutex, wire>>

GetInput ==
  /\ control = "input"
  /\ control' = "compute"
  /\ UNCHANGED <<state, jpos, handler, main, writer, gamepad, machine,
                 robot_interface, policy, cmd, cmd_mutex, wire>>

\* Mutant of Count: the counter is not clamped.
CountOn(n) == n + 1

\* The counter runs to Duration and stays there.
Count(n) == IF n + 1 > Duration THEN Duration ELSE n + 1

Sitting ==
  /\ control = "compute" /\ fsm = "SIT"
  /\ robot_interface' = [robot_interface EXCEPT !.q = Mix(start_pos, "sit", sitting_count)]
  /\ sitting_count' = Count(sitting_count)
  /\ control' = "set"
  /\ UNCHANGED <<state, jpos, handler, main, writer, gamepad, fsm, standing_count,
                 start_pos, policy, cmd, cmd_mutex, wire>>

\* DummyCalculate warms the network up with a frame of zeros; what the network
\* puts out is dropped.
Standing ==
  /\ control = "compute" /\ fsm = "STAND"
  /\ obs' = ZeroFrame /\ history' = Push(history, ZeroFrame)
  /\ robot_interface' = [robot_interface EXCEPT !.q = Mix(start_pos, "stand", standing_count)]
  /\ standing_count' = Count(standing_count)
  /\ control' = "set"
  /\ UNCHANGED <<state, jpos, handler, main, writer, gamepad, fsm, sitting_count,
                 start_pos, controller, actions, cmd, cmd_mutex, wire>>

Damping ==
  /\ control = "compute" /\ fsm = "DAMPING"
  /\ robot_interface' = [q |-> Zero, gain |-> "damping"]
  /\ control' = "set"
  /\ UNCHANGED <<state, jpos, handler, main, writer, gamepad, machine, policy, cmd,
                 cmd_mutex, wire>>

\* Calculate: a frame is what was measured and the actions before this step's;
\* wtw puts this frame into the history, ts the one before it.
Frame == [seen |-> "now", acts |-> actions]
UserControlStep ==
  /\ control = "compute" /\ fsm = "CTRL"
  /\ obs' = Frame
  /\ history' = Push(history, IF controller = "wtw" THEN Frame ELSE obs)
  /\ actions' = "now"
  /\ robot_interface' = [robot_interface EXCEPT !.q = Policy]
  /\ control' = "set"
  /\ UNCHANGED <<state, jpos, handler, main, writer, gamepad, machine, controller,
                 cmd, cmd_mutex, wire>>

\* Mutant of SetTargets: cmd is written without waiting for the writer.
SetTargetsUnlocked ==
  /\ control = "set"
  /\ cmd_mutex' = "control"
  /\ cmd' = [cmd EXCEPT !.q = robot_interface.q]
  /\ control' = "gains"
  /\ UNCHANGED <<state, jpos, handler, main, writer, gamepad, machine,
                 robot_interface, policy, wire>>

\* set_cmd, under cmd_mutex: the targets, then the gains, then the checksum.
SetTargets ==
  /\ control = "set"
  /\ cmd_mutex = "free"
  /\ cmd_mutex' = "control"
  /\ cmd' = [cmd EXCEPT !.q = robot_interface.q]
  /\ control' = "gains"
  /\ UNCHANGED <<state, jpos, handler, main, writer, gamepad, machine,
                 robot_interface, policy, wire>>

SetGains ==
  /\ control = "gains"
  /\ cmd' = [cmd EXCEPT !.gain = robot_interface.gain,
                        !.crc = Crc(cmd.q, robot_interface.gain)]
  /\ cmd_mutex' = "free"
  /\ control' = "gamepad"
  /\ UNCHANGED <<state, jpos, handler, main, writer, gamepad, machine,
                 robot_interface, policy, wire>>

-----------------------------------------------------------------------------
(* The writer: LowCmdwriteHandler publishes the command under cmd_mutex.   *)

WriteBegins ==
  /\ writer = "idle"
  /\ cmd_mutex = "free"
  /\ cmd_mutex' = "writer"
  /\ wire' = [wire EXCEPT !.q = cmd.q]
  /\ writer' = "sending"
  /\ UNCHANGED <<state, jpos, handler, main, control, gamepad, machine,
                 robot_interface, policy, cmd>>

\* Mutant of WriteEnds: the writer keeps cmd_mutex.
WriteEndsLocked ==
  /\ writer = "sending"
  /\ wire' = [q |-> wire.q, gain |-> cmd.gain, crc |-> cmd.crc]
  /\ writer' = "idle"
  /\ UNCHANGED <<state, jpos, handler, main, control, gamepad, machine,
                 robot_interface, policy, cmd, cmd_mutex>>

WriteEnds ==
  /\ writer = "sending"
  /\ wire' = [q |-> wire.q, gain |-> cmd.gain, crc |-> cmd.crc]
  /\ cmd_mutex' = "free"
  /\ writer' = "idle"
  /\ UNCHANGED <<state, jpos, handler, main, control, gamepad, machine,
                 robot_interface, policy, cmd>>

-----------------------------------------------------------------------------
LowStateMessageHandler == StateCopied \/ SetState
StartControl == WaitForStart \/ StartControlThread \/ StartSendCmd
ControlStep == \/ InteprateGamePad \/ UpdateStateMachine \/ GetInput
               \/ Sitting \/ Standing \/ Damping \/ UserControlStep
               \/ SetTargets \/ SetGains
LowCmdwriteHandler == WriteBegins \/ WriteEnds

Next == LowStateMessageHandler \/ StartControl \/ ControlStep \/ LowCmdwriteHandler

Spec == Init /\ [][Next]_vars

\* The two periodic threads, once started, keep running, and each gets cmd_mutex
\* if it is free again and again (both sleep between two rounds and hold it for a
\* fraction of their period).  Nothing is assumed of the robot or of the user.
Fairness == SF_vars(ControlStep) /\ SF_vars(LowCmdwriteHandler)

FairSpec == Spec /\ Fairness

-----------------------------------------------------------------------------
TypeOK ==
  /\ state \in [btn: Buttons \cup {{}}, pose: Poses \cup {Unset}]
  /\ jpos \in Poses \cup {Unset}
  /\ handler \in {"idle", "copied"}
  /\ main \in {"waiting", "starting", "sleeping", "done"}
  /\ control \in {"off", "gamepad", "machine", "input", "compute", "set", "gains"}
  /\ writer \in {"off", "idle", "sending"}
  /\ gamepad \in [pressed: Buttons \cup {{}}, on_press: SUBSET UNION Buttons]
  /\ fsm \in {"DAMPING", "SIT", "STAND", "CTRL"}
  /\ sitting_count \in 0 .. Duration /\ standing_count \in 0 .. Duration
  /\ start_pos \in Poses \cup {Unset}
  /\ robot_interface \in [q: Targets, gain: Gains]
  /\ controller \in Controllers
  /\ obs \in Frames /\ history \in [1 .. FrameStack -> Frames] /\ actions \in Runs
  /\ cmd \in [q: Targets, gain: Gains, crc: {NoCrc} \cup (Targets \X Gains)]
  /\ cmd_mutex \in {"free", "control", "writer"}
  /\ wire \in [q: Targets, gain: Gains, crc: {NoCrc, <<"nothing">>} \cup (Targets \X Gains)]

\* What the writer has published, once it has let go of the command.
Published == writer = "idle"

\* A published command is one the control thread completed: its targets, gains
\* and checksum are of one ControlStep, or it is the one init_low_cmd made.
\* (The writer runs ten times as often as set_cmd, which writes 60 fields.)
PublishedWhole ==
  Published => \/ wire = Nothing \/ wire = InitCmd
               \/ wire.crc = Crc(wire.q, wire.gain)

\* The joints are never held stiff at a pose nobody measured: start_pos and jpos
\* are not initialised, and no line of the controller asks whether a message
\* has come.  It is the edge detection that saves it: START and the chord that
\* leaves damping must be seen in two messages, and the handler has finished
\* with the first when it takes the second.
StiffFromMeasured ==
  Published /\ wire.gain = "stand" => /\ wire.q.from # Unset
                                      /\ wire.q.to \in {"sit", "stand"}

\* L1+Y wins over every other chord of the same frame: whatever R1, R2 and A ask
\* for, the step that saw it ends in damping, and with damping in the command the
\* writer publishes until the next frame is looked at.
StopWins ==
  {"L1", "Y"} \subseteq gamepad.pressed /\ control \notin {"off", "machine"} =>
    /\ fsm = "DAMPING"
    /\ control \in {"set", "gains"} => robot_interface.gain = "damping"
    /\ control = "gamepad" => cmd.gain \in {"none", "damping"}

\* What the policy sees is of this run or zero, however few steps were spent
\* standing since the run before a stop (one frame may press R1, R2 and A together
\* and spend none), with one exception: the first frame of a run holds the last
\* actions of the run before.  No later frame does, and nothing measured.
OfThisRun(f) == f.seen # "old" /\ f.acts # "old"
FirstOfRun(f) == f.seen = "now" /\ f.acts = "old"
HistoryOfThisRun ==
  fsm = "CTRL" =>
    /\ \A i \in 1 .. FrameStack :
          \/ OfThisRun(history[i])
          \/ FirstOfRun(history[i]) /\ \A j \in 1 .. i - 1 : history[j] = ZeroFrame
    /\ \/ OfThisRun(obs)
       \/ /\ FirstOfRun(obs)
          /\ \A j \in 1 .. FrameStack :
                history[j] = ZeroFrame \/ (controller = "wtw" /\ j = FrameStack)

\* A stiff target does not jump: it is the measured pose when an interpolation
\* begins, and otherwise one step further along the same line.
Follows(old, new) ==
  \/ new.to \notin {"sit", "stand"}
  \/ new.at = 0
  \/ new.to = old.to /\ new.from = old.from /\ new.at \in {old.at, old.at + 1}
TargetsFollow == [][Follows(cmd.q, cmd'.q)]_vars

\* A stop that is held takes effect: from some time on only damping is published,
\* whatever the four threads do in between.
StopTakesEffect ==
  <>[]({"L1", "Y"} \subseteq state.btn) => <>[](wire.gain \in {"none", "damping"})
=============================================================================
