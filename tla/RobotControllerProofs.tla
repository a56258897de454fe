----------------------- MODULE RobotControllerProofs -----------------------
(* Theorems about RobotController, for any poses, buttons, policies,       *)
(* interpolation length and history length.                                *)
EXTENDS RobotController, TLAPS

-----------------------------------------------------------------------------
(* The inductive invariant, in named parts.                                *)

\* The main thread starts the others; who holds cmd_mutex is written in the counters.
Locking ==
  /\ control = "off" <=> main \in {"waiting", "starting"}
  /\ writer = "off" <=> main # "done"
  /\ cmd_mutex = "control" <=> control = "gains"
  /\ cmd_mutex = "writer" <=> writer = "sending"
  /\ writer = "sending" => wire.q = cmd.q
  /\ writer = "off" => wire = Nothing

\* Outside set_cmd the shared command is one that was completed.
CmdWhole == control # "gains" => cmd = InitCmd \/ cmd.crc = Crc(cmd.q, cmd.gain)

\* Before the first SetState at most one message has been copied, and a controller
\* that runs has seen exactly its buttons: it sees no edge in them.
FirstMessage ==
  /\ handler = "copied" => state.pose # Unset
  /\ jpos = Unset =>
       /\ handler = "idle" => state.btn = {}
       /\ main # "waiting" => handler = "copied" /\ gamepad.pressed = state.btn
       /\ control = "machine" => gamepad.on_press = {}

\* The gains are those of the state; an interpolation has a measured start.
Coherent ==
  /\ control = "off" => fsm = "DAMPING" /\ cmd = InitCmd
  /\ fsm \in {"SIT", "STAND"} => start_pos # Unset /\ robot_interface.gain = "stand"
  /\ fsm = "CTRL" => robot_interface.gain = "ctrl"
  /\ control \in {"set", "gains"} =>
       /\ fsm = "DAMPING" => robot_interface.gain = "damping"
       /\ fsm \in {"SIT", "STAND"} => /\ robot_interface.q.from = start_pos
                                      /\ robot_interface.q.to \in {"sit", "stand"}

\* What stiff gains come with, in the command and on the wire.
Stiff(c) == c.gain = "stand" => c.q.from # Unset /\ c.q.to \in {"sit", "stand"}
StiffCmd ==
  /\ control = "gains" => cmd.q = robot_interface.q
  /\ control # "gains" => Stiff(cmd)

\* The command's target is where the counter of its interpolation says.
Track(q, to, n) == q.from = start_pos /\ q.to = to /\ n \in {q.at, q.at + 1}
Tracks(q) == /\ fsm = "SIT" => Track(q, "sit", sitting_count)
             /\ fsm = "STAND" => Track(q, "stand", standing_count)
Counting ==
  /\ control \in {"gains", "gamepad", "machine"} => Tracks(cmd.q)
  /\ control \in {"input", "compute"} =>
       /\ fsm = "SIT" => sitting_count = 0 \/ Track(cmd.q, "sit", sitting_count)
       /\ fsm = "STAND" => standing_count = 0 \/ Track(cmd.q, "stand", standing_count)
  /\ control = "set" => Tracks(robot_interface.q) /\ Follows(cmd.q, robot_interface.q)

\* A run that has not made a step yet has no frame yet, and one that has made one
\* has actions of its own.
FreshStart ==
  fsm = "CTRL" /\ actions = "old" => /\ obs = ZeroFrame
                                    /\ \A i \in 1 .. FrameStack : history[i] = ZeroFrame

IInv == /\ TypeOK /\ Locking /\ CmdWhole /\ FirstMessage /\ Coherent
        /\ StiffCmd /\ Counting /\ FreshStart
        /\ PublishedWhole /\ StiffFromMeasured /\ StopWins /\ HistoryOfThisRun
-----------------------------------------------------------------------------
(* Each part is kept by every step.                                        *)

\* The targets and frames the code makes are of their types.
LEMMA ValueTypes ==
  /\ Zero \in Targets /\ PosStop \in Targets /\ Policy \in Targets /\ StandPos \in Targets
  /\ \A p \in Poses \cup {Unset}, g \in {"sit", "stand"} : \A n \in 0 .. Duration :
       Mix(p, g, n) \in Targets
  /\ \A n \in 0 .. Duration : Count(n) \in 0 .. Duration
  /\ \A h \in [1 .. FrameStack -> Frames], f \in Frames :
       Push(h, f) \in [1 .. FrameStack -> Frames]
  /\ ZeroHistory \in [1 .. FrameStack -> Frames]
  /\ ZeroFrame \in Frames /\ Frame \in [seen: Runs, acts: {actions}]
  /\ \A f \in Frames : LeftFrame(f) \in Frames
  /\ \A r \in Runs : Left(r) \in Runs
<1>1. 0 \in 0 .. Duration /\ Duration \in 0 .. Duration
  BY DurationAssumption
<1>2. \A n \in 0 .. Duration : Count(n) \in 0 .. Duration
  BY DurationAssumption DEF Count
<1>3. ASSUME NEW h \in [1 .. FrameStack -> Frames], NEW f \in Frames
      PROVE  Push(h, f) \in [1 .. FrameStack -> Frames]
  BY FrameStackAssumption DEF Push
<1>4. ZeroFrame \in Frames /\ ZeroHistory \in [1 .. FrameStack -> Frames]
  BY DEF ZeroFrame, ZeroHistory, Frames, Runs
<1>5. Frame \in [seen: Runs, acts: {actions}]
  BY DEF Frame, Runs
<1>6. \A r \in Runs : Left(r) \in Runs
  BY DEF Left, Older, Runs
<1>7. \A f \in Frames : LeftFrame(f) \in Frames
  BY <1>6 DEF LeftFrame, Frames
<1> QED
  BY <1>1, <1>2, <1>3, <1>4, <1>5, <1>6, <1>7 DEF Zero, PosStop, Policy, StandPos, Mix, Targets

\* The state machine moves within its states, and only damping leads to sitting,
\* only sitting to standing and only standing to the policy.
LEMMA MachineStates ==
  ASSUME fsm \in {"DAMPING", "SIT", "STAND", "CTRL"}
  PROVE  /\ AfterStop \in {"DAMPING", "SIT", "STAND", "CTRL"}
         /\ AfterStop = "SIT" => fsm = "SIT" \/ Sits
         /\ AfterStop = "STAND" => fsm = "STAND" \/ Stands
         /\ AfterStop = "CTRL" => fsm = "CTRL" \/ Ctrls
         /\ AfterStop = "SIT" => ~Stands /\ ~Ctrls
         /\ AfterStop = "STAND" => ~Ctrls
         /\ fsm = "STAND" => ~Sits /\ ~Stands
         /\ fsm = "SIT" => ~Sits
         /\ fsm = "CTRL" => ~Sits /\ ~Stands /\ ~Ctrls
         /\ Stops => AfterStop = "DAMPING"
         /\ Sits \/ Stands \/ Ctrls => gamepad.on_press # {}
  BY DEF AfterStop, AfterCtrl, AfterStand, AfterSit, Sits, Stands, Ctrls, Sit, Stand,
         Ctrl, Chord

\* The mutex is taken and released with the counters.
LEMMA LockingStep == ASSUME IInv, [Next]_vars PROVE Locking'
<1> USE DEF IInv, Locking, TypeOK
<1>1. CASE StateCopied
  BY <1>1 DEF StateCopied, vars, threads, machine, policy
<1>2. CASE SetState
  BY <1>2 DEF SetState, vars, threads, machine, policy
<1>3. CASE WaitForStart
  BY <1>3 DEF WaitForStart, vars, threads, machine, policy
<1>4. CASE StartControlThread
  BY <1>4 DEF StartControlThread, vars, threads, machine, policy
<1>5. CASE StartSendCmd
  BY <1>5 DEF StartSendCmd, vars, threads, machine, policy
<1>6. CASE InteprateGamePad
  BY <1>6 DEF InteprateGamePad, vars, threads, machine, policy
<1>7. CASE UpdateStateMachine
  BY <1>7 DEF UpdateStateMachine, vars, threads, machine, policy
<1>8. CASE GetInput
  BY <1>8 DEF GetInput, vars, threads, machine, policy
<1>9. CASE Sitting
  BY <1>9 DEF Sitting, vars, threads, machine, policy
<1>10. CASE Standing
  BY <1>10 DEF Standing, vars, threads, machine, policy
<1>11. CASE Damping
  BY <1>11 DEF Damping, vars, threads, machine, policy
<1>12. CASE UserControlStep
  BY <1>12 DEF UserControlStep, vars, threads, machine, policy
<1>13. CASE SetTargets
  BY <1>13 DEF SetTargets, vars, threads, machine, policy
<1>14. CASE SetGains
  BY <1>14 DEF SetGains, vars, threads, machine, policy
<1>15. CASE WriteBegins
  BY <1>15 DEF WriteBegins, vars, threads, machine, policy
<1>16. CASE WriteEnds
  BY <1>16 DEF WriteEnds, vars, threads, machine, policy
<1>17. CASE UNCHANGED vars
  BY <1>17 DEF vars, threads, machine, policy
<1> QED
  BY <1>1, <1>2, <1>3, <1>4, <1>5, <1>6, <1>7, <1>8, <1>9, <1>10, <1>11, <1>12, <1>13, <1>14, <1>15, <1>16, <1>17
     DEF Next, LowStateMessageHandler, StartControl, ControlStep, LowCmdwriteHandler

\* set_cmd completes what it begins.
LEMMA CmdWholeStep == ASSUME IInv, [Next]_vars PROVE CmdWhole'
<1> USE DEF IInv, CmdWhole, Locking, TypeOK
<1>1. CASE StateCopied
  BY <1>1 DEF StateCopied, vars, threads, machine, policy
<1>2. CASE SetState
  BY <1>2 DEF SetState, vars, threads, machine, policy
<1>3. CASE WaitForStart
  BY <1>3 DEF WaitForStart, vars, threads, machine, policy
<1>4. CASE StartControlThread
  BY <1>4 DEF StartControlThread, vars, threads, machine, policy
<1>5. CASE StartSendCmd
  BY <1>5 DEF StartSendCmd, vars, threads, machine, policy
<1>6. CASE InteprateGamePad
  BY <1>6 DEF InteprateGamePad, vars, threads, machine, policy
<1>7. CASE UpdateStateMachine
  BY <1>7 DEF UpdateStateMachine, vars, threads, machine, policy
<1>8. CASE GetInput
  BY <1>8 DEF GetInput, vars, threads, machine, policy
<1>9. CASE Sitting
  BY <1>9 DEF Sitting, vars, threads, machine, policy
<1>10. CASE Standing
  BY <1>10 DEF Standing, vars, threads, machine, policy
<1>11. CASE Damping
  BY <1>11 DEF Damping, vars, threads, machine, policy
<1>12. CASE UserControlStep
  BY <1>12 DEF UserControlStep, vars, threads, machine, policy
<1>13. CASE SetTargets
  BY <1>13 DEF SetTargets, vars, threads, machine, policy
<1>14. CASE SetGains
  BY <1>14 DEF SetGains, vars, threads, machine, policy
<1>15. CASE WriteBegins
  BY <1>15 DEF WriteBegins, vars, threads, machine, policy
<1>16. CASE WriteEnds
  BY <1>16 DEF WriteEnds, vars, threads, machine, policy
<1>17. CASE UNCHANGED vars
  BY <1>17 DEF vars, threads, machine, policy
<1> QED
  BY <1>1, <1>2, <1>3, <1>4, <1>5, <1>6, <1>7, <1>8, <1>9, <1>10, <1>11, <1>12, <1>13, <1>14, <1>15, <1>16, <1>17
     DEF Next, LowStateMessageHandler, StartControl, ControlStep, LowCmdwriteHandler

\* The writer copies a completed command, unchanged until it is out.
LEMMA PublishedStep == ASSUME IInv, [Next]_vars PROVE PublishedWhole'
<1> USE DEF IInv, CmdWhole, Locking, PublishedWhole, Published, TypeOK
<1>1. CASE StateCopied
  BY <1>1 DEF StateCopied, vars, threads, machine, policy
<1>2. CASE SetState
  BY <1>2 DEF SetState, vars, threads, machine, policy
<1>3. CASE WaitForStart
  BY <1>3 DEF WaitForStart, vars, threads, machine, policy
<1>4. CASE StartControlThread
  BY <1>4 DEF StartControlThread, vars, threads, machine, policy
<1>5. CASE StartSendCmd
  BY <1>5 DEF StartSendCmd, vars, threads, machine, policy
<1>6. CASE InteprateGamePad
  BY <1>6 DEF InteprateGamePad, vars, threads, machine, policy
<1>7. CASE UpdateStateMachine
  BY <1>7 DEF UpdateStateMachine, vars, threads, machine, policy
<1>8. CASE GetInput
  BY <1>8 DEF GetInput, vars, threads, machine, policy
<1>9. CASE Sitting
  BY <1>9 DEF Sitting, vars, threads, machine, policy
<1>10. CASE Standing
  BY <1>10 DEF Standing, vars, threads, machine, policy
<1>11. CASE Damping
  BY <1>11 DEF Damping, vars, threads, machine, policy
<1>12. CASE UserControlStep
  BY <1>12 DEF UserControlStep, vars, threads, machine, policy
<1>13. CASE SetTargets
  BY <1>13 DEF SetTargets, vars, threads, machine, policy
<1>14. CASE SetGains
  BY <1>14 DEF SetGains, vars, threads, machine, policy
<1>15. CASE WriteBegins
  BY <1>15 DEF WriteBegins, vars, threads, machine, policy
<1>16. CASE WriteEnds
  BY <1>16 DEF WriteEnds, vars, threads, machine, policy
<1>17. CASE UNCHANGED vars
  BY <1>17 DEF vars, threads, machine, policy
<1> QED
  BY <1>1, <1>2, <1>3, <1>4, <1>5, <1>6, <1>7, <1>8, <1>9, <1>10, <1>11, <1>12, <1>13, <1>14, <1>15, <1>16, <1>17
     DEF Next, LowStateMessageHandler, StartControl, ControlStep, LowCmdwriteHandler

\* The handler is done with a message before the next can press anything.
LEMMA FirstMessageStep == ASSUME IInv, [Next]_vars PROVE FirstMessage'
<1> USE PoseAssumption
<1> USE DEF IInv, FirstMessage, Locking, TypeOK, GamepadUpdate
<1>1. CASE StateCopied
  BY <1>1 DEF StateCopied, vars, threads, machine, policy
<1>2. CASE SetState
  BY <1>2 DEF SetState, vars, threads, machine, policy
<1>3. CASE WaitForStart
  BY <1>3 DEF WaitForStart, vars, threads, machine, policy
<1>4. CASE StartControlThread
  BY <1>4 DEF StartControlThread, vars, threads, machine, policy
<1>5. CASE StartSendCmd
  BY <1>5 DEF StartSendCmd, vars, threads, machine, policy
<1>6. CASE InteprateGamePad
  BY <1>6 DEF InteprateGamePad, vars, threads, machine, policy
<1>7. CASE UpdateStateMachine
  BY <1>7 DEF UpdateStateMachine, vars, threads, machine, policy
<1>8. CASE GetInput
  BY <1>8 DEF GetInput, vars, threads, machine, policy
<1>9. CASE Sitting
  BY <1>9 DEF Sitting, vars, threads, machine, policy
<1>10. CASE Standing
  BY <1>10 DEF Standing, vars, threads, machine, policy
<1>11. CASE Damping
  BY <1>11 DEF Damping, vars, threads, machine, policy
<1>12. CASE UserControlStep
  BY <1>12 DEF UserControlStep, vars, threads, machine, policy
<1>13. CASE SetTargets
  BY <1>13 DEF SetTargets, vars, threads, machine, policy
<1>14. CASE SetGains
  BY <1>14 DEF SetGains, vars, threads, machine, policy
<1>15. CASE WriteBegins
  BY <1>15 DEF WriteBegins, vars, threads, machine, policy
<1>16. CASE WriteEnds
  BY <1>16 DEF WriteEnds, vars, threads, machine, policy
<1>17. CASE UNCHANGED vars
  BY <1>17 DEF vars, threads, machine, policy
<1> QED
  BY <1>1, <1>2, <1>3, <1>4, <1>5, <1>6, <1>7, <1>8, <1>9, <1>10, <1>11, <1>12, <1>13, <1>14, <1>15, <1>16, <1>17
     DEF Next, LowStateMessageHandler, StartControl, ControlStep, LowCmdwriteHandler

\* The callbacks and the computation agree with the state.
LEMMA CoherentStep == ASSUME IInv, [Next]_vars PROVE Coherent'
<1> USE MachineStates
<1> USE DEF IInv, Coherent, Locking, FirstMessage, TypeOK, Mix, Zero, Policy
<1>1. CASE StateCopied
  BY <1>1 DEF StateCopied, vars, threads, machine, policy
<1>2. CASE SetState
  BY <1>2 DEF SetState, vars, threads, machine, policy
<1>3. CASE WaitForStart
  BY <1>3 DEF WaitForStart, vars, threads, machine, policy
<1>4. CASE StartControlThread
  BY <1>4 DEF StartControlThread, vars, threads, machine, policy
<1>5. CASE StartSendCmd
  BY <1>5 DEF StartSendCmd, vars, threads, machine, policy
<1>6. CASE InteprateGamePad
  BY <1>6 DEF InteprateGamePad, vars, threads, machine, policy
<1>7. CASE UpdateStateMachine
  <2>1. Sits \/ Stands => jpos # Unset
    BY <1>7, MachineStates DEF UpdateStateMachine
  <2> QED BY <1>7, <2>1, MachineStates DEF UpdateStateMachine, Called, StartPos, vars, threads, machine, policy
<1>8. CASE GetInput
  BY <1>8 DEF GetInput, vars, threads, machine, policy
<1>9. CASE Sitting
  BY <1>9 DEF Sitting, vars, threads, machine, policy
<1>10. CASE Standing
  BY <1>10 DEF Standing, vars, threads, machine, policy
<1>11. CASE Damping
  BY <1>11 DEF Damping, vars, threads, machine, policy
<1>12. CASE UserControlStep
  BY <1>12 DEF UserControlStep, vars, threads, machine, policy
<1>13. CASE SetTargets
  BY <1>13 DEF SetTargets, vars, threads, machine, policy
<1>14. CASE SetGains
  BY <1>14 DEF SetGains, vars, threads, machine, policy
<1>15. CASE WriteBegins
  BY <1>15 DEF WriteBegins, vars, threads, machine, policy
<1>16. CASE WriteEnds
  BY <1>16 DEF WriteEnds, vars, threads, machine, policy
<1>17. CASE UNCHANGED vars
  BY <1>17 DEF vars, threads, machine, policy
<1> QED
  BY <1>1, <1>2, <1>3, <1>4, <1>5, <1>6, <1>7, <1>8, <1>9, <1>10, <1>11, <1>12, <1>13, <1>14, <1>15, <1>16, <1>17
     DEF Next, LowStateMessageHandler, StartControl, ControlStep, LowCmdwriteHandler

\* Stiff gains reach the command only with an interpolation.
LEMMA StiffCmdStep == ASSUME IInv, [Next]_vars PROVE StiffCmd'
<1> USE DEF IInv, StiffCmd, Stiff, Coherent, Locking, TypeOK
<1>1. CASE StateCopied
  BY <1>1 DEF StateCopied, vars, threads, machine, policy
<1>2. CASE SetState
  BY <1>2 DEF SetState, vars, threads, machine, policy
<1>3. CASE WaitForStart
  BY <1>3 DEF WaitForStart, vars, threads, machine, policy
<1>4. CASE StartControlThread
  BY <1>4 DEF StartControlThread, vars, threads, machine, policy
<1>5. CASE StartSendCmd
  BY <1>5 DEF StartSendCmd, vars, threads, machine, policy
<1>6. CASE InteprateGamePad
  BY <1>6 DEF InteprateGamePad, vars, threads, machine, policy
<1>7. CASE UpdateStateMachine
  BY <1>7 DEF UpdateStateMachine, vars, threads, machine, policy
<1>8. CASE GetInput
  BY <1>8 DEF GetInput, vars, threads, machine, policy
<1>9. CASE Sitting
  BY <1>9 DEF Sitting, vars, threads, machine, policy
<1>10. CASE Standing
  BY <1>10 DEF Standing, vars, threads, machine, policy
<1>11. CASE Damping
  BY <1>11 DEF Damping, vars, threads, machine, policy
<1>12. CASE UserControlStep
  BY <1>12 DEF UserControlStep, vars, threads, machine, policy
<1>13. CASE SetTargets
  BY <1>13 DEF SetTargets, vars, threads, machine, policy
<1>14. CASE SetGains
  BY <1>14 DEF SetGains, vars, threads, machine, policy
<1>15. CASE WriteBegins
  BY <1>15 DEF WriteBegins, vars, threads, machine, policy
<1>16. CASE WriteEnds
  BY <1>16 DEF WriteEnds, vars, threads, machine, policy
<1>17. CASE UNCHANGED vars
  BY <1>17 DEF vars, threads, machine, policy
<1> QED
  BY <1>1, <1>2, <1>3, <1>4, <1>5, <1>6, <1>7, <1>8, <1>9, <1>10, <1>11, <1>12, <1>13, <1>14, <1>15, <1>16, <1>17
     DEF Next, LowStateMessageHandler, StartControl, ControlStep, LowCmdwriteHandler

\* The wire carries what the command was.
LEMMA StiffFromMeasuredStep == ASSUME IInv, [Next]_vars PROVE StiffFromMeasured'
<1> USE DEF IInv, StiffFromMeasured, Published, StiffCmd, Stiff, Locking, TypeOK, Nothing
<1>1. CASE StateCopied
  BY <1>1 DEF StateCopied, vars, threads, machine, policy
<1>2. CASE SetState
  BY <1>2 DEF SetState, vars, threads, machine, policy
<1>3. CASE WaitForStart
  BY <1>3 DEF WaitForStart, vars, threads, machine, policy
<1>4. CASE StartControlThread
  BY <1>4 DEF StartControlThread, vars, threads, machine, policy
<1>5. CASE StartSendCmd
  BY <1>5 DEF StartSendCmd, vars, threads, machine, policy
<1>6. CASE InteprateGamePad
  BY <1>6 DEF InteprateGamePad, vars, threads, machine, policy
<1>7. CASE UpdateStateMachine
  BY <1>7 DEF UpdateStateMachine, vars, threads, machine, policy
<1>8. CASE GetInput
  BY <1>8 DEF GetInput, vars, threads, machine, policy
<1>9. CASE Sitting
  BY <1>9 DEF Sitting, vars, threads, machine, policy
<1>10. CASE Standing
  BY <1>10 DEF Standing, vars, threads, machine, policy
<1>11. CASE Damping
  BY <1>11 DEF Damping, vars, threads, machine, policy
<1>12. CASE UserControlStep
  BY <1>12 DEF UserControlStep, vars, threads, machine, policy
<1>13. CASE SetTargets
  BY <1>13 DEF SetTargets, vars, threads, machine, policy
<1>14. CASE SetGains
  BY <1>14 DEF SetGains, vars, threads, machine, policy
<1>15. CASE WriteBegins
  BY <1>15 DEF WriteBegins, vars, threads, machine, policy
<1>16. CASE WriteEnds
  BY <1>16 DEF WriteEnds, vars, threads, machine, policy
<1>17. CASE UNCHANGED vars
  BY <1>17 DEF vars, threads, machine, policy
<1> QED
  BY <1>1, <1>2, <1>3, <1>4, <1>5, <1>6, <1>7, <1>8, <1>9, <1>10, <1>11, <1>12, <1>13, <1>14, <1>15, <1>16, <1>17
     DEF Next, LowStateMessageHandler, StartControl, ControlStep, LowCmdwriteHandler

\* A frame that holds L1 and Y ends in damping.
LEMMA StopWinsStep == ASSUME IInv, [Next]_vars PROVE StopWins'
<1> USE DEF IInv, StopWins, Coherent, Stops, Chord, Locking, TypeOK, Zero, InitCmd
<1>1. CASE StateCopied
  BY <1>1 DEF StateCopied, vars, threads, machine, policy
<1>2. CASE SetState
  BY <1>2 DEF SetState, vars, threads, machine, policy
<1>3. CASE WaitForStart
  BY <1>3 DEF WaitForStart, vars, threads, machine, policy
<1>4. CASE StartControlThread
  BY <1>4 DEF StartControlThread, vars, threads, machine, policy
<1>5. CASE StartSendCmd
  BY <1>5 DEF StartSendCmd, vars, threads, machine, policy
<1>6. CASE InteprateGamePad
  BY <1>6 DEF InteprateGamePad, vars, threads, machine, policy
<1>7. CASE UpdateStateMachine
  <2>1. Stops => AfterStop = "DAMPING"
    BY MachineStates DEF TypeOK
  <2> QED BY <1>7, <2>1 DEF UpdateStateMachine, vars, threads, machine, policy
<1>8. CASE GetInput
  BY <1>8 DEF GetInput, vars, threads, machine, policy
<1>9. CASE Sitting
  BY <1>9 DEF Sitting, vars, threads, machine, policy
<1>10. CASE Standing
  BY <1>10 DEF Standing, vars, threads, machine, policy
<1>11. CASE Damping
  BY <1>11 DEF Damping, vars, threads, machine, policy
<1>12. CASE UserControlStep
  BY <1>12 DEF UserControlStep, vars, threads, machine, policy
<1>13. CASE SetTargets
  BY <1>13 DEF SetTargets, vars, threads, machine, policy
<1>14. CASE SetGains
  BY <1>14 DEF SetGains, vars, threads, machine, policy
<1>15. CASE WriteBegins
  BY <1>15 DEF WriteBegins, vars, threads, machine, policy
<1>16. CASE WriteEnds
  BY <1>16 DEF WriteEnds, vars, threads, machine, policy
<1>17. CASE UNCHANGED vars
  BY <1>17 DEF vars, threads, machine, policy
<1> QED
  BY <1>1, <1>2, <1>3, <1>4, <1>5, <1>6, <1>7, <1>8, <1>9, <1>10, <1>11, <1>12, <1>13, <1>14, <1>15, <1>16, <1>17
     DEF Next, LowStateMessageHandler, StartControl, ControlStep, LowCmdwriteHandler

\* Steps that touch neither the state machine nor the policy.
Elsewhere == UNCHANGED <<fsm, policy>>
LEMMA MostElsewhere ==
  ASSUME [Next]_vars, ~UpdateStateMachine, ~Standing, ~UserControlStep
  PROVE  Elsewhere
  BY DEF Next, LowStateMessageHandler, StartControl, ControlStep, LowCmdwriteHandler,
     StateCopied, SetState, WaitForStart, StartControlThread, StartSendCmd,
     InteprateGamePad, GetInput, Sitting, Damping, SetTargets, SetGains, WriteBegins,
     WriteEnds, Elsewhere, vars, threads, machine, policy

\* The policy is entered with a reset, and nothing is forgotten while it is left.
LEMMA EnterOrStay ==
  ASSUME TypeOK, UpdateStateMachine, fsm' = "CTRL"
  PROVE  /\ obs' \in {obs, ZeroFrame} /\ actions' = actions
         /\ \/ fsm = "CTRL" /\ obs' = obs /\ history' = history
            \/ obs' = ZeroFrame /\ \A i \in 1 .. FrameStack : history'[i] = ZeroFrame
<1>1. fsm = "CTRL" \/ Ctrls
  BY MachineStates DEF UpdateStateMachine, TypeOK
<1>2. /\ actions' = actions /\ \A f \in Frames : LeftFrame(f) = f
      /\ AfterStop = "CTRL"
  BY DEF UpdateStateMachine, Left, LeftFrame, Frames
<1>3. CASE Ctrls
  <2>1. obs' = LeftFrame(ZeroFrame)
        /\ history' = [i \in 1 .. FrameStack |-> LeftFrame(ZeroHistory[i])]
    BY <1>3 DEF UpdateStateMachine, ResetObs, ResetHistory
  <2> QED BY <1>2, <2>1, ValueTypes DEF ZeroHistory
<1>4. CASE ~Ctrls
  <2>1. obs' = LeftFrame(obs) /\ history' = [i \in 1 .. FrameStack |-> LeftFrame(history[i])]
    BY <1>4 DEF UpdateStateMachine, ResetObs, ResetHistory
  <2>2. obs \in Frames /\ history \in [1 .. FrameStack -> Frames]
    BY DEF TypeOK
  <2>3. obs' = obs /\ history' = history
    BY <1>2, <2>1, <2>2
  <2> QED BY <1>1, <1>2, <1>4, <2>3
<1> QED BY <1>3, <1>4

LEMMA FreshStartStep == ASSUME IInv, [Next]_vars PROVE FreshStart'
<1>1. CASE UpdateStateMachine
  BY <1>1, EnterOrStay DEF IInv, FreshStart
<1>2. CASE Standing
  BY <1>2 DEF Standing, FreshStart
<1>3. CASE UserControlStep
  BY <1>3 DEF UserControlStep, FreshStart
<1>4. CASE Elsewhere
  BY <1>4 DEF Elsewhere, policy, IInv, FreshStart
<1> QED BY <1>1, <1>2, <1>3, <1>4, MostElsewhere

\* The history is reset when the policy is entered, and a run has actions of its
\* own after its first step.
LEMMA HistoryOfThisRunStep == ASSUME IInv, [Next]_vars PROVE HistoryOfThisRun'
<1> USE FrameStackAssumption
<1>0. OfThisRun(ZeroFrame)
  BY DEF OfThisRun, ZeroFrame
<1>1. CASE UpdateStateMachine
  <2>1. CASE fsm' # "CTRL"
    BY <2>1 DEF HistoryOfThisRun
  <2>2. CASE fsm' = "CTRL"
    <3>1. TypeOK /\ HistoryOfThisRun /\ UNCHANGED controller
      BY <1>1 DEF IInv, UpdateStateMachine
    <3>2. CASE fsm = "CTRL" /\ obs' = obs /\ history' = history
      BY <2>2, <3>1, <3>2 DEF HistoryOfThisRun, OfThisRun, FirstOfRun
    <3>3. CASE obs' = ZeroFrame /\ \A i \in 1 .. FrameStack : history'[i] = ZeroFrame
      BY <1>0, <3>3 DEF HistoryOfThisRun, OfThisRun
    <3> QED BY <1>1, <2>2, <3>1, <3>2, <3>3, EnterOrStay
  <2> QED BY <2>1, <2>2
<1>2. CASE Standing
  BY <1>2 DEF Standing, HistoryOfThisRun
<1>3. CASE UserControlStep
  <2>1. /\ fsm = "CTRL" /\ UNCHANGED controller /\ obs' = Frame
        /\ history' = Push(history, IF controller = "wtw" THEN Frame ELSE obs)
    BY <1>3 DEF UserControlStep, machine
  <2>2. /\ \A i \in 1 .. FrameStack - 1 : history'[i] = history[i + 1]
        /\ history'[FrameStack] = IF controller = "wtw" THEN Frame ELSE obs
    BY <2>1 DEF Push
  <2>3. CASE actions = "old"
    <3>1. obs = ZeroFrame /\ \A i \in 1 .. FrameStack : history[i] = ZeroFrame
      BY <2>1, <2>3 DEF IInv, FreshStart
    <3>2. FirstOfRun(Frame)
      BY <2>3 DEF FirstOfRun, Frame
    <3>3. /\ \A i \in 1 .. FrameStack - 1 : history'[i] = ZeroFrame
          /\ history'[FrameStack] = IF controller = "wtw" THEN Frame ELSE ZeroFrame
      BY <2>2, <3>1
    <3> QED BY <1>0, <2>1, <3>2, <3>3 DEF HistoryOfThisRun, OfThisRun, FirstOfRun
  <2>4. CASE actions # "old"
    <3>1. OfThisRun(Frame)
      BY <2>4 DEF OfThisRun, Frame
    <3>2. ASSUME NEW i \in 1 .. FrameStack
          PROVE  \/ OfThisRun(history'[i])
                 \/ /\ FirstOfRun(history'[i])
                    /\ \A j \in 1 .. i - 1 : history'[j] = ZeroFrame
      <4>1. HistoryOfThisRun
        BY DEF IInv
      <4>2. CASE i < FrameStack
        <5>1. \/ OfThisRun(history[i + 1])
              \/ /\ FirstOfRun(history[i + 1])
                 /\ \A j \in 1 .. i : history[j] = ZeroFrame
          BY <2>1, <4>1, <4>2 DEF HistoryOfThisRun
        <5> QED BY <2>2, <4>2, <5>1
      <4>3. CASE i = FrameStack /\ controller = "wtw"
        BY <2>2, <3>1, <4>3
      <4>4. CASE i = FrameStack /\ controller # "wtw"
        <5>1. \/ OfThisRun(obs)
              \/ FirstOfRun(obs) /\ \A j \in 1 .. FrameStack : history[j] = ZeroFrame
          BY <2>1, <4>1, <4>4 DEF HistoryOfThisRun
        <5> QED BY <2>2, <4>4, <5>1
      <4> QED BY <4>2, <4>3, <4>4
    <3> QED BY <2>1, <3>1, <3>2 DEF HistoryOfThisRun, OfThisRun, FirstOfRun
  <2> QED BY <2>3, <2>4
<1>4. CASE Elsewhere
  BY <1>4 DEF Elsewhere, policy, IInv, HistoryOfThisRun, OfThisRun, FirstOfRun
<1> QED BY <1>1, <1>2, <1>3, <1>4, MostElsewhere

\* The counter of an interpolation and the last target move together.
LEMMA CountingStep == ASSUME IInv, [Next]_vars PROVE Counting'
<1> USE DurationAssumption
<1> USE DEF IInv, Counting, Tracks, Track, Follows, Coherent, Locking, TypeOK, Mix, Zero, Policy
<1>1. CASE StateCopied
  BY <1>1 DEF StateCopied, vars, threads, machine, policy
<1>2. CASE SetState
  BY <1>2 DEF SetState, vars, threads, machine, policy
<1>3. CASE WaitForStart
  BY <1>3 DEF WaitForStart, vars, threads, machine, policy
<1>4. CASE StartControlThread
  BY <1>4 DEF StartControlThread, vars, threads, machine, policy
<1>5. CASE StartSendCmd
  BY <1>5 DEF StartSendCmd, vars, threads, machine, policy
<1>6. CASE InteprateGamePad
  BY <1>6 DEF InteprateGamePad, vars, threads, machine, policy
<1>7. CASE UpdateStateMachine
  <2>1. AfterStop \in {"SIT", "STAND"} /\ AfterStop # fsm => (AfterStop = "SIT" /\ Sits) \/ (AfterStop = "STAND" /\ Stands)
    BY MachineStates DEF TypeOK
  <2>2. AfterStop = fsm /\ fsm \in {"SIT", "STAND"} => ~Sits /\ ~Stands
    BY MachineStates DEF TypeOK
  <2> QED BY <1>7, <2>1, <2>2 DEF UpdateStateMachine, StartPos, SittingCount, StandingCount, vars, threads, machine, policy
<1>8. CASE GetInput
  BY <1>8 DEF GetInput, vars, threads, machine, policy
<1>9. CASE Sitting
  BY <1>9 DEF Sitting, Count, vars, threads, machine, policy
<1>10. CASE Standing
  BY <1>10 DEF Standing, Count, vars, threads, machine, policy
<1>11. CASE Damping
  BY <1>11 DEF Damping, vars, threads, machine, policy
<1>12. CASE UserControlStep
  BY <1>12 DEF UserControlStep, vars, threads, machine, policy
<1>13. CASE SetTargets
  BY <1>13 DEF SetTargets, vars, threads, machine, policy
<1>14. CASE SetGains
  BY <1>14 DEF SetGains, vars, threads, machine, policy
<1>15. CASE WriteBegins
  BY <1>15 DEF WriteBegins, vars, threads, machine, policy
<1>16. CASE WriteEnds
  BY <1>16 DEF WriteEnds, vars, threads, machine, policy
<1>17. CASE UNCHANGED vars
  BY <1>17 DEF vars, threads, machine, policy
<1> QED
  BY <1>1, <1>2, <1>3, <1>4, <1>5, <1>6, <1>7, <1>8, <1>9, <1>10, <1>11, <1>12, <1>13, <1>14, <1>15, <1>16, <1>17
     DEF Next, LowStateMessageHandler, StartControl, ControlStep, LowCmdwriteHandler

\* Types.
LEMMA TypeStep == ASSUME IInv, [Next]_vars PROVE TypeOK'
<1> USE DEF IInv, TypeOK, Locking, FirstMessage
<1>1. CASE StateCopied
  BY <1>1 DEF StateCopied, vars, threads, machine, policy
<1>2. CASE SetState
  BY <1>2 DEF SetState, vars, threads, machine, policy
<1>3. CASE WaitForStart
  BY <1>3 DEF WaitForStart, GamepadUpdate, vars, threads, machine, policy
<1>4. CASE StartControlThread
  BY <1>4, ValueTypes DEF StartControlThread, Gains, vars, threads, machine, policy
<1>5. CASE StartSendCmd
  BY <1>5 DEF StartSendCmd, vars, threads, machine, policy
<1>6. CASE InteprateGamePad
  BY <1>6 DEF InteprateGamePad, GamepadUpdate, vars, threads, machine, policy
<1>7. CASE UpdateStateMachine
  <2>1. AfterStop \in {"DAMPING", "SIT", "STAND", "CTRL"}
    BY MachineStates
  <2>2. StartPos \in Poses \cup {Unset}
    BY DEF StartPos
  <2>3. SittingCount \in 0 .. Duration /\ StandingCount \in 0 .. Duration
    BY DurationAssumption DEF SittingCount, StandingCount
  <2>4. Called \in [q: Targets, gain: Gains]
    <3>1. 0 \in 0 .. Duration
      BY DurationAssumption
    <3>2. /\ Mix(StartPos, "stand", 0) \in Targets /\ Mix(StartPos, "sit", 0) \in Targets
          /\ StandPos \in Targets
      BY <2>2, <3>1, ValueTypes
    <3> QED BY <3>2 DEF Called, Gains
  <2>5. (\A f \in Frames : LeftFrame(f) \in Frames) /\ Left(actions) \in Runs
    BY ValueTypes
  <2>6. ResetObs \in Frames /\ ResetHistory \in [1 .. FrameStack -> Frames]
    BY ValueTypes DEF ResetObs, ResetHistory
  <2> QED BY <1>7, <2>1, <2>2, <2>3, <2>4, <2>5, <2>6 DEF UpdateStateMachine, vars, threads, machine, policy
<1>8. CASE GetInput
  BY <1>8 DEF GetInput, vars, threads, machine, policy
<1>9. CASE Sitting
  BY <1>9, ValueTypes DEF Sitting, vars, threads, machine, policy
<1>10. CASE Standing
  <2>1. ZeroFrame \in Frames
    BY ValueTypes
  <2> QED BY <1>10, <2>1, ValueTypes DEF Standing, vars, threads, machine, policy
<1>11. CASE Damping
  BY <1>11, ValueTypes DEF Damping, Gains, vars, threads, machine, policy
<1>12. CASE UserControlStep
  <2>1. Frame \in Frames /\ "now" \in Runs
    BY ValueTypes DEF Frames, Runs
  <2> QED BY <1>12, <2>1, ValueTypes DEF UserControlStep, vars, threads, machine, policy
<1>13. CASE SetTargets
  BY <1>13 DEF SetTargets, vars, threads, machine, policy
<1>14. CASE SetGains
  BY <1>14 DEF SetGains, Crc, vars, threads, machine, policy
<1>15. CASE WriteBegins
  BY <1>15 DEF WriteBegins, vars, threads, machine, policy
<1>16. CASE WriteEnds
  BY <1>16 DEF WriteEnds, vars, threads, machine, policy
<1>17. CASE UNCHANGED vars
  BY <1>17 DEF vars, threads, machine, policy
<1> QED
  BY <1>1, <1>2, <1>3, <1>4, <1>5, <1>6, <1>7, <1>8, <1>9, <1>10, <1>11, <1>12, <1>13, <1>14, <1>15, <1>16, <1>17
     DEF Next, LowStateMessageHandler, StartControl, ControlStep, LowCmdwriteHandler

-----------------------------------------------------------------------------
(* The theorems.                                                           *)

LEMMA InitInv == Init => IInv
<1> SUFFICES ASSUME Init PROVE IInv
  OBVIOUS
<1>1. TypeOK
  <2>1. 0 \in 0 .. Duration
    BY DurationAssumption
  <2>2. "none" \in Gains /\ "zero" \in Runs
    BY DEF Gains, Runs
  <2>3. cmd \in [q: Targets, gain: Gains, crc: {NoCrc} \cup (Targets \X Gains)]
    BY <2>2, ValueTypes DEF Init, InitCmd
  <2>4. wire \in [q: Targets, gain: Gains, crc: {NoCrc, <<"nothing">>} \cup (Targets \X Gains)]
    BY <2>2, ValueTypes DEF Init, Nothing
  <2>5. robot_interface \in [q: Targets, gain: Gains]
    BY <2>2, ValueTypes DEF Init
  <2>6. gamepad \in [pressed: Buttons \cup {{}}, on_press: SUBSET UNION Buttons]
    BY DEF Init
  <2>7. state \in [btn: Buttons \cup {{}}, pose: Poses \cup {Unset}]
    BY DEF Init
  <2> QED BY <2>1, <2>2, <2>3, <2>4, <2>5, <2>6, <2>7, ValueTypes DEF Init, TypeOK
<1>2. Locking /\ CmdWhole /\ FirstMessage /\ PublishedWhole
  BY DEF Init, Locking, CmdWhole, FirstMessage, PublishedWhole, Published
<1>3. Coherent /\ StiffCmd /\ Counting /\ StiffFromMeasured
  BY DEF Init, Coherent, StiffCmd, Stiff, Counting, Tracks, StiffFromMeasured, Published, InitCmd
<1>4. StopWins /\ HistoryOfThisRun /\ FreshStart
  BY DEF Init, StopWins, HistoryOfThisRun, FreshStart
<1> QED BY <1>1, <1>2, <1>3, <1>4 DEF IInv

LEMMA StepInv == IInv /\ [Next]_vars => IInv'
<1> SUFFICES ASSUME IInv, [Next]_vars PROVE IInv'
  OBVIOUS
<1> QED
  BY TypeStep, LockingStep, CmdWholeStep, FirstMessageStep, CoherentStep, StiffCmdStep,
     CountingStep, PublishedStep, StiffFromMeasuredStep, StopWinsStep,
     FreshStartStep, HistoryOfThisRunStep DEF IInv

THEOREM Invariance == Spec => []IInv
  BY InitInv, StepInv, PTL DEF Spec

\* No reachable state of the controller is ill typed.
THEOREM TypeCorrect == Spec => []TypeOK
<1>1. IInv => TypeOK
  BY DEF IInv
<1> QED BY <1>1, Invariance, PTL

\* cmd_mutex keeps a command in one piece, for any interleaving of set_cmd and Write.
THEOREM WholeCommands == Spec => []PublishedWhole
<1>1. IInv => PublishedWhole
  BY DEF IInv
<1> QED BY <1>1, Invariance, PTL

\* Stiff gains go out only with a measured start, though nothing tests for one.
THEOREM MeasuredStart == Spec => []StiffFromMeasured
<1>1. IInv => StiffFromMeasured
  BY DEF IInv
<1> QED BY <1>1, Invariance, PTL

\* L1+Y beats every chord of the same frame.
THEOREM StopHasPriority == Spec => []StopWins
<1>1. IInv => StopWins
  BY DEF IInv
<1> QED BY <1>1, Invariance, PTL

\* Whatever the buttons do, the policy reads nothing that was measured in an
\* earlier run, and that run's last actions in the first frame of a run alone, for
\* any frame_stack.
THEOREM FreshHistory == Spec => []HistoryOfThisRun
<1>1. IInv => HistoryOfThisRun
  BY DEF IInv
<1> QED BY <1>1, Invariance, PTL

\* Targets do not jump, for any length of the interpolation.
THEOREM SmoothTargets == Spec => TargetsFollow
<1>1. ASSUME IInv, [Next]_vars PROVE [Follows(cmd.q, cmd'.q)]_vars
  <2>1. CASE SetTargets
    BY <1>1, <2>1 DEF SetTargets, IInv, Counting, TypeOK
  <2>2. CASE SetGains
    BY <1>1, <2>2 DEF SetGains, IInv, TypeOK, Follows, Targets
  <2>3. CASE cmd' = cmd
    BY <1>1, <2>3 DEF IInv, TypeOK, Follows, Targets
  <2> QED BY <1>1, <2>1, <2>2, <2>3 DEF Next, LowStateMessageHandler, StartControl,
       ControlStep, LowCmdwriteHandler, StateCopied, SetState, WaitForStart,
       StartControlThread, StartSendCmd, InteprateGamePad, UpdateStateMachine, GetInput,
       Sitting, Standing, Damping, UserControlStep, WriteBegins, WriteEnds, vars
<1> QED BY <1>1, Invariance, PTL DEF Spec, TargetsFollow

=============================================================================
