--------------------------- MODULE ThermalProtect ---------------------------
(***************************************************************************)
(* The posture of the robot between its protectors: the thermal watchdog   *)
(* (go2_dashboard/go2_thermal_protect.py), which lays a hot robot down and *)
(* gets it up again, the battery watchdog (go2_battery_protect.py), which  *)
(* lays it down and locks its motions, and the request threads of          *)
(* motor_health_app.py.  All of them move the robot by sport scripts       *)
(* (go2_motor_sport.py): a gate, a wait for _SPORT_SUBPROCESS_LOCK, the    *)
(* script, then what is made of its result.  What survives a restart is    *)
(* pending_crouch_recovery, in a file (go2_thermal_runtime.py).            *)
(*                                                                         *)
(* Cooldowns become ticks that do nothing (TickLate); the weight shift     *)
(* before a balance is part of the balance script.                         *)
(***************************************************************************)
EXTENDS Naturals, Sequences

CONSTANTS
    Requests,      \* request threads of the dashboard
    Ops,           \* what they ask for: "stand", "crouch", "balance", "recovery"
    Temps,         \* temperatures of the hottest leg motor
    BalanceC, CrouchC, Hysteresis,     \* the settings
    MaxFaults      \* bound on scripts that fail and restarts

Watch   == "watchdog"
Battery == "battery"
Threads == Requests \cup {Watch, Battery}

ASSUME ThermalAssumption ==
    /\ Requests \cap {Watch, Battery} = {}
    /\ Ops \subseteq {"stand", "crouch", "balance", "recovery"}
    /\ Temps \subseteq Nat /\ Temps # {}
    /\ BalanceC \in Nat /\ CrouchC \in Nat /\ Hysteresis \in Nat
    /\ MaxFaults \in Nat

VARIABLES
    posture,    \* of the robot: "up" or "down"
    owed,       \* ghost: the watchdog laid the robot down, and nobody forgot it
    pending,    \* pending_crouch_recovery, in the runtime file
    mode,       \* thermal_mode
    lock,       \* the battery lock
    temp,       \* the hottest leg motor
    job,        \* what each thread is doing
    saw,        \* the mode the tick under way has read
    faults      \* failures and restarts so far

vars == <<posture, owed, pending, mode, lock, temp, job, saw, faults>>

Modes == {"normal", "balance", "crouch"}

BalanceClear  == IF Hysteresis > BalanceC THEN 0 ELSE BalanceC - Hysteresis
CrouchRecover == IF Hysteresis > CrouchC THEN 0 ELSE CrouchC - Hysteresis

\* The scripts of a job, in order.
Scripts ==
    [stand      |-> <<"stand_up">>,
     crouch     |-> <<"crouch">>,
     balance    |-> <<"stand_up", "balance">>,
     recovery   |-> <<"stand_up", "balance">>,
     tobalance  |-> <<"balance">>,
     tocrouch   |-> <<"crouch">>,
     return     |-> <<"stand_up">>,
     lowbattery |-> <<"crouch">>]

Idle == [op |-> "none", pc |-> "idle", todo |-> <<>>, ok |-> TRUE]
Job(op) == [op |-> op, pc |-> "gate", todo |-> Scripts[op], ok |-> TRUE]
Refused(op) == [Job(op) EXCEPT !.pc = "finish", !.ok = FALSE]

At(t, pc)  == job[t].pc = pc
Script(t)  == Head(job[t].todo)

Init ==
    /\ posture = "up" /\ owed = FALSE
    /\ pending = FALSE /\ mode = "normal" /\ lock = FALSE
    /\ temp \in Temps
    /\ job = [t \in Threads |-> Idle] /\ saw = "none"
    /\ faults = 0

-----------------------------------------------------------------------------
(* The sport scripts.                                                      *)

\* Mutant of Allowed: the gate does not know the lock.
AllowedAlways(s) == s \in {"stand_up", "crouch", "balance"}

\* sport_motion_allowed: under the lock a crouch only.
Allowed(s) == s = "crouch" \/ ~lock

\* The result of the script in hand: a job goes on to its next script, unless
\* it could not make the robot stand.
Resulting(t, ok) ==
    [job[t] EXCEPT !.ok   = @ /\ ok,
                   !.todo = Tail(@),
                   !.pc   = IF Len(job[t].todo) = 1 \/ (Script(t) = "stand_up" /\ ~ok)
                            THEN "finish" ELSE "gate"]

Gate(t) ==
    /\ At(t, "gate")
    /\ job' = [job EXCEPT ![t] = IF Allowed(Script(t))
                                 THEN [@ EXCEPT !.pc = "wait"] ELSE Resulting(t, FALSE)]
    /\ UNCHANGED <<posture, owed, pending, mode, lock, temp, saw, faults>>

\* Mutant of StartScript: the sport lock is not waited for.
StartScriptAtOnce(t) ==
    /\ At(t, "wait")
    /\ job' = [job EXCEPT ![t].pc = "run"]
    /\ UNCHANGED <<posture, owed, pending, mode, lock, temp, saw, faults>>

\* One script at a time.
StartScript(t) ==
    /\ At(t, "wait")
    /\ \A u \in Threads : ~At(u, "run")
    /\ job' = [job EXCEPT ![t].pc = "run"]
    /\ UNCHANGED <<posture, owed, pending, mode, lock, temp, saw, faults>>

\* What the robot does of a script; balancing does not make it stand.
Pose(s) == CASE s = "stand_up" -> "up" [] s = "crouch" -> "down" [] OTHER -> posture

Moves(t) ==
    /\ posture' = Pose(Script(t))
    /\ owed' = IF Script(t) = "balance" THEN owed
               ELSE Script(t) = "crouch" /\ (owed \/ t = Watch)

ScriptDone(t) ==
    /\ At(t, "run")
    /\ Moves(t)
    /\ job' = [job EXCEPT ![t].pc = "done"]
    /\ UNCHANGED <<pending, mode, lock, temp, saw, faults>>

\* A script fails or times out: the robot may have moved, and nobody is told.
ScriptFails(t) ==
    /\ At(t, "run")
    /\ faults < MaxFaults
    /\ faults' = faults + 1
    /\ posture' \in {posture, Pose(Script(t))}
    /\ owed' = (owed /\ posture' = posture)
    /\ job' = [job EXCEPT ![t] = Resulting(t, FALSE)]
    /\ UNCHANGED <<pending, mode, lock, temp, saw>>

\* invoke_sport_pose: a stand clears the pending recovery, a crouch arms it,
\* unless it is the battery's.
PendingAfter(t) ==
    CASE Script(t) = "stand_up"                               -> FALSE
      [] Script(t) = "crouch" /\ job[t].op # "lowbattery" -> TRUE
      [] OTHER                                                -> pending

ScriptResult(t) ==
    /\ At(t, "done")
    /\ pending' = PendingAfter(t)
    /\ job' = [job EXCEPT ![t] = Resulting(t, TRUE)]
    /\ UNCHANGED <<posture, owed, mode, lock, temp, saw, faults>>

-----------------------------------------------------------------------------
(* What a job makes of the result of its scripts.                          *)

\* Mutant of ModeAfter: a recovery that failed leaves normal mode.
ModeAfterFailure(op, ok) ==
    CASE op \in {"recovery", "tobalance"} -> IF ok THEN "balance" ELSE "normal"
      [] op = "balance"  -> IF ok THEN "balance" ELSE mode
      [] op = "tocrouch" -> IF ok THEN "crouch" ELSE mode
      [] op = "return"   -> IF ok THEN "normal" ELSE mode
      [] OTHER           -> mode

ModeAfter(op, ok) ==
    CASE op = "recovery"  -> IF ok THEN "balance" ELSE "crouch"
      [] op = "tobalance" -> IF ok THEN "balance" ELSE "normal"
      [] op = "balance"   -> IF ok THEN "balance" ELSE mode
      [] op = "tocrouch"  -> IF ok THEN "crouch" ELSE mode
      [] op = "return"    -> IF ok THEN "normal" ELSE mode
      [] OTHER            -> mode

\* The battery's sequence locks the motions whatever came of its scripts.
Finish(t) ==
    /\ At(t, "finish")
    /\ LET op == job[t].op
           ok == job[t].ok
       IN  /\ mode' = ModeAfter(op, ok)
           /\ pending' = CASE ok /\ op = "recovery" -> FALSE
                           [] ok /\ op = "tocrouch" -> TRUE
                           [] OTHER                 -> pending
           /\ lock' = (lock \/ op = "lowbattery")
    /\ job' = [job EXCEPT ![t] = Idle]
    /\ UNCHANGED <<posture, owed, temp, saw, faults>>

-----------------------------------------------------------------------------
(* The request threads.                                                    *)

\* run_crouch_recovery_now takes the robot for lying down.
Request(r) ==
    /\ job[r] = Idle
    /\ \E op \in Ops :
        /\ job' = [job EXCEPT ![r] = Job(op)]
        /\ pending' = (pending \/ (op = "recovery" /\ mode # "crouch"))
        /\ mode' = IF op = "recovery" THEN "crouch" ELSE mode
    /\ UNCHANGED <<posture, owed, lock, temp, saw, faults>>

-----------------------------------------------------------------------------
(* The thermal watchdog.                                                   *)

Look ==
    /\ job[Watch] = Idle
    /\ saw' = mode
    /\ job' = [job EXCEPT ![Watch] = [@ EXCEPT !.op = "tick", !.pc = "act"]]
    /\ UNCHANGED <<posture, owed, pending, mode, lock, temp, faults>>

\* Mutant of Decision: the crouch threshold itself is not hot.
DecisionAbove(t, m) ==
    CASE m = "crouch"  /\ t <= CrouchRecover /\ ~lock -> "recovery"
      [] m # "crouch"  /\ t > CrouchC                 -> "tocrouch"
      [] m = "balance" /\ t <= BalanceClear            -> IF lock THEN "forget" ELSE "return"
      [] m = "normal"  /\ t >= BalanceC                -> "tobalance"
      [] OTHER                                         -> "none"

\* Mutant of Decision: balanced legs that cooled down stay as they are.
DecisionNoReturn(t, m) ==
    CASE m = "crouch" /\ t <= CrouchRecover /\ ~lock -> "recovery"
      [] m # "crouch" /\ t >= CrouchC                -> "tocrouch"
      [] m = "normal" /\ t < CrouchC /\ t >= BalanceC -> "tobalance"
      [] OTHER                                        -> "none"

\* What a tick does of a temperature and a mode.  _recovery_enabled is the lock.
Decision(t, m) ==
    CASE m = "crouch"  /\ t <= CrouchRecover /\ ~lock -> "recovery"
      [] m # "crouch"  /\ t >= CrouchC                -> "tocrouch"
      [] m = "balance" /\ t < CrouchC /\ t <= BalanceClear ->
             IF lock THEN "forget" ELSE "return"
      [] m = "normal"  /\ t < CrouchC /\ t >= BalanceC -> "tobalance"
      [] OTHER                                        -> "none"

\* _tick acts on the mode it read, though it may just have set another.
TickMode == IF pending /\ saw # "crouch" THEN "crouch" ELSE mode

Tick ==
    /\ At(Watch, "act")
    /\ LET d == Decision(temp, saw)
       IN  /\ mode' = IF d = "forget" THEN "normal" ELSE TickMode
           /\ owed' = (owed /\ d # "forget")
           /\ \/ /\ job' = [job EXCEPT ![Watch] =
                               IF d \in {"none", "forget"} THEN Idle ELSE Job(d)]
                 /\ UNCHANGED faults
              \/ /\ d \in {"tobalance", "tocrouch", "return"}  \* Sport is not ready
                 /\ faults < MaxFaults
                 /\ faults' = faults + 1
                 /\ job' = [job EXCEPT ![Watch] = Refused(d)]
    /\ saw' = "none"
    /\ UNCHANGED <<posture, pending, lock, temp>>

\* The cooldown of the tick's action has not elapsed.
TickLate ==
    /\ At(Watch, "act")
    /\ Decision(temp, saw) \notin {"none", "forget"}
    /\ mode' = TickMode
    /\ job' = [job EXCEPT ![Watch] = Idle]
    /\ saw' = "none"
    /\ UNCHANGED <<posture, owed, pending, lock, temp, faults>>

-----------------------------------------------------------------------------
(* The battery watchdog, the environment, a restart of the service.        *)

LowBattery ==
    /\ job[Battery] = Idle
    /\ ~lock
    /\ job' = [job EXCEPT ![Battery] = Job("lowbattery")]
    /\ UNCHANGED <<posture, owed, pending, mode, lock, temp, saw, faults>>

Recharged ==
    /\ job[Battery] = Idle
    /\ lock
    /\ lock' = FALSE
    /\ UNCHANGED <<posture, owed, pending, mode, temp, job, saw, faults>>

\* The temperature matters when a tick looks at it: it changes between ticks.
Weather ==
    /\ job[Watch] = Idle
    /\ temp' \in Temps \ {temp}
    /\ UNCHANGED <<posture, owed, pending, mode, lock, job, saw, faults>>

\* A script under way ends with the service: the robot may have moved.
Restart ==
    /\ faults < MaxFaults
    /\ faults' = faults + 1
    /\ \/ /\ UNCHANGED posture
          /\ owed' = (owed /\ pending)
       \/ \E t \in Threads :
             /\ At(t, "run") /\ posture' = Pose(Script(t))
             /\ owed' = (owed /\ pending /\ posture' = posture)
    /\ mode' = IF pending THEN "crouch" ELSE "normal"
    /\ lock' = FALSE
    /\ job' = [t \in Threads |-> Idle] /\ saw' = "none"
    /\ UNCHANGED <<pending, temp>>

Step(t) == Gate(t) \/ StartScript(t) \/ ScriptDone(t) \/ ScriptFails(t)
               \/ ScriptResult(t) \/ Finish(t)

Next ==
    \/ \E t \in Threads : Step(t)
    \/ \E r \in Requests : Request(r)
    \/ Look \/ Tick \/ TickLate
    \/ LowBattery \/ Recharged \/ Weather \/ Restart

Spec == Init /\ [][Next]_vars

\* Every thread goes on, and gets the sport lock if it waits for it; the
\* watchdog polls; a tick's cooldowns elapse.
Fairness ==
    /\ \A t \in Threads :
        /\ WF_vars(Gate(t)) /\ SF_vars(StartScript(t))
        /\ WF_vars(ScriptDone(t) \/ ScriptFails(t))
        /\ WF_vars(ScriptResult(t)) /\ WF_vars(Finish(t))
    /\ WF_vars(Look) /\ WF_vars(Tick \/ TickLate) /\ SF_vars(Tick)

FairSpec == Spec /\ Fairness

-----------------------------------------------------------------------------
TypeOK ==
    /\ posture \in {"up", "down"} /\ owed \in BOOLEAN /\ (owed => posture = "down")
    /\ pending \in BOOLEAN /\ lock \in BOOLEAN
    /\ mode \in Modes /\ saw \in Modes \cup {"none"} /\ temp \in Temps
    /\ \A t \in Threads :
        /\ job[t].op \in DOMAIN Scripts \cup {"none", "tick"}
        /\ job[t].pc \in {"idle", "act", "gate", "wait", "run", "done", "finish"}
        /\ job[t].pc \in {"gate", "wait", "run", "done"} => job[t].todo # <<>>
    /\ \A t, u \in Threads : At(t, "run") /\ At(u, "run") => t = u
    /\ faults \in 0..MaxFaults

\* A robot the watchdog laid down is never taken for one that stands in normal
\* mode, whatever requests and stale ticks write over thermal_mode.
Remembered ==
    owed /\ job[Watch].op # "tocrouch" => mode # "normal"

\* arm_crouch_recovery: a robot laid down "va rialzato" once the motors are cool.
GetsUpAgain ==
    <>[](temp <= BalanceClear /\ ~lock)
        => [](owed => <>~owed)

\* A robot that stays hot lies down, unless the watchdog takes it for lying
\* down already.
HotLiesDown ==
    <>[](temp >= CrouchC)
        => [](mode # "crouch" => <>(posture = "down" \/ mode = "crouch"))

\* sport_motion_allowed: under a battery lock that lasts the robot ends lying down
\* or standing; nothing makes it stand up and lie down for ever.
LockSettles ==
    <>[]lock => (<>[](posture = "down") \/ <>[](posture = "up"))
=============================================================================
