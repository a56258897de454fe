-------------------------- MODULE ArmMotionProofs --------------------------
(* Theorems about ArmMotion, for every set of threads and requests.        *)
EXTENDS ArmMotion, TLAPS

-----------------------------------------------------------------------------
(* Types.  The sets the variables range over have a name each, and a lemma *)
(* for each way the actions write them; the step itself unfolds neither.   *)

GuardSet  == [kind : Kinds \cup {"idle"}, plane : Planes \cup {"idle"},
              preempt : Sources \cup {"none"}, lock : BOOLEAN, override : BOOLEAN]
\* Where a request can be: sessions alone deal with planes, a jog is armed
\* under the cartesian kind, a handler holds none, waypoints are a program's, and
\* a jog within a session acquires nothing.
StageOK(op, pc, has) ==
    /\ op \in {"none", "hold", "release"} =>
          pc \in {"idle", "stop", "force", "choose", "soft", "hard", "held", "unheld",
                  "unpower", "released"}
    /\ pc \in {"claim", "unplane"} => op \in {"jbegin", "jend", "cbegin", "cend", "tcp"}
    /\ pc \in {"flag", "arm"} => op = "cbegin" /\ has = "cartesian"
    /\ pc \in {"tcheck", "tsend"} => op = "tcp"
    /\ pc = "folded" => op = "zero"
    /\ pc \in {"stop", "force", "reset"} => has = "none"
    /\ pc \in {"clear", "next", "ending", "ended", "endedhold"} => op = "run"
    /\ pc \in {"check", "send", "sent", "settle", "wait", "abort", "near", "nearhold",
               "there", "therehold"} => op \in {"move", "run"}
    /\ pc \in {"start", "ask", "acquire"} => op # "jogkeep"
Request   == {r \in [op : AllOps \cup {"none"}, pc : Steps,
                     has : Kinds \cup {"none"}, told : BOOLEAN] :
                 StageOK(r.op, r.pc, r.has)}
StreamSet == [armed : BOOLEAN, running : BOOLEAN,
              pc : {"top", "ready", "send", "again", "failed"}]
RunnerSet == [running : BOOLEAN, stop : BOOLEAN]
Stages    == \A t \in Threads : StageOK(req[t].op, req[t].pc, req[t].has)

GhostSet  == [late : [Movers -> 0..4], undone : SUBSET Threads, overrun : SUBSET Movers]

\* TypeOK is inductive with Stages.
StagedTypes == TypeOK /\ Stages

\* Both in the names above, before and after a step.
LEMMA Parts ==
    /\ StagedTypes <=> /\ guard \in GuardSet /\ req \in [Threads -> Request]
                       /\ stream \in StreamSet /\ runner \in RunnerSet
                       /\ coupled \in BOOLEAN /\ arm \in BOOLEAN /\ ghost \in GhostSet
                       /\ faults \in 0..MaxFaults /\ locks \in 0..MaxLocks
    /\ StagedTypes' <=> /\ guard' \in GuardSet /\ req' \in [Threads -> Request]
                        /\ stream' \in StreamSet /\ runner' \in RunnerSet
                        /\ coupled' \in BOOLEAN /\ arm' \in BOOLEAN /\ ghost' \in GhostSet
                        /\ faults' \in 0..MaxFaults /\ locks' \in 0..MaxLocks
  BY DEF StagedTypes, Stages, TypeOK, GuardType, GuardSet, Request, StreamSet, RunnerSet,
         GhostSet

\* The program counters the actions write are steps.
LEMMA StepNames ==
    /\ "idle" \in Steps /\ "claim" \in Steps /\ "acquire" \in Steps /\ "leave" \in Steps
    /\ "unplane" \in Steps /\ "ask" \in Steps /\ "admin" \in Steps /\ "power" \in Steps
    /\ "powered" \in Steps /\ "unpowered" \in Steps /\ "refused" \in Steps
    /\ "inside" \in Steps /\ "pose" \in Steps /\ "flag" \in Steps /\ "arm" \in Steps
    /\ "halt" \in Steps /\ "tcheck" \in Steps /\ "tsend" \in Steps /\ "folded" \in Steps
    /\ "stop" \in Steps /\ "force" \in Steps /\ "choose" \in Steps /\ "soft" \in Steps
    /\ "hard" \in Steps /\ "held" \in Steps /\ "unheld" \in Steps /\ "unpower" \in Steps
    /\ "released" \in Steps /\ "abort" \in Steps /\ "reset" \in Steps /\ "start" \in Steps
    /\ "clear" \in Steps /\ "next" \in Steps /\ "check" \in Steps /\ "send" \in Steps
    /\ "sent" \in Steps /\ "settle" \in Steps /\ "wait" \in Steps /\ "ending" \in Steps
    /\ "near" \in Steps /\ "nearhold" \in Steps /\ "there" \in Steps
    /\ "therehold" \in Steps /\ "ended" \in Steps /\ "endedhold" \in Steps
    /\ "rest" \in Steps /\ "resthold" \in Steps
  BY DEF Steps

\* A request moves under one of the guard's kinds, a session on its plane.
LEMMA KindsOfOps ==
    /\ \A op \in AllOps \cup {"none"} : KindOf(op) \in Kinds /\ AfterAcquire(op) \in Steps
                        /\ SourceOf(op) \in Sources
    /\ \A op \in {"jbegin", "cbegin", "cend", "jend", "tcp"} : KindOf(op) \in Planes
    /\ "admin" \in Kinds
    /\ {"hold", "release", "abort"} \subseteq Sources
    /\ \A op \in AllOps \ {"hold", "release"} : StageOK(op, AfterAcquire(op), KindOf(op))
  BY StepNames DEF StageOK, KindOf, Kinds, Planes, Sources, AllOps, AfterAcquire, SourceOf

\* motion_guard.py keeps its record well formed.
LEMMA GuardTypes ==
    ASSUME guard \in GuardSet
    PROVE  /\ \A k \in Kinds : Acquired(k) \in GuardSet /\ Released(k) \in GuardSet
           /\ \A p \in Planes : Claimed(p) \in GuardSet /\ Unclaimed(p) \in GuardSet
           /\ \A s \in Sources : PreemptBegun(s) \in GuardSet /\ PreemptEnded(s) \in GuardSet
           /\ Forced \in GuardSet
           /\ \A b \in BOOLEAN : /\ [guard EXCEPT !.lock = b] \in GuardSet
                                 /\ [Forced EXCEPT !.lock = b] \in GuardSet
                                 /\ [guard EXCEPT !.override = b] \in GuardSet
           /\ guard.override \in BOOLEAN
  BY DEF GuardSet, Acquired, Released, Claimed, Unclaimed, PreemptBegun, PreemptEnded, Forced

\* The ways a request is written.
LEMMA RequestTypes ==
    ASSUME req \in [Threads -> Request], NEW t \in Threads
    PROVE  /\ Idle \in Request
           /\ \A op \in AllOps, p \in Steps : StageOK(op, p, "none") =>
                 [Idle EXCEPT !.op = op, !.pc = p] \in Request
           /\ \A r \in Request : [req EXCEPT ![t] = r] \in [Threads -> Request]
           /\ \A p \in Steps : StageOK(req[t].op, p, req[t].has) =>
                 /\ [req EXCEPT ![t].pc = p] \in [Threads -> Request]
                 /\ [req[t] EXCEPT !.pc = p] \in Request
           /\ \A p \in Steps, k \in Kinds \cup {"none"} : StageOK(req[t].op, p, k) =>
                 [req EXCEPT ![t].pc = p, ![t].has = k] \in [Threads -> Request]
           /\ \A b \in BOOLEAN : [req[t] EXCEPT !.told = b] \in Request
           /\ req[t].op \in AllOps \cup {"none"} /\ req[t].told \in BOOLEAN
           /\ StageOK(req[t].op, req[t].pc, req[t].has)
<1>1. Idle \in Request
  BY StepNames DEF Idle, Request, StageOK
<1>2. ASSUME NEW op \in AllOps, NEW p \in Steps, StageOK(op, p, "none")
      PROVE  [Idle EXCEPT !.op = op, !.pc = p] \in Request
  BY <1>2 DEF Idle, Request
<1>3. ASSUME NEW p \in Steps, NEW k \in Kinds \cup {"none"}, StageOK(req[t].op, p, k)
      PROVE  [req[t] EXCEPT !.pc = p, !.has = k] \in Request
  BY <1>3 DEF Request
<1>4. ASSUME NEW p \in Steps, StageOK(req[t].op, p, req[t].has)
      PROVE  [req[t] EXCEPT !.pc = p] \in Request
  BY <1>4 DEF Request
<1>5. ASSUME NEW b \in BOOLEAN PROVE [req[t] EXCEPT !.told = b] \in Request
  BY DEF Request
<1>6. req[t].op \in AllOps \cup {"none"} /\ req[t].told \in BOOLEAN
      /\ StageOK(req[t].op, req[t].pc, req[t].has)
  BY DEF Request
<1>7. /\ \A p : [req EXCEPT ![t].pc = p] = [req EXCEPT ![t] = [req[t] EXCEPT !.pc = p]]
      /\ \A p, k : [req EXCEPT ![t].pc = p, ![t].has = k]
                      = [req EXCEPT ![t] = [req[t] EXCEPT !.pc = p, !.has = k]]
  OBVIOUS
<1>8. \A r \in Request : [req EXCEPT ![t] = r] \in [Threads -> Request]
  OBVIOUS
<1>. QED
  BY <1>1, <1>2, <1>3, <1>4, <1>5, <1>6, <1>7, <1>8

\* The jog thread and the program flags.
LEMMA FlagTypes ==
    /\ stream \in StreamSet =>
          /\ \A a, r \in BOOLEAN : [stream EXCEPT !.armed = a, !.running = r] \in StreamSet
          /\ \A r \in BOOLEAN : [stream EXCEPT !.running = r] \in StreamSet
          /\ \A p \in {"top", "ready", "send", "again", "failed"} :
                /\ [stream EXCEPT !.pc = p] \in StreamSet
                /\ \A r \in BOOLEAN : [stream EXCEPT !.pc = p, !.running = r] \in StreamSet
    /\ runner \in RunnerSet =>
          /\ \A b \in BOOLEAN : /\ [runner EXCEPT !.stop = b] \in RunnerSet
                                /\ [runner EXCEPT !.running = b] \in RunnerSet
                                /\ [runner EXCEPT !.running = @ /\ b] \in RunnerSet
    /\ [running |-> TRUE, stop |-> FALSE] \in RunnerSet
  BY DEF StreamSet, RunnerSet

\* The ways the history is written.
LEMMA GhostTypes ==
    ASSUME ghost \in GhostSet
    PROVE  /\ ghost.late \in [Movers -> 0..4] /\ ghost.undone \in SUBSET Threads
           /\ ghost.overrun \in SUBSET Movers
           /\ [m \in Movers |-> 0] \in [Movers -> 0..4]
           /\ \A l \in [Movers -> 0..4], u \in SUBSET Threads :
                 [ghost EXCEPT !.late = l, !.undone = u] \in GhostSet
           /\ \A o \in SUBSET Movers : [ghost EXCEPT !.overrun = o] \in GhostSet
           /\ \A o \in SUBSET Movers, u \in SUBSET Threads :
                 [ghost EXCEPT !.overrun = o, !.undone = u] \in GhostSet
           /\ \A t \in Threads : [ghost EXCEPT !.late[t] = 0] \in GhostSet
<1>1. [m \in Movers |-> 0] \in [Movers -> 0..4]
  OBVIOUS
<1>2. ghost.late \in [Movers -> 0..4] /\ ghost.undone \in SUBSET Threads
      /\ ghost.overrun \in SUBSET Movers
  BY DEF GhostSet
<1>3. ASSUME NEW l \in [Movers -> 0..4], NEW u \in SUBSET Threads
      PROVE  [ghost EXCEPT !.late = l, !.undone = u] \in GhostSet
  BY DEF GhostSet
<1>4. ASSUME NEW o \in SUBSET Movers
      PROVE  [ghost EXCEPT !.overrun = o] \in GhostSet
  BY DEF GhostSet
<1>5. ASSUME NEW o \in SUBSET Movers, NEW u \in SUBSET Threads
      PROVE  [ghost EXCEPT !.overrun = o, !.undone = u] \in GhostSet
  BY DEF GhostSet
<1>6. ASSUME NEW t \in Threads PROVE [ghost EXCEPT !.late[t] = 0] \in GhostSet
  BY DEF GhostSet
<1>. QED
  BY <1>1, <1>2, <1>3, <1>4, <1>5, <1>6

\* Those who are overrun are movers.
LEMMA TouchTypes ==
    ASSUME ghost \in GhostSet, NEW t, NEW k
    PROVE  /\ Touch(t, k) => ghost' \in GhostSet
           /\ Preempt(t, k) => ghost' \in GhostSet
<1>1. \A j : OverrunAfter(t, j) \in SUBSET Movers
  BY DEF OverrunAfter
<1>2. ghost.undone \ {t} \in SUBSET Threads
  BY GhostTypes
<1>3. Touch(t, k) => ghost' \in GhostSet
  BY <1>1, GhostTypes DEF Touch
<1>4. Preempt(t, k) =>
         ghost' = [ghost EXCEPT !.overrun = OverrunAfter(t, "all"), !.undone = ghost.undone \ {t}]
  BY DEF Preempt
<1>5. [ghost EXCEPT !.overrun = OverrunAfter(t, "all"), !.undone = ghost.undone \ {t}]
         \in GhostSet
  BY <1>1, <1>2, GhostTypes
<1>. QED
  BY <1>3, <1>4, <1>5

\* A publish and a fault keep the types of what they touch.
LEMMA PublishTypes ==
    ASSUME StagedTypes, NEW m \in Movers, NEW what,
           Publish(m, what) \/ PublishOk(m, what) \/ PublishFails(m, what)
    PROVE  arm' \in BOOLEAN /\ faults' \in 0..MaxFaults /\ ghost' \in GhostSet
<1>1. faults' \in 0..MaxFaults
  BY MotionAssumption, Parts DEF Publish, PublishOk, PublishFails, Fault
<1>2. CASE Reaches(m, what)
  <2>1. arm' \in BOOLEAN
    BY <1>2, Parts DEF Reaches
  <2>2. ghost \in GhostSet
    BY Parts
  <2>3. LateAfter(m) \in [Movers -> 0..4]
    <3>1. ghost.late \in [Movers -> 0..4]
      BY <2>2, GhostTypes
    <3>2. ghost.late[m] < 4 => [ghost.late EXCEPT ![m] = @ + 1] \in [Movers -> 0..4]
      BY <3>1
    <3>. QED
      BY <3>1, <3>2 DEF LateAfter
  <2>4. UndoneAfter(m, what) \in SUBSET Threads
    BY <2>2, GhostTypes DEF UndoneAfter
  <2>. QED
    BY <1>1, <1>2, <2>1, <2>2, <2>3, <2>4, GhostTypes DEF Reaches
<1>3. CASE UNCHANGED <<arm, ghost>>
  BY <1>1, <1>3, Parts
<1>. QED
  BY <1>2, <1>3 DEF Publish, PublishOk, PublishFails

\* What the actions are built from keeps the types of what it writes.
LEMMA HelperTypes ==
    ASSUME StagedTypes, NEW t \in Threads
    PROVE  /\ \A p \in Steps : Goto(t, p) /\ StageOK(Doing(t), p, req[t].has)
                 => req' \in [Threads -> Request]
           /\ \A p \in Steps, k \in Kinds \cup {"none"} :
                 GotoWith(t, p, k) /\ StageOK(Doing(t), p, k) => req' \in [Threads -> Request]
           /\ Return(t) => req' \in [Threads -> Request]
           /\ \A p \in Steps : \A op : Begin(t, op, p) /\ StageOK(op, p, "none")
                 => req' \in [Threads -> Request]
           /\ \A p \in Steps : \A op : Enter(t, op, p) /\ StageOK(op, p, "none")
                 => req' \in [Threads -> Request] /\ ghost' \in GhostSet
           /\ \A p, op : Enter(t, op, p) => UNCHANGED <<arm, faults>>
           /\ Halt => stream' \in StreamSet
           /\ Fault => faults' \in 0..MaxFaults
           /\ \A a \in BOOLEAN :
                 AskArm(a) => coupled' \in BOOLEAN /\ faults' \in 0..MaxFaults
           /\ Doing(t) \in AllOps \cup {"none"}
           /\ StageOK(Doing(t), req[t].pc, req[t].has)
<1>1. req \in [Threads -> Request] /\ stream \in StreamSet /\ faults \in 0..MaxFaults
  BY Parts
<1>2. ASSUME NEW p \in Steps, Goto(t, p), StageOK(Doing(t), p, req[t].has)
      PROVE  req' \in [Threads -> Request]
  BY <1>1, <1>2, RequestTypes DEF Goto, Doing
<1>3. ASSUME NEW p \in Steps, NEW k \in Kinds \cup {"none"}, GotoWith(t, p, k),
             StageOK(Doing(t), p, k)
      PROVE  req' \in [Threads -> Request]
  BY <1>1, <1>3, RequestTypes DEF GotoWith, Doing
<1>4. Return(t) => req' \in [Threads -> Request]
  BY <1>1, RequestTypes DEF Return
<1>5. ASSUME NEW p \in Steps, NEW op, Begin(t, op, p), StageOK(op, p, "none")
      PROVE  req' \in [Threads -> Request]
  BY <1>1, <1>5, RequestTypes, MotionAssumption DEF Begin
<1>6. Halt => stream' \in StreamSet
  BY <1>1, FlagTypes DEF Halt
<1>7. Fault => faults' \in 0..MaxFaults
  BY <1>1, MotionAssumption DEF Fault
<1>8. ASSUME NEW a \in BOOLEAN, AskArm(a)
      PROVE  coupled' \in BOOLEAN /\ faults' \in 0..MaxFaults
  BY <1>1, <1>7, <1>8 DEF AskArm
<1>9. Doing(t) \in AllOps \cup {"none"} /\ StageOK(Doing(t), req[t].pc, req[t].has)
  BY <1>1, RequestTypes DEF Doing
<1>10. ASSUME NEW p, NEW op, Enter(t, op, p)
       PROVE  ghost' \in GhostSet /\ UNCHANGED <<arm, faults>> /\ Begin(t, op, p)
  BY <1>10, Parts, GhostTypes DEF Enter
<1>. QED
  BY <1>2, <1>3, <1>4, <1>5, <1>6, <1>7, <1>8, <1>9, <1>10

\* Every step keeps the types.
LEMMA TypeStep == StagedTypes /\ [Next]_vars => StagedTypes'
<1> SUFFICES ASSUME StagedTypes, [Next]_vars PROVE StagedTypes'
  OBVIOUS
<1> USE StepNames, Parts, MotionAssumption
<1>1. ASSUME NEW t \in Threads, CoupleBegin(t)
      PROVE  StagedTypes'
  BY <1>1, HelperTypes, KindsOfOps
     DEF CoupleBegin, StageOK, bus
<1>2. ASSUME NEW t \in Threads, JointBegin(t)
      PROVE  StagedTypes'
  BY <1>2, HelperTypes
     DEF JointBegin, StageOK, bus
<1>3. ASSUME NEW t \in Threads, JointEnd(t)
      PROVE  StagedTypes'
  BY <1>3, HelperTypes
     DEF JointEnd, StageOK, bus
<1>4. ASSUME NEW t \in Threads, Jog(t)
      PROVE  StagedTypes'
  BY <1>4, HelperTypes
     DEF Jog, StageOK, bus
<1>5. ASSUME NEW t \in Threads, JogInSession(t)
      PROVE  StagedTypes'
  BY <1>5, HelperTypes
     DEF JogInSession, StageOK, bus
<1>6. ASSUME NEW t \in Threads, CartesianBegin(t)
      PROVE  StagedTypes'
  BY <1>6, HelperTypes
     DEF CartesianBegin, StageOK, bus
<1>7. ASSUME NEW t \in Threads, CartesianEnd(t)
      PROVE  StagedTypes'
  BY <1>7, HelperTypes, FlagTypes
     DEF CartesianEnd, StageOK, bus
<1>8. ASSUME NEW t \in Threads, TcpBegin(t)
      PROVE  StagedTypes'
  BY <1>8, HelperTypes
     DEF TcpBegin, StageOK, bus
<1>9. ASSUME NEW t \in Threads, ZeroBegin(t)
      PROVE  StagedTypes'
  BY <1>9, HelperTypes, FlagTypes
     DEF ZeroBegin, StageOK, bus
<1>10. ASSUME NEW t \in Threads, HoldBegin(t)
      PROVE  StagedTypes'
  BY <1>10, HelperTypes, GuardTypes, GhostTypes, TouchTypes, KindsOfOps
     DEF HoldBegin, Preempt, StageOK, bus
<1>11. ASSUME NEW t \in Threads, ReleaseBegin(t)
      PROVE  StagedTypes'
  BY <1>11, HelperTypes, GuardTypes, GhostTypes, TouchTypes, KindsOfOps
     DEF ReleaseBegin, Preempt, StageOK, bus
<1>12. ASSUME NEW t \in Threads, ResetBegin(t)
      PROVE  StagedTypes'
  BY <1>12, HelperTypes
     DEF ResetBegin, StageOK, bus
<1>13. ASSUME NEW t \in Threads, MoveBegin(t)
      PROVE  StagedTypes'
  BY <1>13, HelperTypes, FlagTypes
     DEF MoveBegin, StageOK, bus
<1>14. ASSUME NEW t \in Threads, RunBegin(t)
      PROVE  StagedTypes'
  BY <1>14, HelperTypes
     DEF RunBegin, StageOK, bus
<1>15. ASSUME NEW t \in Threads, Claim(t)
      PROVE  StagedTypes'
  BY <1>15, HelperTypes, GuardTypes, KindsOfOps
     DEF Claim, Doing, StageOK, At, bus
<1>16. ASSUME NEW t \in Threads, Acquire(t)
      PROVE  StagedTypes'
  <2>1. CASE MayAcquire(KindOf(Doing(t)))
    <3>1. guard' \in GuardSet
      BY <1>16, <2>1, GuardTypes, KindsOfOps, HelperTypes DEF Acquire, Doing
    <3>2. ghost' \in GhostSet
      BY <1>16, <2>1, TouchTypes DEF Acquire
    <3>3. req' \in [Threads -> Request]
      BY <1>16, <2>1, HelperTypes, KindsOfOps DEF Acquire, StageOK, Doing, At
    <3>. QED
      BY <1>16, <3>1, <3>2, <3>3 DEF Acquire
  <2>2. CASE ~MayAcquire(KindOf(Doing(t)))
    BY <1>16, <2>2, HelperTypes DEF Acquire, StageOK
  <2>. QED
    BY <2>1, <2>2
<1>17. ASSUME NEW t \in Threads, Leave(t)
      PROVE  StagedTypes'
  <2>1. req' \in [Threads -> Request]
    BY <1>17, HelperTypes DEF Leave, Doing, StageOK, At
  <2>2. guard' \in GuardSet /\ ghost' \in GhostSet
    BY <1>17, HelperTypes, GuardTypes, TouchTypes, KindsOfOps DEF Leave
  <2>3. runner' \in RunnerSet
    BY <1>17, FlagTypes DEF Leave
  <2>. QED
    BY <1>17, <2>1, <2>2, <2>3 DEF Leave
<1>18. ASSUME NEW t \in Threads, Unplane(t)
      PROVE  StagedTypes'
  BY <1>18, HelperTypes, GuardTypes, KindsOfOps
     DEF Unplane, Doing, StageOK, At, bus
<1>19. ASSUME NEW t \in Threads, Ask(t)
      PROVE  StagedTypes'
  BY <1>19, HelperTypes, KindsOfOps
     DEF Ask, Doing, StageOK, At, bus
<1>20. ASSUME NEW t \in Threads, Admin(t)
      PROVE  StagedTypes'
  <2>1. CASE MayAcquire("admin")
    <3>1. guard' \in GuardSet
      BY <1>20, <2>1, GuardTypes, KindsOfOps, HelperTypes DEF Admin, Doing
    <3>2. ghost' \in GhostSet
      BY <1>20, <2>1, TouchTypes DEF Admin
    <3>3. req' \in [Threads -> Request]
      BY <1>20, <2>1, HelperTypes, KindsOfOps DEF Admin, StageOK, Doing, At
    <3>. QED
      BY <1>20, <3>1, <3>2, <3>3 DEF Admin
  <2>2. CASE ~MayAcquire("admin")
    BY <1>20, <2>2, HelperTypes DEF Admin, StageOK, Doing, At
  <2>. QED
    BY <2>1, <2>2
<1>21. ASSUME NEW t \in Threads, Power(t)
      PROVE  StagedTypes'
  BY <1>21, HelperTypes, PublishTypes
     DEF Power, Movers, StageOK, At, bus
<1>22. ASSUME NEW t \in Threads, Unadmin(t)
      PROVE  StagedTypes'
  BY <1>22, HelperTypes, RequestTypes, GuardTypes, GhostTypes, TouchTypes, KindsOfOps
     DEF Unadmin, Doing, StageOK, At, bus
<1>23. ASSUME NEW t \in Threads, Refused(t)
      PROVE  StagedTypes'
  BY <1>23, HelperTypes
     DEF Refused, StageOK, At, bus
<1>24. ASSUME NEW t \in Threads, JogReady(t)
      PROVE  StagedTypes'
  BY <1>24, HelperTypes
     DEF JogReady, Doing, StageOK, At, bus
<1>25. ASSUME NEW t \in Threads, JogPose(t)
      PROVE  StagedTypes'
  BY <1>25, HelperTypes, PublishTypes
     DEF JogPose, Movers, Doing, StageOK, At, bus
<1>26. ASSUME NEW t \in Threads, CartesianReady(t)
      PROVE  StagedTypes'
  BY <1>26, HelperTypes
     DEF CartesianReady, StageOK, At, bus
<1>27. ASSUME NEW t \in Threads, JogStart(t)
      PROVE  StagedTypes'
  <2>1. stream' \in StreamSet /\ req' \in [Threads -> Request]
    BY <1>27, HelperTypes, FlagTypes DEF JogStart
  <2>2. PICK o \in SUBSET Movers : ghost' = [ghost EXCEPT !.overrun = o]
    BY <1>27, GhostTypes DEF JogStart, Movers
  <2>3. ghost' \in GhostSet
    BY <2>2, GhostTypes
  <2>. QED
    BY <1>27, <2>1, <2>3 DEF JogStart
<1>28. ASSUME NEW t \in Threads, CartesianHalt(t)
      PROVE  StagedTypes'
  BY <1>28, HelperTypes
     DEF CartesianHalt, Doing, StageOK, At, bus
<1>29. ASSUME NEW t \in Threads, TcpReady(t)
      PROVE  StagedTypes'
  BY <1>29, HelperTypes
     DEF TcpReady, Doing, StageOK, At, bus
<1>30. ASSUME NEW t \in Threads, TcpCheck(t)
      PROVE  StagedTypes'
  BY <1>30, HelperTypes
     DEF TcpCheck, StageOK, At, bus
<1>31. ASSUME NEW t \in Threads, TcpSend(t)
      PROVE  StagedTypes'
  BY <1>31, HelperTypes, PublishTypes
     DEF TcpSend, Movers, StageOK, At, bus
<1>32. ASSUME NEW t \in Threads, ZeroFold(t)
      PROVE  StagedTypes'
  BY <1>32, HelperTypes, PublishTypes
     DEF ZeroFold, Movers, Doing, StageOK, At, bus
<1>33. ASSUME NEW t \in Threads, ZeroHold(t)
      PROVE  StagedTypes'
  BY <1>33, HelperTypes, PublishTypes
     DEF ZeroHold, Movers, StageOK, At, bus
<1>34. ASSUME NEW t \in Threads, AbortBegin(t)
      PROVE  StagedTypes'
  BY <1>34, HelperTypes, GuardTypes, GhostTypes, TouchTypes, KindsOfOps
     DEF AbortBegin, Preempt, StageOK, At, bus
<1>35. ASSUME NEW t \in Threads, HoldStop(t)
      PROVE  StagedTypes'
  BY <1>35, HelperTypes, FlagTypes
     DEF HoldStop, StageOK, At, bus
<1>36. ASSUME NEW t \in Threads, HoldForce(t)
      PROVE  StagedTypes'
  BY <1>36, HelperTypes, GuardTypes, GhostTypes, TouchTypes
     DEF HoldForce, Doing, StageOK, At, bus
<1>37. ASSUME NEW t \in Threads, HoldChoose(t)
      PROVE  StagedTypes'
  BY <1>37, HelperTypes
     DEF HoldChoose, Doing, StageOK, At, bus
<1>38. ASSUME NEW t \in Threads, HoldHard(t)
      PROVE  StagedTypes'
  BY <1>38, HelperTypes, PublishTypes
     DEF HoldHard, Movers, StageOK, At, bus
<1>39. ASSUME NEW t \in Threads, HoldSoft(t)
      PROVE  StagedTypes'
  BY <1>39, HelperTypes, PublishTypes
     DEF HoldSoft, Movers, StageOK, At, bus
<1>40. ASSUME NEW t \in Threads, Unpower(t)
      PROVE  StagedTypes'
  BY <1>40, HelperTypes, PublishTypes
     DEF Unpower, Movers, StageOK, At, bus
<1>41. ASSUME NEW t \in Threads, HoldEnd(t)
      PROVE  StagedTypes'
  <2>1. req' \in [Threads -> Request]
    <3>1. req \in [Threads -> Request]
      OBVIOUS
    <3>2. AfterHold(t)[t] \in Request
      BY <3>1, RequestTypes DEF AfterHold, Doing, StageOK
    <3>3. \A u \in Threads \ {t} : AfterHold(t)[u] \in Request
      BY <3>1, RequestTypes DEF AfterHold
    <3>4. DOMAIN AfterHold(t) = Threads /\ AfterHold(t) = [u \in Threads |-> AfterHold(t)[u]]
      BY DEF AfterHold
    <3>. QED
      BY <1>41, <3>2, <3>3, <3>4 DEF HoldEnd
  <2>2. guard' \in GuardSet
    BY <1>41, HelperTypes, GuardTypes, KindsOfOps DEF HoldEnd
  <2>3. ghost' \in GhostSet
    BY <1>41, GhostTypes DEF HoldEnd
  <2>. QED
    BY <1>41, <2>1, <2>2, <2>3 DEF HoldEnd
<1>42. ASSUME NEW t \in Threads, Reset(t)
      PROVE  StagedTypes'
  BY <1>42, HelperTypes, GuardTypes, GhostTypes, TouchTypes
     DEF Reset, Doing, StageOK, At, bus
<1>43. ASSUME NEW t \in Threads, MoveStart(t)
      PROVE  StagedTypes'
  BY <1>43, HelperTypes
     DEF MoveStart, StageOK, At, bus
<1>44. ASSUME NEW t \in Threads, RunClear(t)
      PROVE  StagedTypes'
  BY <1>44, HelperTypes, FlagTypes
     DEF RunClear, StageOK, At, bus
<1>45. ASSUME NEW t \in Threads, RunNext(t)
      PROVE  StagedTypes'
  BY <1>45, HelperTypes
     DEF RunNext, StageOK, At, bus
<1>46. ASSUME NEW t \in Threads, MoveReady(t)
      PROVE  StagedTypes'
  BY <1>46, HelperTypes
     DEF MoveReady, Doing, StageOK, At, bus
<1>47. ASSUME NEW t \in Threads, MoveCheck(t)
      PROVE  StagedTypes'
  BY <1>47, HelperTypes
     DEF MoveCheck, StageOK, At, bus
<1>48. ASSUME NEW t \in Threads, MoveSend(t)
      PROVE  StagedTypes'
  BY <1>48, HelperTypes, PublishTypes
     DEF MoveSend, GiveUp, Movers, StageOK, At, bus
<1>49. ASSUME NEW t \in Threads, MoveSent(t)
      PROVE  StagedTypes'
  BY <1>49, HelperTypes
     DEF MoveSent, StageOK, At, bus
<1>50. ASSUME NEW t \in Threads, MoveSettled(t)
      PROVE  StagedTypes'
  BY <1>50, HelperTypes
     DEF MoveSettled, StageOK, At, bus
<1>51. ASSUME NEW t \in Threads, MoveWaited(t)
      PROVE  StagedTypes'
  BY <1>51, HelperTypes
     DEF MoveWaited, Doing, StageOK, At, bus
<1>52. ASSUME NEW t \in Threads, RunEnding(t)
      PROVE  StagedTypes'
  BY <1>52, HelperTypes, FlagTypes
     DEF RunEnding, StageOK, At, bus
<1>53. CASE StreamTop
  BY <1>53, FlagTypes
     DEF StreamTop, Halt, bus
<1>54. CASE StreamReady
  BY <1>54, FlagTypes
     DEF StreamReady, bus
<1>55. CASE StreamSend
  BY <1>55, FlagTypes, PublishTypes
     DEF StreamSend, Movers, bus
<1>56. CASE StreamFailed
  BY <1>56, FlagTypes
     DEF StreamFailed, bus
<1>57. CASE SetBatteryLock
  <2>1. guard' \in GuardSet
    BY <1>57, GuardTypes DEF SetBatteryLock
  <2>2. ghost' = [ghost EXCEPT !.overrun = {m \in Movers : Holds(m) # "none"}]
    BY <1>57 DEF SetBatteryLock
  <2>3. ghost' \in GhostSet
    BY <2>2, GhostTypes
  <2>4. locks' \in 0..MaxLocks
    BY <1>57 DEF SetBatteryLock
  <2>. QED
    BY <1>57, <2>1, <2>3, <2>4 DEF SetBatteryLock
<1>58. CASE ClearBatteryLock
  BY <1>58, GuardTypes
     DEF ClearBatteryLock, bus
<1>59. CASE BatteryOverride
  BY <1>59, GuardTypes
     DEF BatteryOverride, bus
<1>60. CASE UNCHANGED vars
  BY <1>60 DEF vars
<1>61. ASSUME NEW t \in Threads, MaintainBegin(t)
      PROVE  StagedTypes'
  BY <1>61, HelperTypes
     DEF MaintainBegin, StageOK, bus
<1>62. ASSUME NEW t \in Threads, PoseAsked(t)
      PROVE  StagedTypes'
  BY <1>62, HelperTypes
     DEF PoseAsked, PoseDone, Near, There, Ended, Rests, Doing, StageOK, At, bus
<1>63. ASSUME NEW t \in Threads, PoseSent(t)
      PROVE  StagedTypes'
  BY <1>63, HelperTypes, PublishTypes
     DEF PoseSent, PoseDone, Near, There, Ended, Rests, Movers, Doing, StageOK, At, bus
<1>. QED
  BY <1>1, <1>2, <1>3, <1>4, <1>5, <1>6, <1>7, <1>8, <1>9, <1>10, <1>11, <1>12,
     <1>13, <1>14, <1>15, <1>16, <1>17, <1>18, <1>19, <1>20, <1>21, <1>22, <1>23,
     <1>24, <1>25, <1>26, <1>27, <1>28, <1>29, <1>30, <1>31, <1>32, <1>33, <1>34,
     <1>35, <1>36, <1>37, <1>38, <1>39, <1>40, <1>41, <1>42, <1>43, <1>44, <1>45,
     <1>46, <1>47, <1>48, <1>49, <1>50, <1>51, <1>52, <1>53, <1>54, <1>55, <1>56,
     <1>57, <1>58, <1>59, <1>60, <1>61, <1>62, <1>63
     DEF Next, Arrive, Serve, StreamStep, Battery

\* The types of the initial state.
LEMMA StagedInit == Init => StagedTypes
<1> SUFFICES ASSUME Init PROVE StagedTypes
  OBVIOUS
<1>1. Idle \in Request
  BY StepNames DEF Idle, Request, StageOK
<1>2. guard \in GuardSet
  BY DEF Init, GuardInit, GuardSet
<1>3. req \in [Threads -> Request]
  BY <1>1 DEF Init
<1>4. stream \in StreamSet /\ runner \in RunnerSet
  BY DEF Init, StreamSet, RunnerSet
<1>5. ghost \in GhostSet
  BY DEF Init, GhostSet
<1>6. faults \in 0..MaxFaults /\ locks \in 0..MaxLocks
  BY MotionAssumption DEF Init
<1>. QED
  BY <1>2, <1>3, <1>4, <1>5, <1>6, Parts DEF Init

\* TypeOK with Stages in every reachable state.
LEMMA StagedInvariant == Spec => []StagedTypes
  BY StagedInit, TypeStep, PTL DEF Spec

\* The requests' records, the guard, the flags and the history are of their
\* types in every reachable state, for any number of threads, faults and locks.
THEOREM TypeCorrect == Spec => []TypeOK
<1>1. StagedTypes => TypeOK
  BY DEF StagedTypes
<1>. QED
  BY <1>1, StagedInvariant, PTL

-----------------------------------------------------------------------------
(* What a step does to the guard's kind and preemption and to who works    *)
(* under them.  Most are quiet: the others are taken one by one.           *)

Quiet(t) ==
    /\ \A u \in Threads \ {t} : req'[u] = req[u]
    /\ req'[t].has \in {req[t].has, "none"}
    /\ Handling(t) => Handling(t)' /\ Doing(t)' = Doing(t)
    /\ guard'.kind = guard.kind /\ guard'.preempt = guard.preempt
    /\ ghost'.overrun = ghost.overrun
    /\ stream'.armed => stream.armed

\* What the actions are built from does to a thread and to the others.
LEMMA Writes ==
    ASSUME StagedTypes, NEW t \in Threads
    PROVE  /\ (Return(t) \/ \E p : Goto(t, p) \/ (\E k : GotoWith(t, p, k))
                                  \/ \E op : Begin(t, op, p))
                 => \A u \in Threads \ {t} : req'[u] = req[u]
           /\ \A p : Goto(t, p) => /\ req'[t].pc = p /\ req'[t].op = req[t].op
                                   /\ req'[t].has = req[t].has
           /\ \A p, k : GotoWith(t, p, k) => /\ req'[t].pc = p /\ req'[t].op = req[t].op
                                             /\ req'[t].has = k
           /\ Return(t) => req'[t] = Idle
           /\ \A p, op : Begin(t, op, p) => /\ req[t] = Idle /\ req'[t].has = "none"
                                            /\ req'[t].pc = p /\ req'[t].op = op
<1>1. req \in [Threads -> Request] /\ req[t] \in Request
  BY Parts
<1>2. ASSUME NEW p, Goto(t, p)
      PROVE  /\ \A u \in Threads \ {t} : req'[u] = req[u]
             /\ req'[t].pc = p /\ req'[t].op = req[t].op /\ req'[t].has = req[t].has
  BY <1>1, <1>2 DEF Goto, Request
<1>3. ASSUME NEW p, NEW k, GotoWith(t, p, k)
      PROVE  /\ \A u \in Threads \ {t} : req'[u] = req[u]
             /\ req'[t].pc = p /\ req'[t].op = req[t].op /\ req'[t].has = k
  BY <1>1, <1>3 DEF GotoWith, Request
<1>4. ASSUME Return(t)
      PROVE  req'[t] = Idle /\ \A u \in Threads \ {t} : req'[u] = req[u]
  BY <1>1, <1>4 DEF Return
<1>5. ASSUME NEW p, NEW op, Begin(t, op, p)
      PROVE  /\ \A u \in Threads \ {t} : req'[u] = req[u]
             /\ req[t] = Idle /\ req'[t].has = "none"
             /\ req'[t].pc = p /\ req'[t].op = op
  BY <1>1, <1>5 DEF Begin, Idle
<1>. QED
  BY <1>2, <1>3, <1>4, <1>5

\* A publish overruns nobody; a halt only disarms.
LEMMA OtherWrites ==
    ASSUME StagedTypes
    PROVE  /\ \A m, what : Publish(m, what) \/ PublishOk(m, what) \/ PublishFails(m, what)
                 => ghost'.overrun = ghost.overrun
           /\ \A t, op, p : Enter(t, op, p)
                 => Begin(t, op, p) /\ ghost'.overrun = ghost.overrun
           /\ Halt => ~stream'.armed
           /\ \A r : stream' = [stream EXCEPT !.running = r] => stream'.armed = stream.armed
           /\ \A p : guard' = Claimed(p) \/ guard' = Unclaimed(p)
                 => guard'.kind = guard.kind /\ guard'.preempt = guard.preempt
<1>1. ghost \in GhostSet /\ stream \in StreamSet /\ guard \in GuardSet
  BY Parts
<1>2. ASSUME NEW m, NEW what, Reaches(m, what) PROVE ghost'.overrun = ghost.overrun
  BY <1>1, <1>2 DEF Reaches, GhostSet
<1>6. ASSUME NEW t, NEW op, NEW p, Enter(t, op, p)
      PROVE  Begin(t, op, p) /\ ghost'.overrun = ghost.overrun
  BY <1>1, <1>6 DEF Enter, GhostSet
<1>3. ASSUME Halt PROVE ~stream'.armed
  BY <1>1, <1>3 DEF Halt, StreamSet
<1>4. ASSUME NEW r, stream' = [stream EXCEPT !.running = r]
      PROVE  stream'.armed = stream.armed
  BY <1>1, <1>4 DEF StreamSet
<1>5. ASSUME NEW p, guard' = Claimed(p) \/ guard' = Unclaimed(p)
      PROVE  guard'.kind = guard.kind /\ guard'.preempt = guard.preempt
  BY <1>1, <1>5 DEF GuardSet, Claimed, Unclaimed
<1>. QED
  BY <1>2, <1>3, <1>4, <1>5, <1>6 DEF Publish, PublishOk, PublishFails

\* Most steps of a thread are quiet.
LEMMA QuietSteps ==
    ASSUME StagedTypes, NEW t \in Threads,
           \/ CoupleBegin(t) \/ JointBegin(t) \/ JointEnd(t) \/ Jog(t) \/ JogInSession(t)
           \/ CartesianBegin(t) \/ CartesianEnd(t) \/ TcpBegin(t) \/ ZeroBegin(t)
           \/ ResetBegin(t) \/ MoveBegin(t) \/ RunBegin(t) \/ MaintainBegin(t)
           \/ PoseAsked(t) \/ PoseSent(t)
           \/ Claim(t) \/ Unplane(t) \/ Ask(t) \/ Power(t) \/ Refused(t)
           \/ JogReady(t) \/ JogPose(t) \/ CartesianReady(t) \/ CartesianHalt(t)
           \/ TcpReady(t) \/ TcpCheck(t) \/ TcpSend(t) \/ ZeroFold(t) \/ ZeroHold(t)
           \/ HoldStop(t) \/ HoldChoose(t) \/ HoldHard(t) \/ HoldSoft(t) \/ Unpower(t)
           \/ MoveStart(t) \/ RunClear(t) \/ RunNext(t) \/ MoveReady(t) \/ MoveCheck(t)
           \/ MoveSend(t) \/ MoveSent(t) \/ MoveSettled(t) \/ MoveWaited(t) \/ RunEnding(t)
    PROVE  Quiet(t)
<1> USE Writes, OtherWrites DEF Quiet, Handling, At, Doing, Idle
<1>1. CASE \/ CoupleBegin(t) \/ JointBegin(t) \/ JointEnd(t) \/ Jog(t) \/ JogInSession(t)
           \/ CartesianBegin(t) \/ CartesianEnd(t) \/ TcpBegin(t) \/ ZeroBegin(t)
           \/ ResetBegin(t) \/ MoveBegin(t) \/ RunBegin(t) \/ MaintainBegin(t)
  <2>1. \E op, p : Enter(t, op, p)
    BY <1>1 DEF CoupleBegin, JointBegin, JointEnd, Jog, JogInSession, CartesianBegin,
       CartesianEnd, TcpBegin, ZeroBegin, ResetBegin, MoveBegin, RunBegin, MaintainBegin
  <2>2. /\ \A u \in Threads \ {t} : req'[u] = req[u]
        /\ req'[t].has = "none" /\ ~Handling(t) /\ ghost'.overrun = ghost.overrun
    <3>1. PICK op, p : Enter(t, op, p)
      BY <2>1
    <3>2. Begin(t, op, p) /\ ghost'.overrun = ghost.overrun
      BY <3>1
    <3>3. req[t] = Idle /\ req'[t].has = "none" /\ \A u \in Threads \ {t} : req'[u] = req[u]
      BY <3>2
    <3>. QED
      BY <3>2, <3>3
  <2>3. guard' = guard
    BY <1>1 DEF CoupleBegin, JointBegin, JointEnd, Jog, JogInSession, CartesianBegin,
       CartesianEnd, TcpBegin, ZeroBegin, ResetBegin, MoveBegin, RunBegin, MaintainBegin
  <2>4. UNCHANGED stream \/ Halt \/ stream' = [stream EXCEPT !.running = FALSE]
    BY <1>1 DEF CoupleBegin, JointBegin, JointEnd, Jog, JogInSession, CartesianBegin,
       CartesianEnd, TcpBegin, ZeroBegin, ResetBegin, MoveBegin, RunBegin, MaintainBegin
  <2>. QED
    BY <2>2, <2>3, <2>4
<1>2. CASE Claim(t) \/ Unplane(t) \/ Ask(t) \/ Refused(t)
  <2>1. CASE Claim(t)
    BY <2>1 DEF Claim, bus
  <2>2. CASE Unplane(t)
    BY <2>2 DEF Unplane, bus
  <2>3. CASE Ask(t)
    <3>1. Return(t) \/ \E p : Goto(t, p)
      BY <2>3 DEF Ask
    <3>2. /\ \A u \in Threads \ {t} : req'[u] = req[u]
          /\ req'[t].has \in {req[t].has, "none"}
      BY <3>1
    <3>. QED
      BY <2>3, <3>2 DEF Ask
  <2>4. CASE Refused(t)
    BY <2>4 DEF Refused, bus
  <2>. QED
    BY <1>2, <2>1, <2>2, <2>3, <2>4
<1>3. CASE Power(t) \/ JogPose(t) \/ TcpSend(t) \/ ZeroFold(t) \/ ZeroHold(t)
  BY <1>3 DEF Power, JogPose, TcpSend, ZeroFold, ZeroHold
<1>4. CASE \/ JogReady(t) \/ CartesianReady(t) \/ CartesianHalt(t) \/ TcpReady(t)
           \/ TcpCheck(t)
  BY <1>4 DEF JogReady, CartesianReady, CartesianHalt, TcpReady, TcpCheck, bus
<1>5. CASE HoldStop(t) \/ HoldChoose(t) \/ HoldHard(t) \/ HoldSoft(t) \/ Unpower(t)
  BY <1>5 DEF HoldStop, HoldChoose, HoldHard, HoldSoft, Unpower, bus
<1>6. CASE MoveStart(t) \/ RunClear(t) \/ RunNext(t) \/ MoveReady(t) \/ MoveCheck(t)
  BY <1>6 DEF MoveStart, RunClear, RunNext, MoveReady, MoveCheck, bus
<1>7. CASE \/ MoveSend(t) \/ MoveSent(t) \/ MoveSettled(t) \/ MoveWaited(t)
           \/ RunEnding(t)
  BY <1>7 DEF MoveSend, MoveSent, MoveSettled, MoveWaited, RunEnding, GiveUp, bus
<1>8. CASE PoseAsked(t) \/ PoseSent(t)
  <2>1. UNCHANGED <<guard, stream>> /\ ghost'.overrun = ghost.overrun
    BY <1>8 DEF PoseAsked, PoseSent, bus
  <2>2. ~Handling(t) /\ (Return(t) \/ \E p : Goto(t, p))
    BY <1>8 DEF PoseAsked, PoseSent, PoseDone
  <2>. QED
    BY <2>1, <2>2
<1>. QED
  BY <1>1, <1>2, <1>3, <1>4, <1>5, <1>6, <1>7, <1>8

-----------------------------------------------------------------------------
(* A preempted arm has a handler.                                          *)

\* A step that neither touches the preemption nor ends a handler keeps it so.
LEMMA OwnerKept ==
    ASSUME PreemptHasOwner, guard'.preempt = guard.preempt,
           \A u \in Threads : Handling(u) => Handling(u)' /\ Doing(u)' = Doing(u)
    PROVE  PreemptHasOwner'
  BY DEF PreemptHasOwner, Preempted, SourceOf

\* Every step keeps it so.
LEMMA OwnerStep == StagedTypes /\ PreemptHasOwner /\ [Next]_vars => PreemptHasOwner'
<1> SUFFICES ASSUME StagedTypes, PreemptHasOwner, [Next]_vars PROVE PreemptHasOwner'
  OBVIOUS
<1>1. guard \in GuardSet /\ req \in [Threads -> Request]
  BY Parts
<1>2. ASSUME NEW t \in Threads, Quiet(t) PROVE PreemptHasOwner'
  BY <1>2, OwnerKept DEF Quiet, Handling, Doing
<1>3. ASSUME NEW t \in Threads,
             Acquire(t) \/ Admin(t) \/ Leave(t) \/ Unadmin(t) \/ Reset(t) \/ JogStart(t)
      PROVE  PreemptHasOwner'
  <2>1. ~Handling(t) /\ \A u \in Threads \ {t} : req'[u] = req[u]
    BY <1>3, Writes DEF Acquire, Admin, Leave, Unadmin, Reset, JogStart, Handling, At
  <2>2. guard'.preempt = guard.preempt
    BY <1>1, <1>3 DEF Acquire, Admin, Leave, Unadmin, Reset, JogStart, GuardSet,
       Acquired, Released, Forced
  <2>. QED
    BY <2>1, <2>2, OwnerKept DEF Handling, Doing
<1>4. ASSUME NEW t \in Threads, HoldBegin(t) \/ ReleaseBegin(t) \/ AbortBegin(t)
      PROVE  PreemptHasOwner'
  <2>1. PICK s \in {"hold", "release", "abort"} :
           /\ guard' = PreemptBegun(s)
           /\ \/ Begin(t, s, "stop") /\ s # "abort"
              \/ At(t, "abort") /\ GotoWith(t, "stop", "none") /\ s = "abort"
    BY <1>4 DEF HoldBegin, ReleaseBegin, AbortBegin, Preempt
  <2>2. guard'.preempt = s
    BY <1>1, <2>1 DEF PreemptBegun, Forced, GuardSet
  <2>3. Handling(t)'
    BY <2>1, Writes DEF Handling
  <2>4. CASE Begin(t, s, "stop") /\ s # "abort"
    BY <2>1, <2>2, <2>3, <2>4, Writes DEF PreemptHasOwner, SourceOf, Doing
  <2>5. CASE At(t, "abort") /\ GotoWith(t, "stop", "none") /\ s = "abort"
    <3>1. Doing(t) \notin {"hold", "release"}
      BY <1>1, <2>5 DEF Request, StageOK, At, Doing
    <3>. QED
      BY <2>2, <2>3, <2>5, <3>1, Writes DEF PreemptHasOwner, SourceOf, Doing
  <2>. QED
    BY <2>1, <2>4, <2>5
<1>5. ASSUME NEW t \in Threads, HoldForce(t) PROVE PreemptHasOwner'
  <2>1. /\ guard'.preempt = guard.preempt
        /\ \A u \in Threads \ {t} : req'[u] = req[u]
        /\ req'[t].op = req[t].op /\ req'[t].pc \in {"unpower", "choose"}
    BY <1>1, <1>5, Writes DEF HoldForce, Forced, GuardSet
  <2>. QED
    BY <2>1, OwnerKept DEF Handling, Doing
<1>6. ASSUME NEW t \in Threads, HoldEnd(t) PROVE PreemptHasOwner'
  <2>1. \A u \in Threads \ {t} : req'[u].op = req[u].op /\ req'[u].pc = req[u].pc
    BY <1>1, <1>6 DEF HoldEnd, AfterHold, Request
  <2>2. CASE guard.preempt \in {"none", SourceOf(Doing(t))}
    BY <1>1, <1>6, <2>2 DEF HoldEnd, PreemptEnded, GuardSet, PreemptHasOwner, Preempted
  <2>3. CASE guard.preempt \notin {"none", SourceOf(Doing(t))}
    <3>1. guard' = guard
      BY <1>6, <2>3 DEF HoldEnd, PreemptEnded
    <3>2. PICK u \in Threads : Handling(u) /\ SourceOf(Doing(u)) = guard.preempt
      BY <2>3 DEF PreemptHasOwner, Preempted
    <3>3. u # t
      BY <2>3, <3>2
    <3>. QED
      BY <2>1, <3>1, <3>2, <3>3 DEF PreemptHasOwner, Handling, Doing, SourceOf
  <2>. QED
    BY <2>2, <2>3
<1>7. CASE StreamStep \/ Battery \/ UNCHANGED vars
  <2>1. req' = req
    BY <1>7 DEF StreamStep, StreamTop, StreamReady, StreamSend, StreamFailed, Battery,
       SetBatteryLock, ClearBatteryLock, BatteryOverride, vars
  <2>2. guard'.preempt = guard.preempt
    BY <1>1, <1>7 DEF StreamStep, StreamTop, StreamReady, StreamSend, StreamFailed, Battery,
       SetBatteryLock, ClearBatteryLock, BatteryOverride, vars, Forced, GuardSet
  <2>. QED
    BY <2>1, <2>2, OwnerKept DEF Handling, Doing
<1>. QED
  BY <1>2, <1>3, <1>4, <1>5, <1>6, <1>7, QuietSteps DEF Next, Arrive, Serve

\* The arm is never left preempted: whatever order holds, releases and aborts
\* of any number of threads begin, fail and end in, the one that began last is
\* still at work (begin_safety_preempt, end_safety_preempt, the two finally).
THEOREM PreemptOwned == Spec => []PreemptHasOwner
<1>1. Init => PreemptHasOwner
  BY DEF Init, GuardInit, PreemptHasOwner, Preempted
<1>. QED
  BY <1>1, OwnerStep, StagedInvariant, PTL DEF Spec

-----------------------------------------------------------------------------
(* Exclusion: the guard's kind is that of the one mover not overrun.       *)

Guarded ==
    \A m \in Movers \ ghost.overrun : Holds(m) # "none" =>
        /\ guard.kind = Holds(m)
        /\ \A n \in (Movers \ ghost.overrun) \ {m} : Holds(n) = "none"

\* Who holds what, after a step.
LEMMA HoldsAfter ==
    ASSUME StagedTypes
    PROVE  /\ \A t \in Threads : Holds(t) = req[t].has /\ Holds(t)' = req'[t].has
           /\ Holds(Stream) = IF stream.armed THEN "cartesian" ELSE "none"
           /\ Holds(Stream)' = IF stream'.armed THEN "cartesian" ELSE "none"
           /\ \A m \in Movers : Holds(m) # "idle"
           /\ Movers = Threads \cup {Stream} /\ Stream \notin Threads
<1>1. req \in [Threads -> Request]
  BY Parts
<1>2. \A t \in Threads : req[t].has # "idle"
  BY <1>1 DEF Request, Kinds
<1>. QED
  BY <1>2, MotionAssumption DEF Holds, Movers

\* A step that only drops.
LEMMA LessHeld ==
    ASSUME Guarded, guard'.kind = guard.kind, ghost'.overrun = ghost.overrun,
           \A m \in Movers : Holds(m)' \in {Holds(m), "none"}
    PROVE  Guarded'
  BY DEF Guarded, Movers

\* A step after which whoever still holds is overrun.
LEMMA NoneHeld ==
    ASSUME \A m \in Movers \ ghost'.overrun : Holds(m)' = "none"
    PROVE  Guarded'
  BY DEF Guarded, Movers

\* Every step keeps the guard's kind with its holder.
LEMMA GuardedStep == StagedTypes /\ Guarded /\ [Next]_vars => Guarded'
<1> SUFFICES ASSUME StagedTypes, Guarded, [Next]_vars PROVE Guarded'
  OBVIOUS
<1>1. /\ guard \in GuardSet /\ req \in [Threads -> Request]
      /\ ghost \in GhostSet /\ stream \in StreamSet
  BY Parts
<1>2. ASSUME NEW t \in Threads, Quiet(t) PROVE Guarded'
  BY <1>2, LessHeld, HoldsAfter DEF Quiet
<1>3. ASSUME NEW t, NEW k, Touch(t, k) \/ Preempt(t, k),
             NEW m \in Movers \ ghost'.overrun, m # t, Holds(m) # "none"
      PROVE  ~Preempt(t, k) /\ m \notin ghost.overrun /\ k \notin {Holds(m), "all"}
  <2>1. ASSUME Preempt(t, k) PROVE FALSE
    <3>1. ghost'.overrun = OverrunAfter(t, "all")
      BY <1>1, <2>1 DEF Preempt, GhostSet
    <3>. QED
      BY <1>3, <3>1 DEF OverrunAfter
  <2>2. ghost'.overrun = OverrunAfter(t, k)
    BY <1>1, <1>3, <2>1 DEF Touch, GhostSet
  <2>. QED
    BY <1>3, <2>1, <2>2 DEF OverrunAfter
<1>4. ASSUME NEW t \in Threads, NEW k \in Kinds, NEW p, MayAcquire(k), guard' = Acquired(k),
             GotoWith(t, p, k), Touch(t, k), UNCHANGED stream
      PROVE  Guarded'
  <2>1. guard'.kind = k /\ Holds(t)' = k
    BY <1>1, <1>4, HoldsAfter, Writes DEF Acquired, GuardSet
  <2>2. \A m \in Movers \ {t} : Holds(m)' = Holds(m)
    <3>1. \A u \in Threads \ {t} : req'[u] = req[u]
      BY <1>4, Writes
    <3>. QED
      BY <1>4, <3>1, HoldsAfter
  <2>3. \A m \in Movers \ ghost'.overrun : m # t => Holds(m) = "none"
    BY <1>3, <1>4, HoldsAfter DEF Guarded, MayAcquire
  <2>. QED
    BY <2>1, <2>2, <2>3, HoldsAfter DEF Guarded, Movers
<1>5. ASSUME NEW t \in Threads, NEW k \in Kinds, guard' = Released(k), Touch(t, k),
             req'[t].has = "none", \A u \in Threads \ {t} : req'[u] = req[u],
             UNCHANGED stream
      PROVE  Guarded'
  <2>1. Holds(t)' = "none" /\ \A m \in Movers \ {t} : Holds(m)' = Holds(m)
    BY <1>5, HoldsAfter
  <2>2. guard.kind # k => guard'.kind = guard.kind
    BY <1>1, <1>5 DEF Released, GuardSet
  <2>3. \A m \in Movers \ ghost'.overrun : m # t /\ Holds(m) # "none"
                              => m \notin ghost.overrun /\ Holds(m) # k
    BY <1>3, <1>5
  <2>. QED
    BY <2>1, <2>2, <2>3, HoldsAfter DEF Guarded, Movers
<1>6. ASSUME NEW t \in Threads, Acquire(t) PROVE Guarded'
  <2>1. KindOf(Doing(t)) \in Kinds
    BY KindsOfOps, HelperTypes
  <2>2. CASE MayAcquire(KindOf(Doing(t)))
    BY <1>4, <1>6, <2>1, <2>2 DEF Acquire
  <2>3. CASE ~MayAcquire(KindOf(Doing(t)))
    <3>1. Return(t) \/ \E p : Goto(t, p)
      BY <1>6, <2>3 DEF Acquire
    <3>2. /\ \A u \in Threads \ {t} : req'[u] = req[u]
          /\ req'[t].has \in {req[t].has, "none"}
      BY <3>1, Writes DEF Idle
    <3>. QED
      BY <1>6, <2>3, <3>2, LessHeld, HoldsAfter DEF Acquire
  <2>. QED
    BY <2>2, <2>3
<1>7. ASSUME NEW t \in Threads, Admin(t) PROVE Guarded'
  <2>1. CASE MayAcquire("admin")
    BY <1>4, <1>7, <2>1, KindsOfOps DEF Admin
  <2>2. CASE ~MayAcquire("admin")
    BY <1>7, <2>2, LessHeld, HoldsAfter, Writes DEF Admin
  <2>. QED
    BY <2>1, <2>2
<1>8. ASSUME NEW t \in Threads, Leave(t) \/ Unadmin(t) PROVE Guarded'
  <2>1. PICK k \in Kinds : guard' = Released(k) /\ Touch(t, k) /\ UNCHANGED stream
    BY <1>8, KindsOfOps, HelperTypes DEF Leave, Unadmin
  <2>2. req'[t].has = "none" /\ \A u \in Threads \ {t} : req'[u] = req[u]
    <3>1. Return(t) \/ \E p : GotoWith(t, p, "none")
      BY <1>8 DEF Leave, Unadmin
    <3>2. CASE Return(t)
      BY <3>2, Writes DEF Idle
    <3>3. CASE \E p : GotoWith(t, p, "none")
      BY <3>3, Writes
    <3>. QED
      BY <3>1, <3>2, <3>3
  <2>. QED
    BY <1>5, <2>1, <2>2
<1>9. ASSUME NEW t \in Threads, HoldBegin(t) \/ ReleaseBegin(t) \/ AbortBegin(t)
      PROVE  Guarded'
  <2>1. /\ req'[t].has = "none" /\ \A u \in Threads \ {t} : req'[u] = req[u]
        /\ UNCHANGED stream /\ \E s : Preempt(t, s)
    BY <1>9, Writes DEF HoldBegin, ReleaseBegin, AbortBegin, Preempt
  <2>. QED
    BY <1>3, <2>1, NoneHeld, HoldsAfter
<1>10. ASSUME NEW t \in Threads, HoldForce(t) \/ Reset(t) PROVE Guarded'
  <2>1. req[t].has = "none"
    BY <1>10, HelperTypes DEF HoldForce, Reset, StageOK, At
  <2>2. /\ req'[t].has = "none" /\ \A u \in Threads \ {t} : req'[u] = req[u]
        /\ Touch(t, "all") /\ (stream'.armed => stream.armed)
    BY <1>10, <2>1, Writes, OtherWrites DEF HoldForce, Reset, Idle
  <2>. QED
    BY <1>3, <2>2, NoneHeld, HoldsAfter
<1>11. ASSUME NEW t \in Threads, JogStart(t) PROVE Guarded'
  <2>1. req[t].has = "cartesian"
    BY <1>11, HelperTypes DEF JogStart, StageOK, At
  <2>2. req'[t].has = "none" /\ \A u \in Threads \ {t} : req'[u] = req[u]
    BY <1>11, Writes DEF JogStart, Idle
  <2>3. /\ Holds(t) = "cartesian" /\ Holds(t)' = "none"
        /\ \A u \in Threads \ {t} : Holds(u)' = Holds(u)
    BY <2>1, <2>2, HoldsAfter
  <2>4. guard' = guard /\ Holds(Stream)' \in {"cartesian", "none"}
    BY <1>11, HoldsAfter DEF JogStart
  <2>5. CASE t \in ghost.overrun
    <3>1. ghost'.overrun = (ghost.overrun \ {t}) \cup {Stream}
      BY <1>1, <1>11, <2>5 DEF JogStart, GhostSet
    <3>. QED
      BY <2>3, <2>4, <3>1, HoldsAfter DEF Guarded
  <2>6. CASE t \notin ghost.overrun
    <3>1. ghost'.overrun = ghost.overrun \ {Stream}
      BY <1>1, <1>11, <2>6 DEF JogStart, GhostSet
    <3>2. guard.kind = "cartesian"
          /\ \A n \in (Movers \ ghost.overrun) \ {t} : Holds(n) = "none"
      BY <2>3, <2>6, HoldsAfter DEF Guarded
    <3>. QED
      BY <2>3, <2>4, <3>1, <3>2, HoldsAfter DEF Guarded
  <2>. QED
    BY <2>5, <2>6
<1>12. ASSUME NEW t \in Threads, HoldEnd(t) PROVE Guarded'
  <2>1. \A u \in Threads : req'[u].has \in {req[u].has, "none"}
    BY <1>1, <1>12 DEF HoldEnd, AfterHold, Request, Idle
  <2>2. guard'.kind = guard.kind /\ ghost'.overrun = ghost.overrun /\ UNCHANGED stream
    BY <1>1, <1>12 DEF HoldEnd, PreemptEnded, GuardSet, GhostSet
  <2>. QED
    BY <2>1, <2>2, LessHeld, HoldsAfter
<1>13. CASE StreamStep
  <2>1. guard' = guard /\ req' = req /\ ghost'.overrun = ghost.overrun
    BY <1>13, OtherWrites DEF StreamStep, StreamTop, StreamReady, StreamSend, StreamFailed,
       bus
  <2>2. stream'.armed => stream.armed
    BY <1>1, <1>13, OtherWrites DEF StreamStep, StreamTop, StreamReady, StreamSend,
       StreamFailed, StreamSet
  <2>. QED
    BY <2>1, <2>2, LessHeld, HoldsAfter
<1>14. CASE SetBatteryLock
  <2>1. req' = req /\ stream' = stream
    BY <1>14 DEF SetBatteryLock
  <2>2. \A m \in Movers \ ghost'.overrun : Holds(m) = "none"
    BY <1>1, <1>14 DEF SetBatteryLock, GhostSet
  <2>. QED
    BY <2>1, <2>2, NoneHeld, HoldsAfter
<1>15. CASE ClearBatteryLock \/ BatteryOverride \/ UNCHANGED vars
  <2>1. req' = req /\ stream' = stream /\ ghost' = ghost /\ guard'.kind = guard.kind
    BY <1>1, <1>15 DEF ClearBatteryLock, BatteryOverride, vars, bus, GuardSet
  <2>. QED
    BY <2>1, LessHeld, HoldsAfter
<1>. QED
  BY <1>2, <1>6, <1>7, <1>8, <1>9, <1>10, <1>11, <1>12, <1>13, <1>14, <1>15, QuietSteps
     DEF Next, Arrive, Serve, Battery

\* Of any number of threads and the jog thread, at most one of those whose kind
\* nobody took or dropped moves the arm under the guard, whatever was overrun
\* before (motion_guard.try_acquire with all its callers).
THEOREM OneMover == Spec => []Exclusive
<1>1. Init => Guarded
  BY MotionAssumption DEF Init, Guarded, Holds, Movers, Idle
<1>2. Guarded => Exclusive
  BY DEF Guarded, Exclusive
<1>. QED
  BY <1>1, <1>2, GuardedStep, StagedInvariant, PTL DEF Spec

-----------------------------------------------------------------------------
(* What a step sends.                                                      *)

\* The batches a request at pc sends before it looks at the preemption again,
\* those of its handler left out.
Ahead(op, pc) ==
    IF pc \in {"near", "nearhold"} THEN (IF op = "run" THEN 3 ELSE 2)
    ELSE IF pc \in {"there", "therehold", "send"} THEN (IF op = "run" THEN 2 ELSE 1)
    ELSE IF pc = "inside" /\ op = "zero" THEN 2
    ELSE IF \/ pc \in {"ask", "admin", "power", "pose", "tsend", "folded", "reset",
                       "rest", "resthold"}
            \/ pc = "inside" /\ op \in {"jog", "jogkeep"}
            \/ pc = "halt" /\ op = "cend"
            \/ pc \in {"leave", "unplane"} /\ op = "jend"
            \/ /\ op = "run"
               /\ pc \notin {"idle", "powered", "unpowered", "refused", "acquire", "leave"}
         THEN 1 ELSE 0

\* The batches sent late stay as they are or m sends one more.
SameLate == ghost'.late = ghost.late
OneMore(m) ==
    /\ Preempted /\ (m = Stream \/ ~Handling(m))
    /\ ghost'.late = [ghost.late EXCEPT ![m] = @ + 1]

\* t is done, or goes on with no more ahead of it, or the arm is not preempted.
Less(t) ==
    \/ req'[t] = Idle
    \/ /\ req'[t].op = req[t].op
       /\ Ahead(req[t].op, req'[t].pc) <= Ahead(req[t].op, req[t].pc) \/ ~Preempted

\* A step of t that begins and ends no preemption: t comes in, or goes on with no
\* more ahead of it; and with less when it sends.
Sober(t) ==
    /\ \A u \in Threads \ {t} : req'[u] = req[u]
    /\ guard'.preempt = guard.preempt
    /\ stream'.pc = stream.pc
    /\ \/ ghost'.late = [ghost.late EXCEPT ![t] = 0]
       \/ SameLate /\ Less(t)
       \/ /\ OneMore(t)
          /\ \/ req'[t] = Idle
             \/ /\ req'[t].op = req[t].op
                /\ Ahead(req[t].op, req'[t].pc) < Ahead(req[t].op, req[t].pc)

\* A step of t that leaves the arm coupled and holds nothing.
Coupling(t) ==
    /\ \A u \in Threads \ {t} : req'[u] = req[u]
    /\ req'[t].pc \notin {"soft", "held"}
    /\ arm => arm'
    /\ ghost'.undone = ghost.undone

\* Nobody has more ahead of it than its request may send.
LEMMA AheadBound ==
    ASSUME NEW op, NEW pc, NEW has, StageOK(op, pc, has)
    PROVE  Ahead(op, pc) \in 0..3 /\ Ahead(op, pc) <= Unlooked(op)
  BY DEF Ahead, Unlooked, StageOK

\* What a request has ahead of it is a number.
LEMMA AheadTypes == \A op, pc : Ahead(op, pc) \in 0..3
  BY DEF Ahead

LEMMA UnlookedTypes == \A op : Unlooked(op) \in 1..3
  BY DEF Unlooked

\* What reaches the arm, and what is counted of it.
LEMMA Publishes ==
    ASSUME StagedTypes, NEW m \in Movers, NEW what,
           Publish(m, what) \/ PublishOk(m, what) \/ PublishFails(m, what)
    PROVE  /\ SameLate \/ OneMore(m)
           /\ what # "release" => (arm => arm') /\ ghost'.undone = ghost.undone
           /\ PublishOk(m, "couple") => arm'
           /\ what = "release" =>
                 /\ ghost.undone \subseteq ghost'.undone
                 /\ \/ arm' = arm
                    \/ \A u \in Threads \ {m} : Handling(u) => u \in ghost'.undone
<1>1. ghost \in GhostSet /\ arm \in BOOLEAN
  BY Parts
<1>2. ghost = [late |-> ghost.late, undone |-> ghost.undone, overrun |-> ghost.overrun]
      /\ ghost.late \in [Movers -> 0..4]
  BY <1>1 DEF GhostSet
<1>3. ASSUME NEW w, Reaches(m, w)
      PROVE  /\ w = "couple" => arm'
             /\ w # "release" => (arm => arm')
             /\ ghost'.late = LateAfter(m) /\ ghost'.undone = UndoneAfter(m, w)
  BY <1>2, <1>3 DEF Reaches
<1>4. ASSUME UNCHANGED <<arm, ghost>>
      PROVE  arm' = arm /\ SameLate /\ ghost'.undone = ghost.undone
  BY <1>4 DEF SameLate
<1>5. ASSUME Reaches(m, what)
      PROVE  /\ SameLate \/ OneMore(m)
             /\ what # "release" => ghost'.undone = ghost.undone
             /\ what = "release" =>
                   /\ ghost.undone \subseteq ghost'.undone
                   /\ \A u \in Threads \ {m} : Handling(u) => u \in ghost'.undone
  BY <1>3, <1>5 DEF LateAfter, UndoneAfter, SameLate, OneMore
<1>6. PublishOk(m, "couple") => arm'
  BY <1>3 DEF PublishOk
<1>. QED
  BY <1>3, <1>4, <1>5, <1>6 DEF Publish, PublishOk, PublishFails

\* What else the actions are built from leaves alone.
LEMMA Leaves ==
    ASSUME StagedTypes
    PROVE  /\ \A t \in Threads : \A k : Touch(t, k) => SameLate /\ ghost'.undone = ghost.undone
           /\ \A t \in Threads : \A op, p : Enter(t, op, p) =>
                 /\ ghost'.late = [ghost.late EXCEPT ![t] = 0]
                 /\ ghost'.undone = ghost.undone /\ UNCHANGED arm
                 /\ Begin(t, op, p)
           /\ UNCHANGED ghost => SameLate /\ ghost'.undone = ghost.undone
           /\ Halt => stream'.pc = stream.pc
           /\ \A a : stream' = [stream EXCEPT !.running = a] => stream'.pc = stream.pc
           /\ \A a, b : stream' = [stream EXCEPT !.armed = a, !.running = b]
                           => stream'.pc = stream.pc
           /\ \A k : guard' \in {Acquired(k), Released(k), Claimed(k), Unclaimed(k), Forced}
                        => guard'.preempt = guard.preempt
<1>1. ghost \in GhostSet /\ stream \in StreamSet /\ guard \in GuardSet
  BY Parts
<1>2. ASSUME NEW t \in Threads, NEW k, Touch(t, k)
      PROVE  SameLate /\ ghost'.undone = ghost.undone
  BY <1>1, <1>2 DEF Touch, GhostSet, SameLate
<1>3. ASSUME NEW a, NEW b, \/ stream' = [stream EXCEPT !.armed = a, !.running = b]
                           \/ stream' = [stream EXCEPT !.running = b]
      PROVE  stream'.pc = stream.pc
  BY <1>1, <1>3 DEF StreamSet
<1>4. ASSUME NEW k, guard' \in {Acquired(k), Released(k), Claimed(k), Unclaimed(k), Forced}
      PROVE  guard'.preempt = guard.preempt
  BY <1>1, <1>4 DEF GuardSet, Acquired, Released, Claimed, Unclaimed, Forced
<1>5. ASSUME NEW t \in Threads, NEW op, NEW p, Enter(t, op, p)
      PROVE  /\ ghost'.late = [ghost.late EXCEPT ![t] = 0]
             /\ ghost'.undone = ghost.undone /\ UNCHANGED arm
             /\ Begin(t, op, p)
  BY <1>1, <1>5 DEF Enter, GhostSet
<1>. QED
  BY <1>2, <1>3, <1>4, <1>5 DEF Halt, SameLate

\* Where a step of t that is neither goes.
Moves(t, p) ==
    /\ \A u \in Threads \ {t} : req'[u] = req[u]
    /\ req'[t].op = req[t].op /\ req'[t].pc = p
Done(t) == req'[t] = Idle /\ \A u \in Threads \ {t} : req'[u] = req[u]

LEMMA Goes ==
    ASSUME StagedTypes, NEW t \in Threads
    PROVE  /\ \A p : Goto(t, p) => Moves(t, p)
           /\ \A p, k : GotoWith(t, p, k) => Moves(t, p)
           /\ Return(t) => Done(t)
  BY Writes DEF Moves, Done

\* A pose that is done with leaves less ahead.
LEMMA PosesDone ==
    ASSUME StagedTypes, NEW t \in Threads, PoseDone(t)
    PROVE  \/ Done(t)
           \/ \E p \in {"there", "next", "leave"} :
                 /\ Moves(t, p)
                 /\ Ahead(req[t].op, p) < Ahead(req[t].op, req[t].pc)
<1>1. CASE Near(t)
  <2>1. Moves(t, "there")
    BY <1>1, Goes DEF PoseDone, Near, There, Ended, Rests
  <2>2. Ahead(req[t].op, "there") < Ahead(req[t].op, req[t].pc)
    BY <1>1 DEF Near, Ahead
  <2>. QED
    BY <2>1, <2>2
<1>2. CASE There(t)
  <2>1. Moves(t, IF Doing(t) = "run" THEN "next" ELSE "leave")
    BY <1>2, Goes DEF PoseDone, Near, There, Ended, Rests
  <2>2. req[t].op \in {"run", "move"}
    BY <1>2, HelperTypes DEF There, StageOK, Doing
  <2>3. /\ req[t].op = "run" => Ahead(req[t].op, "next") < Ahead(req[t].op, req[t].pc)
        /\ req[t].op = "move" => Ahead(req[t].op, "leave") < Ahead(req[t].op, req[t].pc)
    BY <1>2 DEF There, Ahead
  <2>. QED
    BY <2>1, <2>2, <2>3 DEF Doing
<1>3. CASE Ended(t)
  <2>1. Moves(t, "leave") /\ req[t].op = "run"
    BY <1>3, Goes, HelperTypes DEF PoseDone, Near, There, Ended, Rests, StageOK, Doing
  <2>2. Ahead(req[t].op, "leave") < Ahead(req[t].op, req[t].pc)
    BY <1>3, <2>1 DEF Ended, Ahead
  <2>. QED
    BY <2>1, <2>2
<1>4. CASE Rests(t)
  <2>1. Done(t) \/ (Moves(t, "leave") /\ req[t].op = "cend")
    BY <1>4, Goes DEF PoseDone, Near, There, Ended, Rests, Doing
  <2>2. req[t].op = "cend" => Ahead(req[t].op, "leave") < Ahead(req[t].op, req[t].pc)
    BY <1>4 DEF Rests, Ahead
  <2>. QED
    BY <2>1, <2>2
<1>. QED
  BY <1>1, <1>2, <1>3, <1>4 DEF PoseDone

\* Most steps of a thread do both.
LEMMA SoberSteps ==
    ASSUME StagedTypes, NEW t \in Threads,
           \/ CoupleBegin(t) \/ JointBegin(t) \/ JointEnd(t) \/ Jog(t)
           \/ JogInSession(t) \/ CartesianBegin(t) \/ CartesianEnd(t) \/ TcpBegin(t)
           \/ ZeroBegin(t) \/ ResetBegin(t) \/ MaintainBegin(t) \/ MoveBegin(t)
           \/ RunBegin(t) \/ Acquire(t) \/ Leave(t) \/ Admin(t) \/ Unadmin(t)
           \/ Reset(t) \/ Claim(t) \/ Unplane(t) \/ Ask(t) \/ Refused(t)
           \/ JogReady(t) \/ CartesianReady(t) \/ JogStart(t) \/ CartesianHalt(t)
           \/ TcpReady(t) \/ TcpCheck(t) \/ Power(t) \/ JogPose(t) \/ TcpSend(t)
           \/ ZeroFold(t) \/ ZeroHold(t) \/ PoseAsked(t) \/ PoseSent(t)
           \/ HoldStop(t) \/ HoldForce(t) \/ MoveStart(t) \/ RunClear(t)
           \/ RunNext(t) \/ MoveReady(t) \/ MoveCheck(t) \/ MoveSend(t)
           \/ MoveSent(t) \/ MoveSettled(t) \/ MoveWaited(t) \/ RunEnding(t)
    PROVE  Sober(t) /\ Coupling(t)
<1>. t \in Movers
  BY DEF Movers
<1>1. CASE \/ CoupleBegin(t) \/ JointBegin(t) \/ JointEnd(t) \/ Jog(t)
           \/ JogInSession(t) \/ CartesianBegin(t) \/ CartesianEnd(t)
           \/ TcpBegin(t) \/ ZeroBegin(t) \/ ResetBegin(t)
           \/ MaintainBegin(t) \/ MoveBegin(t) \/ RunBegin(t)
  <2>1. \E op \in AllOps, p \in Steps \ {"soft", "held"} : Enter(t, op, p)
    BY <1>1, StepNames DEF AllOps, CoupleBegin, JointBegin, JointEnd, Jog, JogInSession,
       CartesianBegin, CartesianEnd, TcpBegin, ZeroBegin, ResetBegin, MaintainBegin,
       MoveBegin, RunBegin
  <2>2. guard' = guard /\ stream'.pc = stream.pc
    BY <1>1, Leaves DEF CoupleBegin, JointBegin, JointEnd, Jog, JogInSession, CartesianBegin,
       CartesianEnd, TcpBegin, ZeroBegin, ResetBegin, MaintainBegin, MoveBegin, RunBegin
  <2>3. PICK op \in AllOps, p \in Steps \ {"soft", "held"} : Enter(t, op, p)
    BY <2>1
  <2>4. /\ ghost'.late = [ghost.late EXCEPT ![t] = 0]
        /\ ghost'.undone = ghost.undone /\ UNCHANGED arm
        /\ Begin(t, op, p)
    BY <2>3, Leaves
  <2>5. req'[t].pc = p /\ \A u \in Threads \ {t} : req'[u] = req[u]
    BY <2>4, Writes
  <2>. QED
    BY <2>2, <2>4, <2>5 DEF Sober, Coupling
<1>2. CASE Acquire(t) \/ Leave(t) \/ Admin(t) \/ Unadmin(t) \/ Reset(t)
  <2>1. CASE Acquire(t)
    <3>1. /\ SameLate /\ ghost'.undone = ghost.undone /\ UNCHANGED <<arm, stream>>
          /\ guard'.preempt = guard.preempt
      BY <2>1, Leaves DEF Acquire
    <3>2. Doing(t) \in AllOps \ {"hold", "release", "jogkeep"} /\ req[t].pc = "acquire"
      BY <2>1, HelperTypes DEF Acquire, At, StageOK
    <3>3. CASE MayAcquire(KindOf(Doing(t)))
      <4>1. Moves(t, AfterAcquire(Doing(t)))
        BY <2>1, <3>3, Goes DEF Acquire
      <4>2. AfterAcquire(Doing(t)) \in {"ask", "flag", "halt", "clear", "inside"}
        BY DEF AfterAcquire
      <4>3. ~Preempted \/ Doing(t) \in {"couple", "reset", "maintain"}
        BY <3>2, <3>3 DEF MayAcquire, KindOf, AllOps
      <4>4. Doing(t) \in {"couple", "reset", "maintain"} =>
               Ahead(Doing(t), AfterAcquire(Doing(t))) = 0
        BY DEF AfterAcquire, Ahead
      <4>5. Less(t)
        BY <4>1, <4>3, <4>4, AheadTypes DEF Less, Doing, Moves
      <4>. QED
        BY <3>1, <4>1, <4>2, <4>5 DEF Sober, Coupling, Moves
    <3>4. CASE ~MayAcquire(KindOf(Doing(t)))
      <4>1. Done(t) \/ (Moves(t, "unplane") /\ Doing(t) \in {"jbegin", "cbegin", "tcp"})
        BY <2>1, <3>4, Goes DEF Acquire
      <4>2. Doing(t) \in {"jbegin", "cbegin", "tcp"} =>
               Ahead(req[t].op, "unplane") <= Ahead(req[t].op, req[t].pc)
        BY <3>2 DEF Ahead, Doing
      <4>. QED
        BY <3>1, <4>1, <4>2 DEF Sober, Coupling, Less, Moves, Done, Idle
    <3>. QED
      BY <3>3, <3>4
  <2>2. CASE Leave(t)
    <3>1. /\ SameLate /\ ghost'.undone = ghost.undone /\ UNCHANGED arm
          /\ guard'.preempt = guard.preempt /\ stream'.pc = stream.pc
      BY <2>2, Leaves DEF Leave, bus
    <3>2. Done(t) \/ (Moves(t, "unplane") /\ Doing(t) \in {"tcp", "cbegin", "cend", "jend"})
      BY <2>2, Goes DEF Leave, Doing
    <3>3. Doing(t) \in {"tcp", "cbegin", "cend", "jend"} => Ahead(req[t].op, "unplane") <= Ahead(req[t].op, req[t].pc)
      BY <2>2 DEF Leave, Ahead, At, Doing
    <3>. QED
      BY <3>1, <3>2, <3>3 DEF Sober, Coupling, Less, Moves, Done, Idle
  <2>3. CASE Admin(t)
    <3>1. /\ SameLate /\ ghost'.undone = ghost.undone /\ UNCHANGED arm
          /\ guard'.preempt = guard.preempt /\ stream'.pc = stream.pc
      BY <2>3, Leaves DEF Admin, bus
    <3>2. Moves(t, "power") \/ Moves(t, "refused")
      BY <2>3, Goes DEF Admin, Doing
    <3>3. /\ Ahead(req[t].op, "power") <= Ahead(req[t].op, req[t].pc)
          /\ Ahead(req[t].op, "refused") <= Ahead(req[t].op, req[t].pc)
      BY <2>3, HelperTypes DEF Admin, Ahead, StageOK, At, Doing
    <3>. QED
      BY <3>1, <3>2, <3>3 DEF Sober, Coupling, Less, Moves, Done, Idle
  <2>4. CASE Unadmin(t)
    <3>1. /\ SameLate /\ ghost'.undone = ghost.undone /\ UNCHANGED arm
          /\ guard'.preempt = guard.preempt /\ stream'.pc = stream.pc
      BY <2>4, Leaves DEF Unadmin, bus
    <3>2. Done(t) \/ Moves(t, "acquire")
      BY <2>4, Goes DEF Unadmin, Doing
    <3>3. Ahead(req[t].op, "acquire") <= Ahead(req[t].op, req[t].pc)
      BY <2>4, HelperTypes DEF Unadmin, Ahead, StageOK, At, Doing
    <3>. QED
      BY <3>1, <3>2, <3>3 DEF Sober, Coupling, Less, Moves, Done, Idle
  <2>5. CASE Reset(t)
    <3>1. /\ SameLate /\ ghost'.undone = ghost.undone /\ UNCHANGED arm
          /\ guard'.preempt = guard.preempt /\ stream'.pc = stream.pc
      BY <2>5, Leaves DEF Reset, bus
    <3>2. Done(t) \/ Moves(t, "rest")
      BY <2>5, Goes DEF Reset, Doing
    <3>3. Ahead(req[t].op, "rest") <= Ahead(req[t].op, req[t].pc)
      BY <2>5, HelperTypes DEF Reset, Ahead, StageOK, At, Doing
    <3>. QED
      BY <3>1, <3>2, <3>3 DEF Sober, Coupling, Less, Moves, Done, Idle
  <2>. QED
    BY <1>2, <2>1, <2>2, <2>3, <2>4, <2>5
<1>3. CASE Claim(t) \/ Unplane(t) \/ Ask(t) \/ Refused(t)
  <2>1. CASE Claim(t)
    <3>1. /\ SameLate /\ ghost'.undone = ghost.undone /\ UNCHANGED arm
          /\ guard'.preempt = guard.preempt /\ stream'.pc = stream.pc
      BY <2>1, Leaves DEF Claim, bus
    <3>2. Done(t) \/ Moves(t, "acquire")
      BY <2>1, Goes DEF Claim, Doing
    <3>3. Ahead(req[t].op, "acquire") <= Ahead(req[t].op, req[t].pc)
      BY <2>1, HelperTypes DEF Claim, Ahead, StageOK, At, Doing
    <3>. QED
      BY <3>1, <3>2, <3>3 DEF Sober, Coupling, Less, Moves, Done, Idle
  <2>2. CASE Unplane(t)
    <3>1. /\ SameLate /\ ghost'.undone = ghost.undone /\ UNCHANGED arm
          /\ guard'.preempt = guard.preempt /\ stream'.pc = stream.pc
      BY <2>2, Leaves DEF Unplane, bus
    <3>2. Done(t) \/ (Moves(t, "rest") /\ Doing(t) = "jend")
      BY <2>2, Goes DEF Unplane, Doing
    <3>3. Doing(t) = "jend" => Ahead(req[t].op, "rest") <= Ahead(req[t].op, req[t].pc)
      BY <2>2 DEF Unplane, Ahead, At, Doing
    <3>. QED
      BY <3>1, <3>2, <3>3 DEF Sober, Coupling, Less, Moves, Done, Idle
  <2>3. CASE Ask(t)
    <3>1. /\ SameLate /\ ghost'.undone = ghost.undone /\ UNCHANGED arm
          /\ guard'.preempt = guard.preempt /\ stream'.pc = stream.pc
      BY <2>3, Leaves DEF Ask, bus
    <3>2. Done(t) \/ Moves(t, "acquire") \/ Moves(t, "admin")
      BY <2>3, Goes DEF Ask, Doing
    <3>3. /\ Ahead(req[t].op, "acquire") <= Ahead(req[t].op, req[t].pc)
          /\ Ahead(req[t].op, "admin") <= Ahead(req[t].op, req[t].pc)
      BY <2>3, HelperTypes DEF Ask, Ahead, StageOK, At, Doing
    <3>. QED
      BY <3>1, <3>2, <3>3 DEF Sober, Coupling, Less, Moves, Done, Idle
  <2>4. CASE Refused(t)
    <3>1. /\ SameLate /\ ghost'.undone = ghost.undone /\ UNCHANGED arm
          /\ guard'.preempt = guard.preempt /\ stream'.pc = stream.pc
      BY <2>4, Leaves DEF Refused, bus
    <3>2. Done(t)
      BY <2>4, Goes DEF Refused, Doing
    <3>. QED
      BY <3>1, <3>2 DEF Sober, Coupling, Less, Moves, Done, Idle
  <2>. QED
    BY <1>3, <2>1, <2>2, <2>3, <2>4
<1>4. CASE \/ JogReady(t) \/ CartesianReady(t) \/ JogStart(t)
           \/ CartesianHalt(t) \/ TcpReady(t) \/ TcpCheck(t)
  <2>1. CASE JogReady(t)
    <3>1. /\ SameLate /\ ghost'.undone = ghost.undone /\ UNCHANGED arm
          /\ guard'.preempt = guard.preempt /\ stream'.pc = stream.pc
      BY <2>1, Leaves DEF JogReady, bus
    <3>2. Done(t) \/ Moves(t, "pose") \/ Moves(t, "leave")
      BY <2>1, Goes DEF JogReady, Doing
    <3>3. /\ Ahead(req[t].op, "pose") <= Ahead(req[t].op, req[t].pc)
          /\ Ahead(req[t].op, "leave") <= Ahead(req[t].op, req[t].pc)
      BY <2>1, HelperTypes DEF JogReady, Ahead, StageOK, At, Doing
    <3>. QED
      BY <3>1, <3>2, <3>3 DEF Sober, Coupling, Less, Moves, Done, Idle
  <2>2. CASE CartesianReady(t)
    <3>1. /\ SameLate /\ ghost'.undone = ghost.undone /\ UNCHANGED arm
          /\ guard'.preempt = guard.preempt /\ stream'.pc = stream.pc
      BY <2>2, Leaves DEF CartesianReady, bus
    <3>2. Moves(t, "arm") \/ Moves(t, "leave")
      BY <2>2, Goes DEF CartesianReady, Doing
    <3>3. /\ Ahead(req[t].op, "arm") <= Ahead(req[t].op, req[t].pc)
          /\ Ahead(req[t].op, "leave") <= Ahead(req[t].op, req[t].pc)
      BY <2>2, HelperTypes DEF CartesianReady, Ahead, StageOK, At, Doing
    <3>. QED
      BY <3>1, <3>2, <3>3 DEF Sober, Coupling, Less, Moves, Done, Idle
  <2>3. CASE JogStart(t)
    <3>1. /\ SameLate /\ ghost'.undone = ghost.undone /\ UNCHANGED arm
          /\ guard'.preempt = guard.preempt /\ stream'.pc = stream.pc
      BY <2>3, Parts DEF JogStart, SameLate, GhostSet, StreamSet
    <3>2. Done(t)
      BY <2>3, Goes DEF JogStart, Doing
    <3>. QED
      BY <3>1, <3>2 DEF Sober, Coupling, Less, Moves, Done, Idle
  <2>4. CASE CartesianHalt(t)
    <3>1. /\ SameLate /\ ghost'.undone = ghost.undone /\ UNCHANGED arm
          /\ guard'.preempt = guard.preempt /\ stream'.pc = stream.pc
      BY <2>4, Leaves DEF CartesianHalt, bus
    <3>2. Moves(t, "rest")
      BY <2>4, Goes DEF CartesianHalt, Doing
    <3>3. Ahead(req[t].op, "rest") <= Ahead(req[t].op, req[t].pc)
      BY <2>4, HelperTypes DEF CartesianHalt, Ahead, StageOK, At, Doing
    <3>. QED
      BY <3>1, <3>2, <3>3 DEF Sober, Coupling, Less, Moves, Done, Idle
  <2>5. CASE TcpReady(t)
    <3>1. /\ SameLate /\ ghost'.undone = ghost.undone /\ UNCHANGED arm
          /\ guard'.preempt = guard.preempt /\ stream'.pc = stream.pc
      BY <2>5, Leaves DEF TcpReady, bus
    <3>2. Moves(t, "tcheck") \/ Moves(t, "leave")
      BY <2>5, Goes DEF TcpReady, Doing
    <3>3. /\ Ahead(req[t].op, "tcheck") <= Ahead(req[t].op, req[t].pc)
          /\ Ahead(req[t].op, "leave") <= Ahead(req[t].op, req[t].pc)
      BY <2>5, HelperTypes DEF TcpReady, Ahead, StageOK, At, Doing
    <3>. QED
      BY <3>1, <3>2, <3>3 DEF Sober, Coupling, Less, Moves, Done, Idle
  <2>6. CASE TcpCheck(t)
    <3>1. /\ SameLate /\ ghost'.undone = ghost.undone /\ UNCHANGED arm
          /\ guard'.preempt = guard.preempt /\ stream'.pc = stream.pc
      BY <2>6, Leaves DEF TcpCheck, bus
    <3>2. Moves(t, "leave") \/ (Moves(t, "tsend") /\ ~Preempted)
      BY <2>6, Goes DEF TcpCheck, Doing
    <3>3. Ahead(req[t].op, "leave") <= Ahead(req[t].op, req[t].pc)
      BY <2>6, HelperTypes DEF TcpCheck, Ahead, StageOK, At, Doing
    <3>. QED
      BY <3>1, <3>2, <3>3 DEF Sober, Coupling, Less, Moves, Done, Idle
  <2>. QED
    BY <1>4, <2>1, <2>2, <2>3, <2>4, <2>5, <2>6
<1>5. CASE Power(t) \/ JogPose(t) \/ TcpSend(t) \/ PoseSent(t)
  <2>1. CASE Power(t)
    <3>1. Publish(t, "couple") /\ UNCHANGED guard /\ stream'.pc = stream.pc
      BY <2>1, Leaves DEF Power, Publish
    <3>2. Moves(t, "powered") \/ Moves(t, "unpowered")
      BY <2>1, Goes DEF Power, Doing
    <3>3. /\ Ahead(req[t].op, "powered") < Ahead(req[t].op, req[t].pc)
          /\ Ahead(req[t].op, "unpowered") < Ahead(req[t].op, req[t].pc)
      BY <2>1, HelperTypes DEF Power, Ahead, StageOK, At, Doing
    <3>. QED
      BY <3>1, <3>2, <3>3, Publishes, AheadTypes DEF Sober, Coupling, Less, Moves, Done, Idle
  <2>2. CASE JogPose(t)
    <3>1. Publish(t, "motion") /\ UNCHANGED guard /\ stream'.pc = stream.pc
      BY <2>2, Leaves DEF JogPose, Publish
    <3>2. Done(t) \/ (Moves(t, "leave") /\ Doing(t) = "jog")
      BY <2>2, Goes DEF JogPose, Doing
    <3>3. Doing(t) = "jog" => Ahead(req[t].op, "leave") < Ahead(req[t].op, req[t].pc)
      BY <2>2 DEF JogPose, Ahead, At, Doing
    <3>. QED
      BY <3>1, <3>2, <3>3, Publishes, AheadTypes DEF Sober, Coupling, Less, Moves, Done, Idle
  <2>3. CASE TcpSend(t)
    <3>1. Publish(t, "motion") /\ UNCHANGED guard /\ stream'.pc = stream.pc
      BY <2>3, Leaves DEF TcpSend, Publish
    <3>2. Moves(t, "tcheck") \/ Moves(t, "leave")
      BY <2>3, Goes DEF TcpSend, Doing
    <3>3. /\ Ahead(req[t].op, "tcheck") < Ahead(req[t].op, req[t].pc)
          /\ Ahead(req[t].op, "leave") < Ahead(req[t].op, req[t].pc)
      BY <2>3, HelperTypes DEF TcpSend, Ahead, StageOK, At, Doing
    <3>. QED
      BY <3>1, <3>2, <3>3, Publishes, AheadTypes DEF Sober, Coupling, Less, Moves, Done, Idle
  <2>4. CASE PoseSent(t)
    <3>1. Publish(t, "pose") /\ UNCHANGED guard /\ stream'.pc = stream.pc
      BY <2>4 DEF PoseSent
    <3>2. PoseDone(t)
      BY <2>4 DEF PoseSent
    <3>. QED
      BY <3>1, <3>2, PosesDone, Publishes, AheadTypes
         DEF Sober, Coupling, Less, Moves, Done, Idle
  <2>. QED
    BY <1>5, <2>1, <2>2, <2>3, <2>4
<1>6. CASE ZeroFold(t) \/ ZeroHold(t)
  <2>1. CASE ZeroFold(t)
    <3>1. Publish(t, "motion") /\ UNCHANGED guard /\ stream'.pc = stream.pc
      BY <2>1, Leaves DEF ZeroFold, Publish
    <3>2. Moves(t, "folded")
      BY <2>1, Goes DEF ZeroFold, Doing
    <3>3. Ahead(req[t].op, "folded") < Ahead(req[t].op, req[t].pc)
      BY <2>1, HelperTypes DEF ZeroFold, Ahead, StageOK, At, Doing
    <3>. QED
      BY <3>1, <3>2, <3>3, Publishes, AheadTypes DEF Sober, Coupling, Less, Moves, Done, Idle
  <2>2. CASE ZeroHold(t)
    <3>1. /\ Publish(t, "couple") \/ UNCHANGED <<arm, ghost>>
          /\ UNCHANGED guard /\ stream'.pc = stream.pc
      BY <2>2, Leaves DEF ZeroHold
    <3>2. Moves(t, "leave")
      BY <2>2, Goes DEF ZeroHold, Doing
    <3>3. Ahead(req[t].op, "leave") < Ahead(req[t].op, req[t].pc)
      BY <2>2, HelperTypes DEF ZeroHold, Ahead, StageOK, At, Doing
    <3>. QED
      BY <3>1, <3>2, <3>3, Publishes, AheadTypes DEF Sober, Coupling, Less, Moves, Done, Idle, SameLate
  <2>. QED
    BY <1>6, <2>1, <2>2
<1>7. CASE HoldStop(t) \/ HoldForce(t) \/ PoseAsked(t)
  <2>1. CASE HoldStop(t)
    <3>1. /\ SameLate /\ ghost'.undone = ghost.undone /\ UNCHANGED arm
          /\ guard'.preempt = guard.preempt /\ stream'.pc = stream.pc
      BY <2>1, Leaves DEF HoldStop, bus
    <3>2. Moves(t, "force")
      BY <2>1, Goes DEF HoldStop, Doing
    <3>3. Ahead(req[t].op, "force") <= Ahead(req[t].op, req[t].pc)
      BY <2>1, HelperTypes DEF HoldStop, Ahead, StageOK, At, Doing
    <3>. QED
      BY <3>1, <3>2, <3>3 DEF Sober, Coupling, Less, Moves, Done, Idle
  <2>2. CASE HoldForce(t)
    <3>1. /\ SameLate /\ ghost'.undone = ghost.undone /\ UNCHANGED arm
          /\ guard'.preempt = guard.preempt /\ stream'.pc = stream.pc
      BY <2>2, Leaves DEF HoldForce, bus
    <3>2. Moves(t, "unpower") \/ Moves(t, "choose")
      BY <2>2, Goes DEF HoldForce, Doing
    <3>3. /\ Ahead(req[t].op, "unpower") <= Ahead(req[t].op, req[t].pc)
          /\ Ahead(req[t].op, "choose") <= Ahead(req[t].op, req[t].pc)
      BY <2>2, HelperTypes DEF HoldForce, Ahead, StageOK, At, Doing
    <3>. QED
      BY <3>1, <3>2, <3>3 DEF Sober, Coupling, Less, Moves, Done, Idle
  <2>3. CASE PoseAsked(t)
    <3>1. /\ SameLate /\ ghost'.undone = ghost.undone /\ UNCHANGED arm
          /\ guard'.preempt = guard.preempt /\ stream'.pc = stream.pc
      BY <2>3, Leaves DEF PoseAsked, bus
    <3>2. \/ At(t, "near") /\ (Moves(t, "nearhold") \/ Moves(t, "there"))
          \/ At(t, "there") /\ (Moves(t, "therehold") \/ PoseDone(t))
          \/ At(t, "ended") /\ (Moves(t, "endedhold") \/ Moves(t, "leave"))
          \/ At(t, "rest") /\ (Moves(t, "resthold") \/ PoseDone(t))
      BY <2>3, Goes DEF PoseAsked, PoseDone, Near, There, Ended, Rests, At
    <3>3. /\ Less(t) /\ req'[t].pc \notin {"soft", "held"}
          /\ \A u \in Threads \ {t} : req'[u] = req[u]
      <4>1. CASE At(t, "near")
        BY <3>2, <4>1 DEF Less, Moves, Ahead, At
      <4>2. CASE At(t, "ended")
        <5>1. req[t].op = "run"
          BY <4>2, HelperTypes DEF StageOK, Doing, At
        <5>. QED
          BY <3>2, <4>2, <5>1 DEF Less, Moves, Ahead, At
      <4>3. CASE At(t, "there") \/ At(t, "rest")
        <5>1. CASE At(t, "there") /\ Moves(t, "therehold")
          BY <5>1 DEF Less, Moves, Ahead, At
        <5>2. CASE At(t, "rest") /\ Moves(t, "resthold")
          BY <5>2 DEF Less, Moves, Ahead, At
        <5>3. CASE PoseDone(t)
          BY <4>3, <5>3, PosesDone, AheadTypes DEF Less, Moves, Done, Idle, At
        <5>. QED
          BY <3>2, <4>3, <5>1, <5>2, <5>3 DEF At
      <4>. QED
        BY <3>2, <4>1, <4>2, <4>3
    <3>. QED
      BY <3>1, <3>3 DEF Sober, Coupling
  <2>. QED
    BY <1>7, <2>1, <2>2, <2>3
<1>8. CASE \/ MoveStart(t) \/ RunClear(t) \/ RunNext(t) \/ MoveReady(t)
           \/ MoveCheck(t)
  <2>1. CASE MoveStart(t)
    <3>1. /\ SameLate /\ ghost'.undone = ghost.undone /\ UNCHANGED arm
          /\ guard'.preempt = guard.preempt /\ stream'.pc = stream.pc
      BY <2>1, Leaves DEF MoveStart, bus
    <3>2. Done(t) \/ (Moves(t, "ask") /\ ~Preempted)
      BY <2>1, Goes DEF MoveStart, Doing
    <3>. QED
      BY <3>1, <3>2 DEF Sober, Coupling, Less, Moves, Done, Idle
  <2>2. CASE RunClear(t)
    <3>1. /\ SameLate /\ ghost'.undone = ghost.undone /\ UNCHANGED arm
          /\ guard'.preempt = guard.preempt /\ stream'.pc = stream.pc
      BY <2>2, Leaves DEF RunClear, bus
    <3>2. Moves(t, "next")
      BY <2>2, Goes DEF RunClear, Doing
    <3>3. Ahead(req[t].op, "next") <= Ahead(req[t].op, req[t].pc)
      BY <2>2, HelperTypes DEF RunClear, Ahead, StageOK, At, Doing
    <3>. QED
      BY <3>1, <3>2, <3>3 DEF Sober, Coupling, Less, Moves, Done, Idle
  <2>3. CASE RunNext(t)
    <3>1. /\ SameLate /\ ghost'.undone = ghost.undone /\ UNCHANGED arm
          /\ guard'.preempt = guard.preempt /\ stream'.pc = stream.pc
      BY <2>3, Leaves DEF RunNext, bus
    <3>2. Moves(t, "ending") \/ Moves(t, "check")
      BY <2>3, Goes DEF RunNext, AskArm, Doing
    <3>3. /\ Ahead(req[t].op, "ending") <= Ahead(req[t].op, req[t].pc)
          /\ Ahead(req[t].op, "check") <= Ahead(req[t].op, req[t].pc)
      BY <2>3, HelperTypes DEF RunNext, Ahead, StageOK, At, Doing
    <3>. QED
      BY <3>1, <3>2, <3>3 DEF Sober, Coupling, Less, Moves, Done, Idle
  <2>4. CASE MoveReady(t)
    <3>1. /\ SameLate /\ ghost'.undone = ghost.undone /\ UNCHANGED arm
          /\ guard'.preempt = guard.preempt /\ stream'.pc = stream.pc
      BY <2>4, Leaves DEF MoveReady, bus
    <3>2. Moves(t, "leave") \/ Moves(t, "check")
      BY <2>4, Goes DEF MoveReady, Doing
    <3>3. /\ Ahead(req[t].op, "leave") <= Ahead(req[t].op, req[t].pc)
          /\ Ahead(req[t].op, "check") <= Ahead(req[t].op, req[t].pc)
      BY <2>4, HelperTypes DEF MoveReady, Ahead, StageOK, At, Doing
    <3>. QED
      BY <3>1, <3>2, <3>3 DEF Sober, Coupling, Less, Moves, Done, Idle
  <2>5. CASE MoveCheck(t)
    <3>1. /\ SameLate /\ ghost'.undone = ghost.undone /\ UNCHANGED arm
          /\ guard'.preempt = guard.preempt /\ stream'.pc = stream.pc
      BY <2>5, Leaves DEF MoveCheck, bus
    <3>2. Moves(t, "abort") \/ (Moves(t, "send") /\ ~Preempted)
      BY <2>5, Goes DEF MoveCheck, Interrupted, Doing
    <3>3. Ahead(req[t].op, "abort") <= Ahead(req[t].op, req[t].pc)
      BY <2>5, HelperTypes DEF MoveCheck, Ahead, StageOK, At, Doing
    <3>. QED
      BY <3>1, <3>2, <3>3 DEF Sober, Coupling, Less, Moves, Done, Idle
  <2>. QED
    BY <1>8, <2>1, <2>2, <2>3, <2>4, <2>5
<1>9. CASE \/ MoveSend(t) \/ MoveSent(t) \/ MoveSettled(t) \/ MoveWaited(t)
           \/ RunEnding(t)
  <2>1. CASE MoveSend(t)
    <3>1. Publish(t, "motion") /\ UNCHANGED guard /\ stream'.pc = stream.pc
      BY <2>1, Leaves DEF MoveSend, Publish
    <3>2. Moves(t, "sent") \/ Moves(t, "ending") \/ Moves(t, "leave")
      BY <2>1, Goes DEF MoveSend, GiveUp, Doing
    <3>3. /\ Ahead(req[t].op, "sent") < Ahead(req[t].op, req[t].pc)
          /\ Ahead(req[t].op, "ending") < Ahead(req[t].op, req[t].pc)
          /\ Ahead(req[t].op, "leave") < Ahead(req[t].op, req[t].pc)
      BY <2>1, HelperTypes DEF MoveSend, Ahead, StageOK, At, Doing
    <3>. QED
      BY <3>1, <3>2, <3>3, Publishes, AheadTypes DEF Sober, Coupling, Less, Moves, Done, Idle
  <2>2. CASE MoveSent(t)
    <3>1. /\ SameLate /\ ghost'.undone = ghost.undone /\ UNCHANGED arm
          /\ guard'.preempt = guard.preempt /\ stream'.pc = stream.pc
      BY <2>2, Leaves DEF MoveSent, bus
    <3>2. Moves(t, "abort") \/ Moves(t, "check") \/ Moves(t, "settle")
      BY <2>2, Goes DEF MoveSent, Doing
    <3>3. /\ Ahead(req[t].op, "abort") <= Ahead(req[t].op, req[t].pc)
          /\ Ahead(req[t].op, "check") <= Ahead(req[t].op, req[t].pc)
          /\ Ahead(req[t].op, "settle") <= Ahead(req[t].op, req[t].pc)
      BY <2>2, HelperTypes DEF MoveSent, Ahead, StageOK, At, Doing
    <3>. QED
      BY <3>1, <3>2, <3>3 DEF Sober, Coupling, Less, Moves, Done, Idle
  <2>3. CASE MoveSettled(t)
    <3>1. /\ SameLate /\ ghost'.undone = ghost.undone /\ UNCHANGED arm
          /\ guard'.preempt = guard.preempt /\ stream'.pc = stream.pc
      BY <2>3, Leaves DEF MoveSettled, bus
    <3>2. Moves(t, "abort") \/ Moves(t, "wait")
      BY <2>3, Goes DEF MoveSettled, Doing
    <3>3. /\ Ahead(req[t].op, "abort") <= Ahead(req[t].op, req[t].pc)
          /\ Ahead(req[t].op, "wait") <= Ahead(req[t].op, req[t].pc)
      BY <2>3, HelperTypes DEF MoveSettled, Ahead, StageOK, At, Doing
    <3>. QED
      BY <3>1, <3>2, <3>3 DEF Sober, Coupling, Less, Moves, Done, Idle
  <2>4. CASE MoveWaited(t)
    <3>1. /\ SameLate /\ ghost'.undone = ghost.undone /\ UNCHANGED arm
          /\ guard'.preempt = guard.preempt /\ stream'.pc = stream.pc
      BY <2>4, Leaves DEF MoveWaited, bus
    <3>2. Moves(t, "abort") \/ (Moves(t, "near") /\ ~Preempted)
      BY <2>4, Goes DEF MoveWaited, Interrupted, Doing
    <3>3. Ahead(req[t].op, "abort") <= Ahead(req[t].op, req[t].pc)
      BY <2>4, HelperTypes DEF MoveWaited, Ahead, StageOK, At, Doing
    <3>. QED
      BY <3>1, <3>2, <3>3 DEF Sober, Coupling, Less, Moves, Done, Idle
  <2>5. CASE RunEnding(t)
    <3>1. /\ SameLate /\ ghost'.undone = ghost.undone /\ UNCHANGED arm
          /\ guard'.preempt = guard.preempt /\ stream'.pc = stream.pc
      BY <2>5, Leaves DEF RunEnding, bus
    <3>2. Moves(t, "ended")
      BY <2>5, Goes DEF RunEnding, Doing
    <3>3. Ahead(req[t].op, "ended") <= Ahead(req[t].op, req[t].pc)
      BY <2>5, HelperTypes DEF RunEnding, Ahead, StageOK, At, Doing
    <3>. QED
      BY <3>1, <3>2, <3>3 DEF Sober, Coupling, Less, Moves, Done, Idle
  <2>. QED
    BY <1>9, <2>1, <2>2, <2>3, <2>4, <2>5
<1>. QED
  BY <1>1, <1>2, <1>3, <1>4, <1>5, <1>6, <1>7, <1>8, <1>9

-----------------------------------------------------------------------------
(* After a hold.                                                           *)

\* The soft hold of an abort holds what was coupled when it asked.
HeldCoupled ==
    \A t \in Threads : req[t].pc \in {"soft", "held"} => arm \/ t \in ghost.undone

\* Who sent how much since the arm was preempted, and has how much ahead of it.
Spent ==
    /\ ~Preempted => \A m \in Movers : ghost.late[m] = 0
    /\ \A t \in Threads : req[t].op \notin {"none", "hold", "release"} =>
          ghost.late[t] + Ahead(req[t].op, req[t].pc) <= Unlooked(req[t].op)
    /\ ghost.late[Stream] <= 2
    /\ stream.pc = "send" => ghost.late[Stream] = 0
    /\ stream.pc = "again" => ghost.late[Stream] <= 1

\* What the handlers' first and last steps leave alone.
LEMMA Handlers ==
    ASSUME StagedTypes, NEW t \in Threads
    PROVE  /\ HoldBegin(t) \/ ReleaseBegin(t) \/ AbortBegin(t) =>
                 /\ \A u \in Threads \ {t} : req'[u] = req[u]
                 /\ req'[t].pc = "stop" /\ guard'.preempt # "none"
                 /\ \/ req'[t].op \in {"hold", "release"}
                    \/ req'[t].op = req[t].op /\ req[t].pc = "abort"
                 /\ ghost'.late = ghost.late /\ ghost'.undone = ghost.undone \ {t}
                 /\ UNCHANGED <<arm, stream>>
           /\ HoldEnd(t) =>
                 /\ \A u \in Threads \ {t} : req'[u].pc = req[u].pc /\ req'[u].op = req[u].op
                 /\ req[t].pc \in {"held", "unheld", "released"}
                 /\ req'[t].pc \in {"leave", "ending", "idle"}
                 /\ \/ req'[t].op = "none"
                    \/ req'[t].op = req[t].op /\ req[t].op = "move" /\ req'[t].pc = "leave"
                    \/ req'[t].op = req[t].op /\ req[t].op = "run" /\ req'[t].pc = "ending"
                 /\ ghost'.undone = ghost.undone \ {t}
                 /\ guard'.preempt \in {guard.preempt, "none"}
                 /\ ghost'.late = IF guard'.preempt = "none" THEN [m \in Movers |-> 0]
                                  ELSE ghost.late
                 /\ UNCHANGED <<arm, stream>>
<1>1. guard \in GuardSet /\ ghost \in GhostSet /\ req \in [Threads -> Request]
  BY Parts
<1>2. ASSUME HoldBegin(t) \/ ReleaseBegin(t) \/ AbortBegin(t)
      PROVE  /\ \A u \in Threads \ {t} : req'[u] = req[u]
             /\ req'[t].pc = "stop" /\ guard'.preempt # "none"
             /\ \/ req'[t].op \in {"hold", "release"}
                \/ req'[t].op = req[t].op /\ req[t].pc = "abort"
             /\ ghost'.late = ghost.late /\ ghost'.undone = ghost.undone \ {t}
             /\ UNCHANGED <<arm, stream>>
  <2>1. PICK s \in {"hold", "release", "abort"} : Preempt(t, s)
    BY <1>2 DEF HoldBegin, ReleaseBegin, AbortBegin
  <2>2. guard'.preempt = s
    BY <1>1, <2>1 DEF Preempt, PreemptBegun, Forced, GuardSet
  <2>3. ghost'.late = ghost.late /\ ghost'.undone = ghost.undone \ {t}
    BY <1>1, <2>1 DEF Preempt, GhostSet
  <2>4. /\ req'[t].pc = "stop" /\ \A u \in Threads \ {t} : req'[u] = req[u]
        /\ \/ req'[t].op \in {"hold", "release"}
           \/ req'[t].op = req[t].op /\ req[t].pc = "abort"
    BY <1>2, Writes DEF HoldBegin, ReleaseBegin, AbortBegin, At
  <2>. QED
    BY <2>1, <2>2, <2>3, <2>4 DEF Preempt
<1>3. ASSUME HoldEnd(t)
      PROVE  /\ \A u \in Threads \ {t} : req'[u].pc = req[u].pc /\ req'[u].op = req[u].op
             /\ req[t].pc \in {"held", "unheld", "released"}
             /\ req'[t].pc \in {"leave", "ending", "idle"}
             /\ \/ req'[t].op = "none"
                \/ req'[t].op = req[t].op /\ req[t].op = "move" /\ req'[t].pc = "leave"
                \/ req'[t].op = req[t].op /\ req[t].op = "run" /\ req'[t].pc = "ending"
             /\ ghost'.undone = ghost.undone \ {t}
             /\ guard'.preempt \in {guard.preempt, "none"}
             /\ ghost'.late = IF guard'.preempt = "none" THEN [m \in Movers |-> 0]
                              ELSE ghost.late
             /\ UNCHANGED <<arm, stream>>
  <2>1. \A u \in Threads \ {t} : req'[u].pc = req[u].pc /\ req'[u].op = req[u].op
    BY <1>1, <1>3 DEF HoldEnd, AfterHold, Request
  <2>2. /\ req[t].pc \in {"held", "unheld", "released"}
        /\ req'[t].pc \in {"leave", "ending", "idle"}
        /\ \/ req'[t].op = "none"
           \/ req'[t].op = req[t].op /\ req[t].op = "move" /\ req'[t].pc = "leave"
           \/ req'[t].op = req[t].op /\ req[t].op = "run" /\ req'[t].pc = "ending"
    BY <1>1, <1>3 DEF HoldEnd, AfterHold, Request, Idle, Doing
  <2>3. guard'.preempt \in {guard.preempt, "none"}
    BY <1>1, <1>3 DEF HoldEnd, PreemptEnded, GuardSet
  <2>4. /\ ghost'.undone = ghost.undone \ {t}
        /\ ghost'.late = IF guard'.preempt = "none" THEN [m \in Movers |-> 0] ELSE ghost.late
    BY <1>1, <1>3 DEF HoldEnd, GhostSet
  <2>. QED
    BY <1>3, <2>1, <2>2, <2>3, <2>4 DEF HoldEnd
<1>. QED
  BY <1>2, <1>3

\* The jog thread sends, the battery protector does not.
LEMMA Others ==
    ASSUME StagedTypes, StreamStep \/ Battery \/ UNCHANGED vars
    PROVE  /\ req' = req /\ guard'.preempt = guard.preempt
           /\ (arm => arm') /\ ghost'.undone = ghost.undone
           /\ \/ SameLate /\ (stream'.pc = "send" => stream.pc = "send" \/ ~Preempted)
                          /\ (stream'.pc = "again" => stream.pc \in {"send", "again"})
              \/ OneMore(Stream) /\ \/ stream.pc = "send" /\ stream'.pc # "send"
                                    \/ stream.pc = "again" /\ stream'.pc \notin {"send", "again"}
<1>1. guard \in GuardSet /\ ghost \in GhostSet /\ stream \in StreamSet
  BY Parts
<1>2. CASE StreamSend
  <2>1. Publish(Stream, "motion") /\ UNCHANGED <<req, guard>>
    BY <1>2 DEF StreamSend, Publish
  <2>2. Stream \in Movers
    BY DEF Movers
  <2>3. (arm => arm') /\ ghost'.undone = ghost.undone /\ (SameLate \/ OneMore(Stream))
    BY <2>1, <2>2, Publishes
  <2>4. \/ stream.pc = "send" /\ stream'.pc # "send"
        \/ stream.pc = "again" /\ stream'.pc \notin {"send", "again"}
    BY <1>1, <1>2 DEF StreamSend, StreamSet
  <2>. QED
    BY <2>1, <2>3, <2>4
<1>3. CASE StreamTop \/ StreamReady \/ StreamFailed
  <2>1. UNCHANGED <<req, guard, arm, ghost>>
    BY <1>3 DEF StreamTop, StreamReady, StreamFailed, bus
  <2>2. /\ stream'.pc = "send" => stream.pc = "send" \/ ~Preempted
        /\ stream'.pc = "again" => stream.pc = "again"
    BY <1>1, <1>3 DEF StreamTop, StreamReady, StreamFailed, StreamSet, Halt
  <2>. QED
    BY <2>1, <2>2 DEF SameLate
<1>4. CASE Battery \/ UNCHANGED vars
  <2>1. UNCHANGED <<req, arm, stream>>
    BY <1>4 DEF Battery, SetBatteryLock, ClearBatteryLock, BatteryOverride, vars, bus
  <2>2. guard'.preempt = guard.preempt
    BY <1>1, <1>4 DEF Battery, SetBatteryLock, ClearBatteryLock, BatteryOverride, vars,
       Forced, GuardSet
  <2>3. ghost'.late = ghost.late /\ ghost'.undone = ghost.undone
    BY <1>1, <1>4 DEF Battery, SetBatteryLock, ClearBatteryLock, BatteryOverride, vars, bus,
       GhostSet
  <2>. QED
    BY <2>1, <2>2, <2>3 DEF SameLate
<1>. QED
  BY <1>2, <1>3, <1>4 DEF StreamStep

\* Every step keeps both.
LEMMA HeldStep == StagedTypes /\ HeldCoupled /\ [Next]_vars => HeldCoupled'
<1> SUFFICES ASSUME StagedTypes, HeldCoupled, [Next]_vars PROVE HeldCoupled'
  OBVIOUS
<1> USE DEF HeldCoupled
<1>0. Threads \subseteq Movers /\ Stream \in Movers
  BY DEF Movers
<1>1. ASSUME NEW t \in Threads, Coupling(t) PROVE HeldCoupled'
  BY <1>1 DEF Coupling
<1>2. ASSUME NEW t \in Threads, HoldBegin(t) \/ ReleaseBegin(t) \/ AbortBegin(t) \/ HoldEnd(t)
      PROVE  HeldCoupled'
  BY <1>2, Handlers
<1>3. ASSUME NEW t \in Threads, HoldChoose(t) PROVE HeldCoupled'
  <2>1. UNCHANGED <<arm, ghost>> /\ \A u \in Threads \ {t} : req'[u] = req[u]
    BY <1>3, Writes DEF HoldChoose
  <2>2. req'[t].pc \in {"soft", "held"} => arm
    BY <1>3, Writes DEF HoldChoose, AskArm
  <2>. QED
    BY <2>1, <2>2
<1>4. ASSUME NEW t \in Threads, HoldHard(t) PROVE HeldCoupled'
  <2>1. /\ \A u \in Threads \ {t} : req'[u] = req[u]
        /\ \/ PublishOk(t, "couple") \/ req'[t].pc = "unheld"
    BY <1>4, Writes DEF HoldHard
  <2>2. Publish(t, "couple")
    BY <1>4 DEF HoldHard, Publish
  <2>3. /\ (arm => arm') /\ ghost'.undone = ghost.undone
        /\ req'[t].pc = "unheld" \/ arm'
    BY <1>0, <2>1, <2>2, Publishes
  <2>. QED
    BY <2>1, <2>3
<1>5. ASSUME NEW t \in Threads, HoldSoft(t) PROVE HeldCoupled'
  <2>1. \A u \in Threads \ {t} : req'[u] = req[u]
    BY <1>5, Writes DEF HoldSoft
  <2>2. UNCHANGED <<arm, ghost>> \/ Publish(t, "pose")
    BY <1>5 DEF HoldSoft, Publish, bus
  <2>3. (arm => arm') /\ ghost'.undone = ghost.undone
    BY <1>0, <2>2, Publishes
  <2>. QED
    BY <1>5, <2>1, <2>3 DEF HoldSoft, At
<1>6. ASSUME NEW t \in Threads, Unpower(t) PROVE HeldCoupled'
  <2>1. req'[t].pc = "released" /\ \A u \in Threads \ {t} : req'[u] = req[u]
    BY <1>6, Writes DEF Unpower
  <2>2. /\ ghost.undone \subseteq ghost'.undone
        /\ arm' = arm \/ \A u \in Threads \ {t} : Handling(u) => u \in ghost'.undone
    BY <1>0, <1>6, Publishes DEF Unpower
  <2>. QED
    BY <2>1, <2>2 DEF Handling
<1>7. CASE StreamStep \/ Battery \/ UNCHANGED vars
  BY <1>0, <1>7, Others
<1>. QED
  BY <1>0, <1>1, <1>2, <1>3, <1>4, <1>5, <1>6, <1>7, SoberSteps DEF Next, Arrive, Serve

\* Every step keeps what was sent with what is ahead within the bound.
LEMMA SpentStep == StagedTypes /\ StagedTypes' /\ Spent /\ [Next]_vars => Spent'
<1> SUFFICES ASSUME StagedTypes, StagedTypes', Spent, [Next]_vars PROVE Spent'
  OBVIOUS
<1>0. /\ \A m \in Movers : ghost.late[m] \in 0..4
      /\ ghost.late \in [Movers -> 0..4] /\ Movers = Threads \cup {Stream}
      /\ Stream \notin Threads
  BY Parts, MotionAssumption DEF Movers, GhostSet
<1>b. \A t \in Threads : Ahead(req'[t].op, req'[t].pc) <= Unlooked(req'[t].op)
  BY AheadBound DEF StagedTypes, Stages
<1>1. ASSUME NEW t \in Threads, Sober(t) PROVE Spent'
  <2>1. /\ Preempted' = Preempted /\ stream'.pc = stream.pc
        /\ \A u \in Threads \ {t} : req'[u] = req[u]
    BY <1>1 DEF Sober, Preempted
  <2>2. CASE ghost'.late = [ghost.late EXCEPT ![t] = 0]
    <3>1. ghost'.late[t] = 0 /\ \A m \in Movers \ {t} : ghost'.late[m] = ghost.late[m]
      BY <1>0, <2>2
    <3>2. req'[t].op \notin {"none", "hold", "release"} =>
             ghost'.late[t] + Ahead(req'[t].op, req'[t].pc) <= Unlooked(req'[t].op)
      BY <1>b, <3>1, AheadTypes
    <3>. QED
      BY <1>0, <2>1, <3>1, <3>2 DEF Spent
  <2>3. CASE SameLate /\ Less(t)
    <3>1. \A m \in Movers : ghost'.late[m] = ghost.late[m]
      BY <2>3 DEF SameLate
    <3>2. req'[t].op \notin {"none", "hold", "release"} =>
             ghost'.late[t] + Ahead(req'[t].op, req'[t].pc) <= Unlooked(req'[t].op)
      <4>1. CASE ~Preempted
        BY <1>0, <1>b, <3>1, <4>1, AheadTypes DEF Spent
      <4>2. CASE req'[t] = Idle
        BY <4>2 DEF Idle
      <4>3. CASE /\ req'[t].op = req[t].op
                 /\ Ahead(req[t].op, req'[t].pc) <= Ahead(req[t].op, req[t].pc)
        BY <1>0, <3>1, <4>3, AheadTypes, UnlookedTypes DEF Spent
      <4>. QED
        BY <2>3, <4>1, <4>2, <4>3 DEF Less
    <3>. QED
      BY <1>0, <2>1, <3>1, <3>2 DEF Spent
  <2>4. CASE /\ OneMore(t)
             /\ \/ req'[t] = Idle
                \/ /\ req'[t].op = req[t].op
                   /\ Ahead(req[t].op, req'[t].pc) < Ahead(req[t].op, req[t].pc)
    <3>1. /\ Preempted /\ ghost'.late[t] = ghost.late[t] + 1
          /\ \A m \in Movers \ {t} : ghost'.late[m] = ghost.late[m]
      BY <1>0, <2>4 DEF OneMore
    <3>2. req'[t].op \notin {"none", "hold", "release"} =>
             ghost'.late[t] + Ahead(req'[t].op, req'[t].pc) <= Unlooked(req'[t].op)
      <4>1. CASE req'[t] = Idle
        BY <4>1 DEF Idle
      <4>2. CASE /\ req'[t].op = req[t].op
                 /\ Ahead(req[t].op, req'[t].pc) < Ahead(req[t].op, req[t].pc)
        BY <1>0, <3>1, <4>2, AheadTypes, UnlookedTypes DEF Spent
      <4>. QED
        BY <2>4, <4>1, <4>2
    <3>. QED
      BY <1>0, <2>1, <3>1, <3>2 DEF Spent
  <2>. QED
    BY <1>1, <2>2, <2>3, <2>4 DEF Sober
<1>2. ASSUME NEW t \in Threads, HoldBegin(t) \/ ReleaseBegin(t) \/ AbortBegin(t)
      PROVE  Spent'
  <2>1. /\ ghost'.late = ghost.late /\ Preempted' /\ stream' = stream
        /\ \A u \in Threads \ {t} : req'[u] = req[u]
    BY <1>2, Handlers DEF Preempted
  <2>2. req'[t].op \notin {"none", "hold", "release"} =>
           /\ req'[t].op = req[t].op
           /\ Ahead(req'[t].op, req'[t].pc) = Ahead(req[t].op, req[t].pc)
    BY <1>2, Handlers DEF Ahead
  <2>. QED
    BY <1>0, <2>1, <2>2 DEF Spent
<1>3. ASSUME NEW t \in Threads, HoldEnd(t) PROVE Spent'
  <2>1. /\ stream' = stream
        /\ \A u \in Threads \ {t} : req'[u].pc = req[u].pc /\ req'[u].op = req[u].op
    BY <1>3, Handlers
  <2>2. CASE guard'.preempt = "none"
    <3>1. \A m \in Movers : ghost'.late[m] = 0
      BY <1>3, <2>2, Handlers
    <3>. QED
      BY <1>0, <1>b, <2>1, <3>1, AheadTypes DEF Spent
  <2>3. CASE guard'.preempt # "none"
    <3>1. Preempted' /\ Preempted /\ ghost'.late = ghost.late
      BY <1>3, <2>3, Handlers DEF Preempted
    <3>2. req'[t].op \notin {"none", "hold", "release"} =>
             /\ req'[t].op = req[t].op
             /\ Ahead(req'[t].op, req'[t].pc) <= Ahead(req[t].op, req[t].pc)
      BY <1>3, Handlers DEF Ahead
    <3>3. req'[t].op \notin {"none", "hold", "release"} =>
             ghost'.late[t] + Ahead(req'[t].op, req'[t].pc) <= Unlooked(req'[t].op)
      BY <1>0, <3>1, <3>2, AheadTypes, UnlookedTypes DEF Spent
    <3>. QED
      BY <1>0, <2>1, <3>1, <3>3 DEF Spent
  <2>. QED
    BY <2>2, <2>3
<1>4. ASSUME NEW t \in Threads,
             HoldChoose(t) \/ HoldHard(t) \/ HoldSoft(t) \/ Unpower(t)
      PROVE  Sober(t)
  <2>1. \E p \in {"soft", "hard", "held", "unheld", "released"} : Moves(t, p)
    BY <1>4, Goes DEF HoldChoose, HoldHard, HoldSoft, Unpower
  <2>2. guard' = guard /\ stream'.pc = stream.pc
    BY <1>4, Leaves DEF HoldChoose, HoldHard, HoldSoft, Unpower
  <2>3. \E what : UNCHANGED ghost \/ Publish(t, what)
    BY <1>4 DEF HoldChoose, HoldHard, HoldSoft, Unpower, Publish, bus
  <2>4. Handling(t) /\ t \in Movers /\ t # Stream
    BY <1>0, <1>4 DEF HoldChoose, HoldHard, HoldSoft, Unpower, Handling, At
  <2>5. SameLate
    BY <2>3, <2>4, Publishes DEF SameLate, OneMore
  <2>6. \A p \in {"soft", "hard", "held", "unheld", "released"} :
           Ahead(req[t].op, p) <= Ahead(req[t].op, req[t].pc)
    BY <1>4 DEF HoldChoose, HoldHard, HoldSoft, Unpower, Ahead, At
  <2>. QED
    BY <2>1, <2>2, <2>5, <2>6 DEF Sober, Less, Moves
<1>5. CASE StreamStep \/ Battery \/ UNCHANGED vars
  <2>1. Preempted' = Preempted /\ req' = req
    BY <1>5, Others DEF Preempted
  <2>2. CASE /\ SameLate
             /\ stream'.pc = "send" => stream.pc = "send" \/ ~Preempted
             /\ stream'.pc = "again" => stream.pc \in {"send", "again"}
    BY <1>0, <2>1, <2>2 DEF Spent, SameLate
  <2>3. CASE OneMore(Stream) /\ \/ stream.pc = "send" /\ stream'.pc # "send"
                                \/ stream.pc = "again" /\ stream'.pc \notin {"send", "again"}
    <3>1. /\ Preempted /\ ghost'.late[Stream] = ghost.late[Stream] + 1
          /\ \A t \in Threads : ghost'.late[t] = ghost.late[t]
      BY <1>0, <2>3 DEF OneMore
    <3>. QED
      BY <1>0, <2>1, <2>3, <3>1 DEF Spent
  <2>. QED
    BY <1>5, <2>2, <2>3, Others
<1>. QED
  BY <1>1, <1>2, <1>3, <1>4, <1>5, SoberSteps DEF Next, Arrive, Serve

\* Types, sends and holds in every reachable state.
LEMMA HeldInvariant == Spec => [](Spent /\ HeldCoupled)
<1>1. Init => Spent /\ HeldCoupled
  BY DEF Init, GuardInit, Spent, HeldCoupled, Preempted, Idle, Movers
<1>2. StagedTypes /\ (Spent /\ HeldCoupled) /\ [Next]_vars => (Spent /\ HeldCoupled)'
  BY HeldStep, SpentStep, TypeStep
<1>. QED
  BY <1>1, <1>2, StagedInvariant, PTL DEF Spec

\* Once the arm is preempted no request sends more than it can between two looks
\* at the flag, nor the jog thread more than its batch and the retry, for any
\* number of threads, requests and preemptions (the checks of program_runner.py,
\* tcp_motion.py, jog_stream.py and try_acquire, and the poses that are held
\* between them without one).
THEOREM MoversStop == Spec => []PreemptStopsMovers
<1>1. StagedTypes /\ Spent => PreemptStopsMovers
  <2> SUFFICES ASSUME StagedTypes, Spent,
                      NEW t \in Threads, Doing(t) \notin {"none", "hold", "release"}
               PROVE  ghost.late[t] <= Unlooked(Doing(t))
    BY DEF Spent, PreemptStopsMovers
  <2>1. ghost.late[t] \in 0..4
    BY Parts DEF GhostSet, Movers
  <2>. QED
    BY <2>1, AheadTypes, UnlookedTypes DEF Spent, Doing
<1>. QED
  BY <1>1, StagedInvariant, HeldInvariant, PTL

\* A hold answered ok leaves the arm coupled unless a release overtook it, for
\* any number of holds, aborts and releases, whatever fails in them
\* (request_emergency_hold, _hold_measured_pose_for_abort, motor_release).
THEOREM HeldIsCoupled == Spec => []HoldLeavesCoupled
<1>1. HeldCoupled => HoldLeavesCoupled
  BY DEF HeldCoupled, HoldLeavesCoupled, At
<1>. QED
  BY <1>1, HeldInvariant, PTL
=============================================================================
