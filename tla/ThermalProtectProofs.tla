------------------------ MODULE ThermalProtectProofs ------------------------
(***************************************************************************)
(* TypeOK and Remembered of ThermalProtect hold for every number of request *)
(* threads, every temperature and every bound on the faults.               *)
(*                                                                         *)
(* Only the watchdog lays the robot down for good (owed becomes TRUE) and   *)
(* only the watchdog writes "normal", so Remembered depends on where the    *)
(* watchdog is: the strengthening Watching says, of each of its jobs, what  *)
(* it may write when the robot is owed.                                     *)
(***************************************************************************)
EXTENDS ThermalProtect, TLAPS, SequenceTheorems

ScriptNames == {"stand_up", "crouch", "balance"}
OpNames == {"stand", "crouch", "balance", "recovery", "tobalance", "tocrouch",
            "return", "lowbattery", "none", "tick"}
Pcs    == {"idle", "act", "gate", "wait", "run", "done", "finish"}
Under  == {"gate", "wait", "run", "done"}
Single == {"tobalance", "tocrouch", "return"}
Rising == {"stand_up", "balance"}
Records == [op : OpNames, pc : Pcs, todo : Seq(ScriptNames), ok : BOOLEAN]

JobsTyped  == job \in [Threads -> Records]
Loaded     == \A t \in Threads : job[t].pc \in Under => job[t].todo # <<>>
OneRuns    == \A t, u \in Threads : At(t, "run") /\ At(u, "run") => t = u
Lying      == owed => posture = "down"
StateTyped ==
    /\ posture \in {"up", "down"} /\ owed \in BOOLEAN
    /\ pending \in BOOLEAN /\ lock \in BOOLEAN
    /\ mode \in Modes /\ saw \in Modes \cup {"none"} /\ temp \in Temps
    /\ faults \in 0..MaxFaults

\* The jobs of the watchdog alone.
Owners == \A t \in Threads \ {Watch} : job[t].op \notin Single

\* The watchdog's jobs are single scripts that have not failed yet, or do not lay
\* the robot down; its ticks hold a mode.
Shape ==
    /\ job[Watch].op \in Single /\ job[Watch].pc \in Under
           => job[Watch].ok /\ job[Watch].todo = Scripts[job[Watch].op]
    /\ job[Watch].op \notin Single /\ job[Watch].pc \in Under => job[Watch].todo \in Seq(Rising)
    /\ At(Watch, "act") => job[Watch].op = "tick" /\ saw \in Modes

\* Of a robot that lies down, no tick under way believes that it stands
\* normally, no balance is under way, a return to stand has not succeeded, and
\* a crouch under way will be written down, or the mode has it.
Watching ==
    owed =>
        /\ At(Watch, "act") => saw # "normal"
        /\ job[Watch].op # "tobalance"
        /\ job[Watch].op = "return" =>
               ~At(Watch, "done") /\ ~(At(Watch, "finish") /\ job[Watch].ok)
        /\ mode = "normal" =>
               /\ job[Watch].op = "tocrouch"
               /\ At(Watch, "done") \/ (At(Watch, "finish") /\ job[Watch].ok)

Typed == JobsTyped /\ Loaded /\ OneRuns /\ Lying /\ StateTyped
Inv   == Typed /\ Owners /\ Shape /\ Watching

-----------------------------------------------------------------------------
(* Jobs.                                                                   *)

\* A job that begins, or that is refused at once, is a job.
LEMMA JobRecord ==
    /\ \A op \in DOMAIN Scripts :
         /\ Job(op) \in Records /\ Refused(op) \in Records
         /\ Job(op).op = op /\ Job(op).pc = "gate" /\ Job(op).ok
         /\ Job(op).todo = Scripts[op] /\ Scripts[op] # <<>>
         /\ Refused(op).op = op /\ Refused(op).pc = "finish" /\ ~Refused(op).ok
    /\ Idle \in Records /\ Idle.pc = "idle" /\ Idle.op = "none"
    /\ DOMAIN Scripts = {"stand", "crouch", "balance", "recovery", "tobalance",
                         "tocrouch", "return", "lowbattery"}
<1>1. DOMAIN Scripts = {"stand", "crouch", "balance", "recovery", "tobalance",
                        "tocrouch", "return", "lowbattery"}
  BY DEF Scripts
<1>2. \A op \in DOMAIN Scripts : Scripts[op] \in Seq(ScriptNames) /\ Scripts[op] # <<>>
  <2>1. <<"stand_up">> \in Seq(ScriptNames) /\ <<"crouch">> \in Seq(ScriptNames)
        /\ <<"balance">> \in Seq(ScriptNames) /\ <<"stand_up", "balance">> \in Seq(ScriptNames)
    BY DEF ScriptNames
  <2>2. /\ Scripts["stand"] = <<"stand_up">> /\ Scripts["return"] = <<"stand_up">>
        /\ Scripts["crouch"] = <<"crouch">> /\ Scripts["tocrouch"] = <<"crouch">>
        /\ Scripts["lowbattery"] = <<"crouch">> /\ Scripts["tobalance"] = <<"balance">>
        /\ Scripts["balance"] = <<"stand_up", "balance">>
        /\ Scripts["recovery"] = <<"stand_up", "balance">>
    BY DEF Scripts
  <2>3. ASSUME NEW op \in DOMAIN Scripts
        PROVE  Scripts[op] \in Seq(ScriptNames) /\ Scripts[op] # <<>>
    <3>1. op \in {"stand", "return"} \/ op \in {"crouch", "tocrouch", "lowbattery"}
          \/ op = "tobalance" \/ op \in {"balance", "recovery"}
      BY <1>1
    <3>2. CASE op \in {"stand", "return"}
      <4>1. Scripts[op] = <<"stand_up">>  BY <2>2, <3>2
      <4>2. QED  BY <2>1, <4>1
    <3>3. CASE op \in {"crouch", "tocrouch", "lowbattery"}
      <4>1. Scripts[op] = <<"crouch">>  BY <2>2, <3>3
      <4>2. QED  BY <2>1, <4>1
    <3>4. CASE op = "tobalance"
      <4>1. Scripts[op] = <<"balance">>  BY <2>2, <3>4
      <4>2. QED  BY <2>1, <4>1
    <3>5. CASE op \in {"balance", "recovery"}
      <4>1. Scripts[op] = <<"stand_up", "balance">>  BY <2>2, <3>5
      <4>2. QED  BY <2>1, <4>1
    <3>6. QED  BY <3>1, <3>2, <3>3, <3>4, <3>5
  <2>4. QED  BY <2>3
<1>3. ASSUME NEW op \in DOMAIN Scripts
      PROVE  /\ Job(op) \in Records /\ Refused(op) \in Records
             /\ Job(op).op = op /\ Job(op).pc = "gate" /\ Job(op).ok
             /\ Job(op).todo = Scripts[op] /\ Scripts[op] # <<>>
             /\ Refused(op).op = op /\ Refused(op).pc = "finish" /\ ~Refused(op).ok
  <2>1. op \in OpNames  BY <1>1 DEF OpNames
  <2>2. QED  BY <1>2, <2>1 DEF Job, Refused, Records, Pcs
<1>4. Idle \in Records /\ Idle.pc = "idle" /\ Idle.op = "none"
  BY DEF Idle, Records, OpNames, Pcs
<1>5. QED  BY <1>1, <1>3, <1>4

\* The result of a script leaves a job with its other scripts, or at its end.
LEMMA ResultingRecord ==
    ASSUME JobsTyped, NEW t \in Threads, job[t].todo # <<>>, NEW b \in BOOLEAN
    PROVE  /\ Resulting(t, b) \in Records
           /\ Resulting(t, b).op = job[t].op
           /\ Resulting(t, b).ok = (job[t].ok /\ b)
           /\ Resulting(t, b).pc \in {"gate", "finish"}
           /\ Resulting(t, b).pc = "gate" => Resulting(t, b).todo # <<>>
           /\ Len(job[t].todo) = 1 => Resulting(t, b).pc = "finish"
           /\ job[t].todo \in Seq(Rising) => Resulting(t, b).todo \in Seq(Rising)
<1> DEFINE j == job[t]
           r == Resulting(t, b)
<1>1. j \in Records  BY DEF JobsTyped
<1>2. /\ j.op \in OpNames /\ j.pc \in Pcs /\ j.todo \in Seq(ScriptNames) /\ j.ok \in BOOLEAN
  BY <1>1 DEF Records
<1>3. r.op = j.op  BY <1>1 DEF Resulting, Records
<1>4. r.ok = (j.ok /\ b)  BY <1>1 DEF Resulting, Records
<1>5. r.todo = Tail(j.todo)  BY <1>1 DEF Resulting, Records
<1>6. r.pc = IF Len(j.todo) = 1 \/ (Script(t) = "stand_up" /\ ~b) THEN "finish" ELSE "gate"
  BY <1>1 DEF Resulting, Records
<1>7. Tail(j.todo) \in Seq(ScriptNames) /\ (Len(j.todo) # 1 => Tail(j.todo) # <<>>)
  <2>1. /\ Tail(j.todo) \in Seq(ScriptNames) /\ Len(Tail(j.todo)) = Len(j.todo) - 1
        /\ Len(j.todo) \in Nat
    BY <1>2, HeadTailProperties
  <2>2. ASSUME Len(j.todo) # 1, Tail(j.todo) = <<>>
        PROVE  FALSE
    <3>1. Len(Tail(j.todo)) # 0  BY <2>1, <2>2
    <3>2. Len(<<>>) = 0  OBVIOUS
    <3>3. QED  BY <2>2, <3>1, <3>2
  <2>3. QED  BY <2>1, <2>2
<1>8. r.pc \in Pcs  BY <1>6 DEF Pcs
<1>9. r \in Records
  <2>1. (j.ok /\ b) \in BOOLEAN  BY <1>2
  <2>2. QED  BY <1>1, <1>7, <1>8, <1>6, <2>1 DEF Records, Resulting
<1>10. j.todo \in Seq(Rising) => Tail(j.todo) \in Seq(Rising)
  BY HeadTailProperties
<1>11. QED  BY <1>3, <1>4, <1>5, <1>6, <1>7, <1>9, <1>10

\* One thread's job changes: the jobs stay well formed, the others stay.
LEMMA OneJob ==
    ASSUME JobsTyped, Loaded, OneRuns, NEW t \in Threads, NEW r \in Records,
           r.pc \in Under => r.todo # <<>>,
           r.pc = "run" => \A u \in Threads : ~At(u, "run"),
           job' = [job EXCEPT ![t] = r]
    PROVE  /\ JobsTyped' /\ Loaded' /\ OneRuns'
           /\ job'[t] = r /\ \A u \in Threads \ {t} : job'[u] = job[u]
<1>1. job'[t] = r /\ \A u \in Threads \ {t} : job'[u] = job[u]
  BY DEF JobsTyped
<1>2. JobsTyped'  BY DEF JobsTyped
<1>3. Loaded'  BY <1>1 DEF Loaded
<1>4. OneRuns'  BY <1>1 DEF OneRuns, At
<1>5. QED  BY <1>1, <1>2, <1>3, <1>4

\* A job between its gate and its end has a script in hand.
LEMMA InHand ==
    ASSUME JobsTyped, Loaded, NEW t \in Threads, job[t].pc \in Under
    PROVE  /\ Script(t) \in ScriptNames /\ job[t].todo # <<>>
           /\ Pose(Script(t)) \in {"up", "down", posture}
<1>1. job[t].todo \in Seq(ScriptNames) /\ job[t].todo # <<>>
  BY DEF JobsTyped, Records, Loaded
<1>2. Script(t) \in ScriptNames  BY <1>1 DEF Script
<1>3. QED  BY <1>1, <1>2 DEF Pose

\* The scripts of the watchdog's own jobs.
LEMMA SingleScripts ==
    /\ Single \subseteq DOMAIN Scripts
    /\ Scripts["tobalance"] = <<"balance">> /\ Scripts["tocrouch"] = <<"crouch">>
    /\ Scripts["return"] = <<"stand_up">>
    /\ \A op \in Single : Len(Scripts[op]) = 1
<1>1. /\ Scripts["tobalance"] = <<"balance">> /\ Scripts["tocrouch"] = <<"crouch">>
      /\ Scripts["return"] = <<"stand_up">>
  BY DEF Scripts
<1>2. Single \subseteq DOMAIN Scripts  BY JobRecord DEF Single
<1>3. QED  BY <1>1, <1>2 DEF Single

\* What a step of another thread that leaves it the job r may write.
OtherWrites(r) ==
    /\ r.op \notin Single /\ saw' = saw
    /\ owed' => owed
    /\ owed' /\ mode' = "normal" => mode = "normal"

\* What a step of the watchdog that leaves it the job r may write.
WatchWrites(r) ==
    /\ r.op \in Single /\ r.pc \in Under => r.ok /\ r.todo = Scripts[r.op]
    /\ r.op \notin Single /\ r.pc \in Under => r.todo \in Seq(Rising)
    /\ r.pc = "act" => r.op = "tick" /\ saw' \in Modes /\ (owed' => saw' # "normal")
    /\ owed' => r.op # "tobalance"
    /\ owed' /\ r.op = "return" => r.pc # "done" /\ ~(r.pc = "finish" /\ r.ok)
    /\ owed' /\ mode' = "normal" =>
           r.op = "tocrouch" /\ (r.pc = "done" \/ (r.pc = "finish" /\ r.ok))

\* A step without a job changes the watchdog's records as another thread would.
LEMMA NoJobSteps ==
    ASSUME Inv, UNCHANGED <<job, saw>>, StateTyped', Lying',
           owed' => owed,
           owed' /\ mode' = "normal" => mode = "normal"
    PROVE  Inv'
<1>1. JobsTyped' /\ Loaded' /\ OneRuns' /\ Owners' /\ Shape'
  BY DEF Inv, Typed, JobsTyped, Loaded, OneRuns, Owners, Shape, At
<1>2. Watching'  BY DEF Inv, Watching, At
<1>3. QED  BY <1>1, <1>2 DEF Inv, Typed

\* A step of one thread that leaves it the job r.
LEMMA JobSteps ==
    ASSUME Inv, NEW t \in Threads, NEW r \in Records,
           job' = [job EXCEPT ![t] = r],
           r.pc \in Under => r.todo # <<>>,
           r.pc = "run" => \A u \in Threads : ~At(u, "run"),
           StateTyped', Lying',
           t # Watch => OtherWrites(r),
           t = Watch => WatchWrites(r)
    PROVE  Inv'
<1>1. /\ JobsTyped' /\ Loaded' /\ OneRuns'
      /\ job'[t] = r /\ \A u \in Threads \ {t} : job'[u] = job[u]
  BY OneJob DEF Inv, Typed
<1>2. Owners'
  <2>1. \A u \in Threads \ {Watch} : job'[u].op \notin Single
    BY <1>1 DEF Inv, Owners, OtherWrites
  <2>2. QED  BY <2>1 DEF Owners
<1>3. Watch \in Threads  BY DEF Threads
<1>4. CASE t # Watch
  <2>1. job'[Watch] = job[Watch]  BY <1>1, <1>3, <1>4
  <2>2. Shape'  BY <1>4, <2>1 DEF Inv, Shape, At, OtherWrites
  <2>3. Watching'  BY <1>4, <2>1 DEF Inv, Watching, At, OtherWrites
  <2>4. QED  BY <1>1, <1>2, <2>2, <2>3 DEF Inv, Typed
<1>5. CASE t = Watch
  <2>1. Shape'  BY <1>1, <1>5 DEF Shape, At, WatchWrites
  <2>2. Watching'  BY <1>1, <1>5 DEF Watching, At, WatchWrites
  <2>3. QED  BY <1>1, <1>2, <2>1, <2>2 DEF Inv, Typed
<1>6. QED  BY <1>4, <1>5

-----------------------------------------------------------------------------
(* The scripts.                                                            *)

\* Where the watchdog is with a script in hand.
LEMMA WatchInHand ==
    ASSUME Inv, job[Watch].op \in Single, job[Watch].pc \in Under
    PROVE  /\ job[Watch].ok /\ Len(job[Watch].todo) = 1
           /\ Script(Watch) = CASE job[Watch].op = "tobalance" -> "balance"
                                [] job[Watch].op = "tocrouch" -> "crouch"
                                [] OTHER -> "stand_up"
<1>1. job[Watch].ok /\ job[Watch].todo = Scripts[job[Watch].op]
  BY DEF Inv, Shape
<1>2. QED  BY <1>1, SingleScripts DEF Single, Script

LEMMA GateStep ==
    ASSUME Inv, NEW t \in Threads, Gate(t)
    PROVE  Inv'
<1>1. job[t].pc = "gate" /\ job[t].todo # <<>> /\ JobsTyped /\ job[t] \in Records
  BY DEF Gate, At, Inv, Typed, Loaded, Under, JobsTyped
<1>2. PICK r \in Records :
        /\ job' = [job EXCEPT ![t] = r] /\ r.op = job[t].op
        /\ \/ r.pc = "wait" /\ r.ok = job[t].ok /\ r.todo = job[t].todo
           \/ /\ r.pc \in {"gate", "finish"} /\ ~r.ok
              /\ r.pc = "gate" => r.todo # <<>>
              /\ Len(job[t].todo) = 1 => r.pc = "finish"
              /\ job[t].todo \in Seq(Rising) => r.todo \in Seq(Rising)
  <2>1. CASE Allowed(Script(t))
    <3>1. job' = [job EXCEPT ![t] = [job[t] EXCEPT !.pc = "wait"]]
      BY <1>1, <2>1 DEF Gate, JobsTyped
    <3>2. [job[t] EXCEPT !.pc = "wait"] \in Records  BY <1>1 DEF Records, Pcs
    <3>3. QED  BY <1>1, <3>1, <3>2 DEF Records
  <2>2. CASE ~Allowed(Script(t))
    <3>1. job' = [job EXCEPT ![t] = Resulting(t, FALSE)]
      BY <1>1, <2>2 DEF Gate, JobsTyped
    <3>2. QED  BY <1>1, <3>1, ResultingRecord
  <2>3. QED  BY <2>1, <2>2
<1>3. UNCHANGED <<posture, owed, pending, mode, lock, temp, saw, faults>>
  BY DEF Gate
<1>4. StateTyped' /\ Lying'
  BY <1>3 DEF Inv, Typed, StateTyped, Lying
<1>5. ASSUME t # Watch  PROVE OtherWrites(r)
  BY <1>2, <1>3, <1>5 DEF OtherWrites, Inv, Owners
<1>6. ASSUME t = Watch  PROVE WatchWrites(r)
  <2>1. r.op \in Single => job[Watch].ok /\ job[Watch].todo = Scripts[job[Watch].op]
                            /\ Len(job[Watch].todo) = 1
    BY <1>1, <1>2, <1>6, WatchInHand DEF Under, Inv, Shape
  <2>2. r.op \notin Single => r.todo \in Seq(Rising) \/ r.pc = "finish"
    BY <1>1, <1>2, <1>6 DEF Under, Inv, Shape
  <2>3. QED  BY <1>1, <1>2, <1>3, <1>6, <2>1, <2>2 DEF WatchWrites, Inv, Watching, At, Under
<1>7. r.pc # "run" /\ (r.pc \in Under => r.todo # <<>>)
  BY <1>1, <1>2 DEF Under
<1>8. QED  BY <1>2, <1>4, <1>5, <1>6, <1>7, JobSteps

LEMMA StartScriptStep ==
    ASSUME Inv, NEW t \in Threads, StartScript(t)
    PROVE  Inv'
<1>1. job[t].pc = "wait" /\ job[t].todo # <<>> /\ JobsTyped /\ job[t] \in Records
  BY DEF StartScript, At, Inv, Typed, Loaded, Under, JobsTyped
<1>2. PICK r \in Records :
        /\ job' = [job EXCEPT ![t] = r] /\ r.op = job[t].op
        /\ r.pc = "run" /\ r.ok = job[t].ok /\ r.todo = job[t].todo
  <2>1. job' = [job EXCEPT ![t] = [job[t] EXCEPT !.pc = "run"]]
    BY <1>1 DEF StartScript, JobsTyped
  <2>2. [job[t] EXCEPT !.pc = "run"] \in Records  BY <1>1 DEF Records, Pcs
  <2>3. QED  BY <1>1, <2>1, <2>2 DEF Records
<1>3. /\ UNCHANGED <<posture, owed, pending, mode, lock, temp, saw, faults>>
      /\ \A u \in Threads : ~At(u, "run")
  BY DEF StartScript
<1>4. StateTyped' /\ Lying'
  BY <1>3 DEF Inv, Typed, StateTyped, Lying
<1>5. ASSUME t # Watch  PROVE OtherWrites(r)
  BY <1>2, <1>3, <1>5 DEF OtherWrites, Inv, Owners
<1>6. ASSUME t = Watch  PROVE WatchWrites(r)
  BY <1>1, <1>2, <1>3, <1>6 DEF WatchWrites, Inv, Watching, Shape, At, Under
<1>7. r.todo # <<>>  BY <1>1, <1>2
<1>8. QED  BY <1>2, <1>3, <1>4, <1>5, <1>6, <1>7, JobSteps

LEMMA ScriptDoneStep ==
    ASSUME Inv, NEW t \in Threads, ScriptDone(t)
    PROVE  Inv'
<1>1. job[t].pc = "run" /\ job[t].todo # <<>> /\ JobsTyped /\ Loaded /\ job[t] \in Records
  BY DEF ScriptDone, At, Inv, Typed, Loaded, Under, JobsTyped
<1>2. PICK r \in Records :
        /\ job' = [job EXCEPT ![t] = r] /\ r.op = job[t].op
        /\ r.pc = "done" /\ r.ok = job[t].ok /\ r.todo = job[t].todo
  <2>1. job' = [job EXCEPT ![t] = [job[t] EXCEPT !.pc = "done"]]
    BY <1>1 DEF ScriptDone, JobsTyped
  <2>2. [job[t] EXCEPT !.pc = "done"] \in Records  BY <1>1 DEF Records, Pcs
  <2>3. QED  BY <1>1, <2>1, <2>2 DEF Records
<1>3. /\ UNCHANGED <<pending, mode, lock, temp, saw, faults>>
      /\ posture' = Pose(Script(t))
      /\ owed' = IF Script(t) = "balance" THEN owed
                 ELSE Script(t) = "crouch" /\ (owed \/ t = Watch)
  BY DEF ScriptDone, Moves
<1>4. Script(t) \in ScriptNames /\ StateTyped /\ Lying
  BY <1>1, InHand DEF Under, Inv, Typed
<1>5. /\ Script(t) = "balance" => posture' = posture
      /\ Script(t) = "crouch" => posture' = "down"
      /\ Script(t) = "stand_up" => posture' = "up" /\ ~owed'
  BY <1>3 DEF Pose
<1>6. StateTyped' /\ Lying'
  BY <1>3, <1>4, <1>5 DEF StateTyped, Lying, ScriptNames
<1>7. ASSUME t # Watch  PROVE OtherWrites(r)
  <2>1. owed' => owed  BY <1>3, <1>7
  <2>2. QED  BY <1>2, <1>3, <1>7, <2>1 DEF OtherWrites, Inv, Owners
<1>8. ASSUME t = Watch  PROVE WatchWrites(r)
  <2>1. r.op \in Single /\ r.pc \in Under => r.ok /\ r.todo = Scripts[r.op]
    BY <1>1, <1>2, <1>8 DEF Inv, Shape, Under
  <2>2. CASE job[Watch].op \in Single
    <3>1. Script(Watch) = CASE job[Watch].op = "tobalance" -> "balance"
                            [] job[Watch].op = "tocrouch" -> "crouch"
                            [] OTHER -> "stand_up"
      BY <1>1, <1>8, <2>2, WatchInHand DEF Under
    <3>2. CASE job[Watch].op = "tobalance"
      <4>1. owed' = owed  BY <1>3, <1>8, <3>1, <3>2
      <4>2. QED  BY <1>2, <1>8, <3>2, <4>1, <2>1 DEF WatchWrites, Single, Inv, Watching
    <3>3. CASE job[Watch].op = "tocrouch"
      BY <1>2, <1>8, <2>1, <3>3 DEF WatchWrites, Single
    <3>4. CASE job[Watch].op = "return"
      <4>1. ~owed'  BY <1>3, <1>8, <3>1, <3>4
      <4>2. QED  BY <1>2, <1>8, <3>4, <4>1, <2>1 DEF WatchWrites, Single
    <3>5. QED  BY <2>2, <3>2, <3>3, <3>4 DEF Single
  <2>3. CASE job[Watch].op \notin Single
    <3>1. job[Watch].todo \in Seq(Rising)
      BY <1>1, <1>8, <2>3 DEF Inv, Shape, Under
    <3>2. Script(Watch) \in Rising  BY <1>1, <1>8, <3>1 DEF Script
    <3>3. owed' => owed  BY <1>3, <1>8, <3>2 DEF Rising
    <3>4. QED  BY <1>1, <1>2, <1>3, <1>8, <2>3, <3>1, <3>3 DEF WatchWrites, Inv, Watching, Single, At
  <2>4. QED  BY <2>2, <2>3
<1>9. r.todo # <<>>  BY <1>1, <1>2
<1>10. QED  BY <1>2, <1>6, <1>7, <1>8, <1>9, JobSteps

LEMMA ScriptFailsStep ==
    ASSUME Inv, NEW t \in Threads, ScriptFails(t)
    PROVE  Inv'
<1>1. job[t].pc = "run" /\ job[t].todo # <<>> /\ JobsTyped /\ Loaded /\ job[t] \in Records
  BY DEF ScriptFails, At, Inv, Typed, Loaded, Under, JobsTyped
<1>2. PICK r \in Records :
        /\ job' = [job EXCEPT ![t] = r] /\ r.op = job[t].op
        /\ r.pc \in {"gate", "finish"} /\ ~r.ok
        /\ r.pc = "gate" => r.todo # <<>>
        /\ Len(job[t].todo) = 1 => r.pc = "finish"
        /\ job[t].todo \in Seq(Rising) => r.todo \in Seq(Rising)
  BY <1>1, ResultingRecord DEF ScriptFails
<1>3. /\ UNCHANGED <<pending, mode, lock, temp, saw>>
      /\ posture' \in {posture, Pose(Script(t))}
      /\ owed' = (owed /\ posture' = posture)
      /\ faults < MaxFaults /\ faults' = faults + 1
  BY DEF ScriptFails
<1>4. /\ StateTyped /\ Lying /\ Pose(Script(t)) \in {"up", "down", posture}
  BY <1>1, InHand DEF Under, Inv, Typed
<1>5. faults' \in 0..MaxFaults
  BY <1>3, <1>4, ThermalAssumption DEF StateTyped
<1>6. StateTyped' /\ Lying'
  BY <1>3, <1>4, <1>5 DEF StateTyped, Lying
<1>7. owed' => owed  BY <1>3
<1>8. ASSUME t # Watch  PROVE OtherWrites(r)
  BY <1>2, <1>3, <1>7, <1>8 DEF OtherWrites, Inv, Owners
<1>9. ASSUME t = Watch  PROVE WatchWrites(r)
  <2>1. r.op \in Single => Len(job[Watch].todo) = 1
    BY <1>1, <1>2, <1>9, WatchInHand DEF Under
  <2>2. r.op \notin Single => r.todo \in Seq(Rising)
    BY <1>1, <1>2, <1>9 DEF Under, Inv, Shape
  <2>3. QED
    BY <1>1, <1>2, <1>3, <1>7, <1>9, <2>1, <2>2 DEF WatchWrites, Inv, Watching, At, Under
<1>10. r.pc # "run" /\ (r.pc \in Under => r.todo # <<>>)
  BY <1>2 DEF Under
<1>11. QED  BY <1>2, <1>6, <1>8, <1>9, <1>10, JobSteps

LEMMA ScriptResultStep ==
    ASSUME Inv, NEW t \in Threads, ScriptResult(t)
    PROVE  Inv'
<1>1. job[t].pc = "done" /\ job[t].todo # <<>> /\ JobsTyped /\ Loaded /\ job[t] \in Records
  BY DEF ScriptResult, At, Inv, Typed, Loaded, Under, JobsTyped
<1>2. PICK r \in Records :
        /\ job' = [job EXCEPT ![t] = r] /\ r.op = job[t].op
        /\ r.pc \in {"gate", "finish"} /\ r.ok = job[t].ok
        /\ r.pc = "gate" => r.todo # <<>>
        /\ Len(job[t].todo) = 1 => r.pc = "finish"
        /\ job[t].todo \in Seq(Rising) => r.todo \in Seq(Rising)
  <2>1. job[t].ok \in BOOLEAN  BY <1>1 DEF Records
  <2>2. QED  BY <1>1, <2>1, ResultingRecord DEF ScriptResult
<1>3. UNCHANGED <<posture, owed, mode, lock, temp, saw, faults>>
  BY DEF ScriptResult
<1>4. pending' \in BOOLEAN
  BY DEF ScriptResult, PendingAfter, Inv, Typed, StateTyped
<1>5. StateTyped' /\ Lying'
  BY <1>3, <1>4 DEF Inv, Typed, StateTyped, Lying
<1>6. ASSUME t # Watch  PROVE OtherWrites(r)
  BY <1>2, <1>3, <1>6 DEF OtherWrites, Inv, Owners
<1>7. ASSUME t = Watch  PROVE WatchWrites(r)
  <2>1. r.op \in Single => Len(job[Watch].todo) = 1 /\ job[Watch].ok
    BY <1>1, <1>2, <1>7, WatchInHand DEF Under
  <2>2. r.op \notin Single => r.todo \in Seq(Rising)
    BY <1>1, <1>2, <1>7 DEF Under, Inv, Shape
  <2>3. owed /\ r.op = "return" => FALSE
    BY <1>1, <1>2, <1>7 DEF Inv, Watching, At
  <2>4. QED
    BY <1>1, <1>2, <1>3, <1>7, <2>1, <2>2, <2>3 DEF WatchWrites, Inv, Watching, At, Under, Single
<1>8. r.pc # "run" /\ (r.pc \in Under => r.todo # <<>>)
  BY <1>2 DEF Under
<1>9. QED  BY <1>2, <1>5, <1>6, <1>7, <1>8, JobSteps

LEMMA FinishStep ==
    ASSUME Inv, NEW t \in Threads, Finish(t)
    PROVE  Inv'
<1>1. job[t].pc = "finish" /\ JobsTyped /\ job[t] \in Records /\ StateTyped
  BY DEF Finish, At, Inv, Typed, JobsTyped
<1>2. /\ job' = [job EXCEPT ![t] = Idle]
      /\ UNCHANGED <<posture, owed, temp, saw, faults>>
      /\ mode' = ModeAfter(job[t].op, job[t].ok)
      /\ pending' \in BOOLEAN /\ lock' \in BOOLEAN
  BY <1>1 DEF Finish, StateTyped
<1>3. PICK r \in Records : r = Idle  BY JobRecord
<1>4. /\ mode' \in Modes
      /\ mode' = "normal" => \/ mode = "normal" /\ ~(job[t].op = "tocrouch" /\ job[t].ok)
                             \/ job[t].op = "tobalance"
                             \/ job[t].op = "return" /\ job[t].ok
  BY <1>1, <1>2 DEF ModeAfter, Modes, StateTyped
<1>5. StateTyped' /\ Lying'
  BY <1>1, <1>2, <1>4 DEF Inv, Typed, StateTyped, Lying
<1>6. ASSUME t # Watch  PROVE OtherWrites(r)
  <2>1. job[t].op \notin Single  BY <1>6 DEF Inv, Owners
  <2>2. QED  BY <1>2, <1>3, <1>4, <2>1, JobRecord DEF OtherWrites, Single
<1>7. ASSUME t = Watch  PROVE WatchWrites(r)
  <2>1. owed => mode' # "normal"
    BY <1>1, <1>4, <1>7 DEF Inv, Watching, At
  <2>2. QED  BY <1>2, <1>3, <2>1, JobRecord DEF WatchWrites, Under, Single
<1>8. r.pc \notin Under /\ r.pc # "run"  BY <1>3, JobRecord DEF Under
<1>9. QED  BY <1>2, <1>3, <1>5, <1>6, <1>7, <1>8, JobSteps

-----------------------------------------------------------------------------
(* The requests and the watchdogs.                                         *)

LEMMA RequestStep ==
    ASSUME Inv, NEW t \in Requests, Request(t)
    PROVE  Inv'
<1>1. t \in Threads /\ t # Watch  BY ThermalAssumption DEF Threads
<1>2. PICK op \in Ops :
        /\ job' = [job EXCEPT ![t] = Job(op)]
        /\ pending' = (pending \/ (op = "recovery" /\ mode # "crouch"))
        /\ mode' = IF op = "recovery" THEN "crouch" ELSE mode
  BY DEF Request
<1>3. op \in DOMAIN Scripts /\ op \notin Single
  BY JobRecord, ThermalAssumption DEF Single
<1>4. PICK r \in Records : r = Job(op)  BY <1>3, JobRecord
<1>5. UNCHANGED <<posture, owed, lock, temp, saw, faults>>
  BY DEF Request
<1>6. StateTyped' /\ Lying'
  BY <1>2, <1>5 DEF Inv, Typed, StateTyped, Lying, Modes
<1>7. r.op = op /\ r.pc = "gate" /\ r.todo # <<>>  BY <1>3, <1>4, JobRecord
<1>8. OtherWrites(r)  BY <1>2, <1>3, <1>5, <1>7 DEF OtherWrites
<1>9. QED  BY <1>1, <1>2, <1>4, <1>6, <1>7, <1>8, JobSteps

LEMMA LookStep ==
    ASSUME Inv, Look
    PROVE  Inv'
<1>1. Watch \in Threads /\ JobsTyped /\ job[Watch] = Idle /\ job[Watch] \in Records
  BY DEF Threads, Inv, Typed, Look, JobsTyped
<1>2. PICK r \in Records :
        job' = [job EXCEPT ![Watch] = r] /\ r.op = "tick" /\ r.pc = "act"
  <2>1. job' = [job EXCEPT ![Watch] = [job[Watch] EXCEPT !.op = "tick", !.pc = "act"]]
    BY <1>1 DEF Look, JobsTyped
  <2>2. [job[Watch] EXCEPT !.op = "tick", !.pc = "act"] \in Records
    BY <1>1 DEF Records, OpNames, Pcs
  <2>3. QED  BY <1>1, <2>1, <2>2 DEF Records
<1>3. saw' = mode /\ UNCHANGED <<posture, owed, pending, mode, lock, temp, faults>>
  BY DEF Look
<1>4. StateTyped' /\ Lying'
  BY <1>3 DEF Inv, Typed, StateTyped, Lying
<1>5. owed => mode # "normal"
  BY <1>1, JobRecord DEF Inv, Watching, At
<1>6. WatchWrites(r)
  BY <1>2, <1>3, <1>4, <1>5 DEF WatchWrites, Under, Single, Inv, Typed, StateTyped
<1>7. r.pc \notin Under /\ r.pc # "run"  BY <1>2 DEF Under
<1>8. QED  BY <1>1, <1>2, <1>4, <1>6, <1>7, JobSteps

\* What a tick decides.
LEMMA Decisions ==
    ASSUME Inv
    PROVE  LET d == Decision(temp, saw) IN
           /\ d \in {"none", "forget", "recovery"} \cup Single
           /\ d = "tobalance" => saw = "normal"
BY DEF Decision, Single

\* A tick leaves the mode of a robot that lies down other than "normal".
LEMMA TickModes ==
    ASSUME Inv, At(Watch, "act")
    PROVE  /\ TickMode \in Modes
           /\ owed => TickMode # "normal" /\ saw # "normal"
           /\ saw \in Modes
<1>1. job[Watch].op = "tick" /\ saw \in Modes /\ mode \in Modes
  BY DEF Inv, Shape, Typed, StateTyped
<1>2. owed => mode # "normal" /\ saw # "normal"
  BY <1>1 DEF Inv, Watching
<1>3. QED  BY <1>1, <1>2 DEF TickMode, Modes

LEMMA TickStep ==
    ASSUME Inv, Tick
    PROVE  Inv'
<1> DEFINE d == Decision(temp, saw)
<1>1. At(Watch, "act") /\ Watch \in Threads /\ StateTyped
  BY DEF Tick, Threads, Inv, Typed
<1>2. /\ mode' = IF d = "forget" THEN "normal" ELSE TickMode
      /\ owed' = (owed /\ d # "forget")
      /\ saw' = "none" /\ UNCHANGED <<posture, pending, lock, temp>>
  BY DEF Tick
<1>3. faults' \in 0..MaxFaults
  BY <1>1, ThermalAssumption DEF Tick, StateTyped
<1>4. d \in {"none", "forget", "recovery"} \cup Single /\ (d = "tobalance" => saw = "normal")
  BY Decisions
<1>5. TickMode \in Modes /\ (owed => TickMode # "normal" /\ saw # "normal")
  BY <1>1, TickModes
<1>6. StateTyped' /\ Lying'
  BY <1>1, <1>2, <1>3, <1>5 DEF Inv, Typed, StateTyped, Lying, Modes
<1>7. PICK r \in Records :
        /\ job' = [job EXCEPT ![Watch] = r]
        /\ \/ r.op = "none" /\ r.pc = "idle"
           \/ /\ r.op = d /\ d \in Single \cup {"recovery"}
              /\ \/ r.pc = "gate" /\ r.ok /\ r.todo = Scripts[d] /\ Scripts[d] # <<>>
                 \/ r.pc = "finish" /\ ~r.ok
  <2>1. CASE job' = [job EXCEPT ![Watch] =
                        IF d \in {"none", "forget"} THEN Idle ELSE Job(d)]
    <3>1. CASE d \in {"none", "forget"}
      BY <2>1, <3>1, JobRecord
    <3>2. CASE d \notin {"none", "forget"}
      <4>1. d \in Single \cup {"recovery"} /\ d \in DOMAIN Scripts
        BY <1>4, <3>2, JobRecord, SingleScripts
      <4>2. Job(d) \in Records /\ Job(d).op = d /\ Job(d).pc = "gate" /\ Job(d).ok
            /\ Job(d).todo = Scripts[d] /\ Scripts[d] # <<>>
        BY <4>1, JobRecord
      <4>3. QED  BY <2>1, <3>2, <4>1, <4>2
    <3>3. QED  BY <3>1, <3>2
  <2>2. CASE d \in Single /\ job' = [job EXCEPT ![Watch] = Refused(d)]
    <3>1. d \in DOMAIN Scripts  BY <2>2, SingleScripts
    <3>2. Refused(d) \in Records /\ Refused(d).op = d /\ Refused(d).pc = "finish" /\ ~Refused(d).ok
      BY <3>1, JobRecord
    <3>3. QED  BY <2>2, <3>2
  <2>3. QED  BY <2>1, <2>2 DEF Tick, Single
<1>8. d = "recovery" => Scripts[d] \in Seq(Rising)
  <2>1. Scripts["recovery"] = <<"stand_up", "balance">>  BY DEF Scripts
  <2>2. <<"stand_up", "balance">> \in Seq(Rising)  BY DEF Rising
  <2>3. QED  BY <2>1, <2>2
<1>9. owed' => mode' # "normal" /\ r.op # "tobalance"
  BY <1>2, <1>4, <1>5, <1>7 DEF Single
<1>10. WatchWrites(r)
  BY <1>7, <1>8, <1>9 DEF WatchWrites, Under, Single
<1>11. r.pc # "run" /\ (r.pc \in Under => r.todo # <<>>)
  BY <1>7 DEF Under
<1>12. QED  BY <1>1, <1>6, <1>7, <1>10, <1>11, JobSteps

LEMMA TickLateStep ==
    ASSUME Inv, TickLate
    PROVE  Inv'
<1>1. /\ At(Watch, "act") /\ Watch \in Threads
      /\ mode' = TickMode /\ job' = [job EXCEPT ![Watch] = Idle]
      /\ saw' = "none" /\ UNCHANGED <<posture, owed, pending, lock, temp, faults>>
  BY DEF TickLate, Threads
<1>2. TickMode \in Modes /\ (owed => TickMode # "normal")
  BY <1>1, TickModes
<1>3. StateTyped' /\ Lying'
  BY <1>1, <1>2 DEF Inv, Typed, StateTyped, Lying
<1>4. PICK r \in Records : r = Idle  BY JobRecord
<1>5. WatchWrites(r)
  BY <1>1, <1>2, <1>4, JobRecord DEF WatchWrites, Under, Single
<1>6. r.pc \notin Under /\ r.pc # "run"  BY <1>4, JobRecord DEF Under
<1>7. QED  BY <1>1, <1>3, <1>4, <1>5, <1>6, JobSteps

LEMMA LowBatteryStep ==
    ASSUME Inv, LowBattery
    PROVE  Inv'
<1>1. Battery \in Threads /\ Battery # Watch  BY DEF Threads, Battery, Watch
<1>2. PICK r \in Records : r = Job("lowbattery")  BY JobRecord
<1>3. r.op = "lowbattery" /\ r.pc = "gate" /\ r.todo # <<>>  BY <1>2, JobRecord
<1>4. /\ job' = [job EXCEPT ![Battery] = Job("lowbattery")]
      /\ UNCHANGED <<posture, owed, pending, mode, lock, temp, saw, faults>>
  BY DEF LowBattery
<1>5. StateTyped' /\ Lying'
  BY <1>4 DEF Inv, Typed, StateTyped, Lying
<1>6. OtherWrites(r)  BY <1>3, <1>4 DEF OtherWrites, Single
<1>7. QED  BY <1>1, <1>2, <1>3, <1>4, <1>5, <1>6, JobSteps

LEMMA RestartStep ==
    ASSUME Inv, Restart
    PROVE  Inv'
<1>1. /\ job' = [t \in Threads |-> Idle] /\ saw' = "none" /\ lock' = FALSE
      /\ mode' = IF pending THEN "crouch" ELSE "normal"
      /\ UNCHANGED <<pending, temp>>
      /\ faults < MaxFaults /\ faults' = faults + 1
      /\ owed' => owed /\ pending /\ posture' = posture
      /\ owed' \in BOOLEAN
  BY DEF Restart
<1>2. posture' \in {"up", "down"}
  <2>1. CASE UNCHANGED posture  BY <2>1 DEF Inv, Typed, StateTyped
  <2>2. CASE \E t \in Threads : At(t, "run") /\ posture' = Pose(Script(t))
    BY <2>2, InHand DEF Inv, Typed, StateTyped, At, Under
  <2>3. QED  BY <2>1, <2>2 DEF Restart
<1>3. StateTyped' /\ Lying'
  <2>1. faults' \in 0..MaxFaults
    BY <1>1, ThermalAssumption DEF Inv, Typed, StateTyped
  <2>2. mode' \in Modes  BY <1>1 DEF Modes
  <2>3. Lying'  BY <1>1 DEF Inv, Typed, Lying
  <2>4. QED  BY <1>1, <1>2, <2>1, <2>2, <2>3 DEF Inv, Typed, StateTyped
<1>4. Watch \in Threads /\ \A t \in Threads : job'[t] = Idle
  BY <1>1 DEF Threads
<1>5. JobsTyped'  BY <1>1, JobRecord DEF JobsTyped
<1>6. Loaded' /\ OneRuns'  BY <1>4, JobRecord DEF Loaded, OneRuns, At, Under
<1>7. Owners' /\ Shape'
  BY <1>4, JobRecord DEF Owners, Shape, At, Single, Under
<1>8. Watching'  BY <1>1, <1>4, JobRecord DEF Watching, At
<1>9. QED  BY <1>3, <1>5, <1>6, <1>7, <1>8 DEF Inv, Typed

-----------------------------------------------------------------------------
(* The theorems.                                                           *)

LEMMA InvInit == Init => Inv
<1> SUFFICES ASSUME Init PROVE Inv  OBVIOUS
<1>1. Watch \in Threads /\ \A t \in Threads : job[t] = Idle
  BY DEF Init, Threads
<1>2. JobsTyped  BY JobRecord DEF Init, JobsTyped
<1>3. Loaded /\ OneRuns  BY <1>1, JobRecord DEF Loaded, OneRuns, At, Under
<1>4. Owners /\ Shape  BY <1>1, JobRecord DEF Owners, Shape, At, Single, Under
<1>5. StateTyped /\ Lying /\ Watching
  <2>1. faults \in 0..MaxFaults  BY ThermalAssumption DEF Init
  <2>2. QED  BY <2>1 DEF Init, StateTyped, Lying, Watching, Modes
<1>6. QED  BY <1>2, <1>3, <1>4, <1>5 DEF Inv, Typed

LEMMA InvNext == Inv /\ [Next]_vars => Inv'
<1> SUFFICES ASSUME Inv, [Next]_vars PROVE Inv'  OBVIOUS
<1>1. ASSUME NEW t \in Threads, Step(t)  PROVE Inv'
  BY <1>1, GateStep, StartScriptStep, ScriptDoneStep, ScriptFailsStep,
     ScriptResultStep, FinishStep DEF Step
<1>2. ASSUME NEW t \in Requests, Request(t)  PROVE Inv'
  BY <1>2, RequestStep
<1>3. CASE Recharged
  <2>1. StateTyped' /\ Lying' /\ UNCHANGED <<job, saw, owed, mode>>
    BY <1>3 DEF Recharged, Inv, Typed, StateTyped, Lying
  <2>2. QED  BY <2>1, NoJobSteps
<1>4. CASE Weather
  <2>1. StateTyped' /\ Lying' /\ UNCHANGED <<job, saw, owed, mode>>
    BY <1>4 DEF Weather, Inv, Typed, StateTyped, Lying
  <2>2. QED  BY <2>1, NoJobSteps
<1>5. CASE UNCHANGED vars
  <2>1. StateTyped' /\ Lying' /\ UNCHANGED <<job, saw, owed, mode>>
    BY <1>5 DEF vars, Inv, Typed, StateTyped, Lying
  <2>2. QED  BY <2>1, NoJobSteps
<1>6. QED
  BY <1>1, <1>2, <1>3, <1>4, <1>5, LookStep, TickStep, TickLateStep, LowBatteryStep,
     RestartStep DEF Next

THEOREM Invariance == Spec => []Inv
BY InvInit, InvNext, PTL DEF Spec

\* Every job is a legal one, one script runs at a time, and a robot that is owed a
\* stand lies down.
THEOREM TypeCorrect == Spec => []TypeOK
<1>1. Inv => TypeOK
  <2> SUFFICES ASSUME Inv PROVE TypeOK  OBVIOUS
  <2>1. \A t \in Threads : job[t] \in Records  BY DEF Inv, Typed, JobsTyped
  <2>2. \A t \in Threads : /\ job[t].op \in DOMAIN Scripts \cup {"none", "tick"}
                           /\ job[t].pc \in Pcs
    BY <2>1, JobRecord DEF Records, OpNames
  <2>3. QED
    BY <2>2 DEF Inv, Typed, TypeOK, StateTyped, Lying, Loaded, OneRuns, Pcs, Under
<1>2. QED  BY <1>1, Invariance, PTL

\* A robot that the watchdog laid down is never taken for one that stands in normal
\* mode, however many requests write over thermal_mode.
THEOREM RecoveryRemembered == Spec => []Remembered
<1>1. Inv => Remembered  BY DEF Inv, Watching, Remembered
<1>2. QED  BY <1>1, Invariance, PTL

=============================================================================
