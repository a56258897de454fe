---------------------------- MODULE MotionGuard ----------------------------
(***************************************************************************)
(* go2_dashboard/d1_jog/motion_guard.py: the module-level lock record that *)
(* every request moving the D1 arm goes through.  A request acquires a     *)
(* motion kind, jog sessions also claim a control plane, and the safety    *)
(* handlers preempt whatever holds them.  The guard knows kinds, not       *)
(* owners: acquiring the kind that is already held succeeds.               *)
(***************************************************************************)
VARIABLE guard   \* _kind, _plane, _safety_source, _battery_lock, override

Kinds   == {"joint", "cartesian", "zero", "admin", "hold", "program"}
Planes  == {"joint", "cartesian"}
\* The reason strings of request_emergency_hold reduced to the button's and
\* the program runner's.
Sources == {"release", "hold", "abort"}

GuardType ==
    guard \in [kind : Kinds \cup {"idle"}, plane : Planes \cup {"idle"},
               preempt : Sources \cup {"none"}, lock : BOOLEAN, override : BOOLEAN]

GuardInit ==
    guard = [kind |-> "idle", plane |-> "idle", preempt |-> "none",
             lock |-> FALSE, override |-> FALSE]

Preempted     == guard.preempt # "none"
BatteryLocked == guard.lock /\ ~guard.override

\* Mutant of MayAcquire: the kind that is held is not looked at.
MayAcquireAnyKind(k) ==
    /\ BatteryLocked => k \in {"hold", "admin", "zero"}
    /\ Preempted => k \in {"hold", "admin"}
    /\ guard.plane \in {"idle", k}

\* try_acquire: a flat battery leaves only what folds the arm, a preemption
\* only what holds it; another plane or another kind is busy.
MayAcquire(k) ==
    /\ BatteryLocked => k \in {"hold", "admin", "zero"}
    /\ Preempted => k \in {"hold", "admin"}
    /\ guard.plane \in {"idle", k}
    /\ guard.kind \in {"idle", k}
Acquired(k) == [guard EXCEPT !.kind = k]

\* Mutant of Released: whoever holds the guard loses it.
ReleasedAnyKind(k) == [guard EXCEPT !.kind = "idle"]

Released(k) == [guard EXCEPT !.kind = IF @ = k THEN "idle" ELSE @]

\* claim_plane, release_plane
MayClaim(p)   == ~BatteryLocked /\ guard.plane \in {"idle", p}
Claimed(p)    == [guard EXCEPT !.plane = p]

\* Mutant of Unclaimed: no plane is written as None.
UnclaimedToNone(p) == [guard EXCEPT !.plane = IF @ = p THEN "none" ELSE @]

Unclaimed(p)  == [guard EXCEPT !.plane = IF @ = p THEN "idle" ELSE @]

\* force_idle
Forced == [guard EXCEPT !.kind = "idle", !.plane = "idle"]

\* begin_safety_preempt: the last to begin is the source.
PreemptBegun(s) == [Forced EXCEPT !.preempt = s]

\* end_safety_preempt: ignored when another source has begun since.
PreemptEnded(s) ==
    IF guard.preempt \in {"none", s} THEN [guard EXCEPT !.preempt = "none"] ELSE guard
=============================================================================
