---------------------------- MODULE HoldRegister ----------------------------
(***************************************************************************)
(* What the hold daemon promises its clients: one memory of the hold, to   *)
(* which the messages of each client's batch apply one at a time, once and *)
(* in the order of the batch.  A batch that is refused or abandoned has    *)
(* applied up to some message; of an abandoned one the message under way   *)
(* may still apply, late.  What is saved is the memory of a moment, and    *)
(* what a new process starts from.                                         *)
(***************************************************************************)
EXTENDS Sequences

CONSTANTS
    Clients, Batches,
    Apply(_, _),      \* the memory after a message
    Loaded(_),        \* the memory a process takes from what is saved
    Blank             \* the memory of nothing

VARIABLES
    up,               \* whether the process runs
    value,            \* its memory of the hold
    todo,             \* what is left to apply of each client's batch
    late,             \* messages of abandoned batches that may still apply
    saved             \* what is saved, and whether in this boot

Init ==
    /\ up = FALSE
    /\ value = Blank
    /\ todo = [c \in Clients |-> <<>>]
    /\ late = {}
    /\ saved = [boot |-> FALSE, hold |-> Blank]

Accept(c, b) ==
    /\ up /\ todo[c] = <<>>
    /\ todo' = [todo EXCEPT ![c] = b]
    /\ UNCHANGED <<up, value, late, saved>>

Write(c) ==
    /\ up /\ todo[c] # <<>>
    /\ value' = Apply(value, Head(todo[c]))
    /\ todo' = [todo EXCEPT ![c] = Tail(@)]
    /\ UNCHANGED <<up, late, saved>>

Refuse(c) ==
    /\ up /\ todo[c] # <<>>
    /\ todo' = [todo EXCEPT ![c] = <<>>]
    /\ UNCHANGED <<up, value, late, saved>>

Abandon(c) ==
    /\ up /\ todo[c] # <<>>
    /\ todo' = [todo EXCEPT ![c] = <<>>]
    /\ late' = late \cup {Head(todo[c])}
    /\ UNCHANGED <<up, value, saved>>

\* A message was abandoned more than once, or is gone.
WriteLate(m) ==
    /\ up /\ m \in late
    /\ value' = Apply(value, m)
    /\ late' \in {late, late \ {m}}
    /\ UNCHANGED <<up, todo, saved>>

DropLate(m) ==
    /\ up /\ late' = late \ {m}
    /\ UNCHANGED <<up, value, todo, saved>>

Save ==
    /\ up
    /\ saved' = [boot |-> TRUE, hold |-> value]
    /\ UNCHANGED <<up, value, todo, late>>

\* The process ends, for good or for bad, and the machine may boot.
Stop ==
    /\ up' = FALSE
    /\ todo' = [c \in Clients |-> <<>>]
    /\ late' = {}
    /\ saved' \in {saved, [saved EXCEPT !.boot = FALSE]}
    /\ UNCHANGED value

Start ==
    /\ ~up /\ up' = TRUE
    /\ value' = Loaded(saved)
    /\ UNCHANGED <<todo, late, saved>>

Next ==
    \/ Save \/ Stop \/ Start
    \/ \E c \in Clients : \/ Write(c) \/ Refuse(c) \/ Abandon(c)
                          \/ \E b \in Batches : Accept(c, b)
    \/ \E m \in late : WriteLate(m) \/ DropLate(m)

Spec == Init /\ [][Next]_<<up, value, todo, late, saved>>
=============================================================================
